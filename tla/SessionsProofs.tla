--------------------------- MODULE SessionsProofs ----------------------------
(***************************************************************************)
(* Theorems about the conversations a window holds with the server, for    *)
(* any number of editors, requests, Previews, adjustments, queries and     *)
(* changes.                                                                *)
(***************************************************************************)
EXTENDS MCSessions, FiniteSetTheorems, TLAPS

(* ----------------------------- Topic Preview ---------------------------- *)

\* The component's Cardinality is the library's.
LEMMA Counting == \A S : Topic!Cardinality(S) = Cardinality(S)
  BY DEF Topic!Cardinality, Cardinality

\* Counting what is numbered from 1 on.
LEMMA CountSame ==
  ASSUME NEW n \in Nat, NEW S \in SUBSET (1..n)
  PROVE  /\ IsFiniteSet(S)
         /\ Topic!Cardinality(S) \in Nat /\ Topic!Cardinality(S) \in 0..n
  <1>1. IsFiniteSet(1..n) /\ Cardinality(1..n) = n BY FS_Interval
  <1>2. IsFiniteSet(S) /\ Cardinality(S) <= Cardinality(1..n) BY <1>1, FS_Subset
  <1>3. Cardinality(S) \in Nat BY <1>2, FS_CardinalityType
  <1>4. Topic!Cardinality(S) = Cardinality(S) BY Counting
  <1> QED BY <1>1, <1>2, <1>3, <1>4

LEMMA CountMore ==
  ASSUME NEW n \in Nat, NEW S \in SUBSET (1..n), NEW T \in SUBSET (1..n),
         NEW x \in 1..n, x \notin S,
         \A y \in 1..n : y \in T <=> y \in S \/ y = x
  PROVE  Topic!Cardinality(T) = Topic!Cardinality(S) + 1
  <1>1. T = S \cup {x} OBVIOUS
  <1>2. IsFiniteSet(S) BY CountSame
  <1>3. Topic!Cardinality(S) = Cardinality(S) /\ Topic!Cardinality(T) = Cardinality(T)
    BY Counting
  <1>4. Cardinality(T) = Cardinality(S) + 1 BY <1>1, <1>2, FS_AddElement
  <1> QED BY <1>3, <1>4

LEMMA FewerThanOne ==
  ASSUME NEW S, NEW T, IsFiniteSet(S), T \subseteq S, Topic!Cardinality(S) <= 1
  PROVE  Topic!Cardinality(T) <= 1
  <1>1. Cardinality(S) <= 1 /\ Topic!Cardinality(T) = Cardinality(T) BY Counting
  <1>2. IsFiniteSet(T) /\ Cardinality(T) <= Cardinality(S) BY FS_Subset
  <1>3. Cardinality(T) \in Nat /\ Cardinality(S) \in Nat BY <1>2, FS_CardinalityType
  <1> QED BY <1>1, <1>2, <1>3

LEMMA AtMostOne ==
  ASSUME NEW S, NEW x, S \subseteq {x}
  PROVE  Topic!Cardinality(S) <= 1
  <1>1. IsFiniteSet({x}) /\ Cardinality({x}) = 1 BY FS_Singleton
  <1>2. Topic!Cardinality({x}) <= 1 BY <1>1, Counting
  <1> QED BY <1>1, <1>2, FewerThanOne

LEMMA IdsUnchanged ==
  ASSUME \A i \in Topic!Ids : request'[i] # "none" <=> request[i] # "none"
  PROVE  Topic!NextId' = Topic!NextId
  <1>1. {i \in Topic!Ids : request'[i] # "none"} = {i \in Topic!Ids : request[i] # "none"} OBVIOUS
  <1> QED BY <1>1 DEF Topic!NextId, Topic!Ids

LEMMA AdjustmentsUnchanged ==
  ASSUME \A k \in Topic!Adjustments : adjust'[k] # "none" <=> adjust[k] # "none"
  PROVE  Topic!NextAdjustment' = Topic!NextAdjustment
  <1>1. {k \in Topic!Adjustments : adjust'[k] # "none"}
         = {k \in Topic!Adjustments : adjust[k] # "none"} OBVIOUS
  <1> QED BY <1>1 DEF Topic!NextAdjustment, Topic!Adjustments

LEMMA RevisionsUnchanged ==
  ASSUME \A i \in Topic!Ids : first'[i] = first[i], \A k \in Topic!Adjustments : made'[k] = made[k]
  PROVE  /\ Topic!Cardinality({i \in Topic!Ids : first'[i] # Topic!Nil})
         = Topic!Cardinality({i \in Topic!Ids : first[i] # Topic!Nil})
         /\ Topic!Cardinality({k \in Topic!Adjustments : made'[k] # Topic!Nil})
                = Topic!Cardinality({k \in Topic!Adjustments : made[k] # Topic!Nil})
  <1>1. {i \in Topic!Ids : first'[i] # Topic!Nil} = {i \in Topic!Ids : first[i] # Topic!Nil} OBVIOUS
  <1>2. {k \in Topic!Adjustments : made'[k] # Topic!Nil}
         = {k \in Topic!Adjustments : made[k] # Topic!Nil} OBVIOUS
  <1> QED BY <1>1, <1>2

LEMMA Numbers ==
  ASSUME Topic!BoundsAssumption
  PROVE  /\ Topic!NextId \in Nat /\ Topic!NextId > 0 /\ Topic!NextAdjustment \in Nat
              /\ Topic!NextAdjustment > 0
         /\ Topic!Ids \subseteq Nat /\ Topic!Adjustments \subseteq Nat /\ Topic!Nil \in Nat
              /\ Topic!Nil \notin Topic!Ids /\ Topic!Nil \notin Topic!Adjustments
         /\ Topic!Revisions \subseteq Nat /\ Topic!RunLock \notin Topic!Ids
              /\ Topic!RunLock # Topic!Nil
  <1> DEFINE S == {i \in Topic!Ids : request[i] # "none"}
  T == {k \in Topic!Adjustments : adjust[k] # "none"}
  <1>1. MaxPreviews \in Nat /\ MaxAdjustments \in Nat BY DEF Topic!BoundsAssumption
  <1>2. S \in SUBSET (1..MaxPreviews) /\ T \in SUBSET (1..MaxAdjustments)
    BY DEF Topic!Ids, Topic!Adjustments
  <1>3. Topic!Cardinality(S) \in Nat /\ Topic!Cardinality(T) \in Nat BY <1>1, <1>2, CountSame
  <1>4. Topic!NextId = 1 + Topic!Cardinality(S) /\ Topic!NextAdjustment = 1 + Topic!Cardinality(T)
    BY DEF Topic!NextId, Topic!NextAdjustment
  <1> QED BY <1>1, <1>3, <1>4 DEF Topic!Ids, Topic!Adjustments, Topic!Nil, Topic!RunLock,
               Topic!Revisions

LEMMA Shapes ==
  /\ Topic!Blank[1] = "blank" /\ Topic!Waiting[1] = "waiting" /\ Topic!Failed[1] = "failed"
  /\ \A r : Topic!Ready(r)[1] = "ready" /\ Topic!Ready(r)[2] = r
  /\ Topic!Waiting # Topic!Blank /\ Topic!Failed # Topic!Blank /\ Topic!Waiting # Topic!Failed
  /\ \A r : Topic!Ready(r) # Topic!Blank /\ Topic!Ready(r) # Topic!Waiting
       /\ Topic!Ready(r) # Topic!Failed
  BY DEF Topic!Blank, Topic!Waiting, Topic!Failed, Topic!Ready

\* Dropping models leaves the others.
LEMMA Drops ==
  ASSUME Topic!BoundsAssumption, Topic!TypeOK, NEW S
  PROVE  /\ Topic!Emptied(S) \in [Topic!Ids -> Topic!Revisions]
         /\ \A n \in Topic!Ids : Topic!Emptied(S)[n] = Topic!Nil \/ Topic!Emptied(S)[n] = model[n]
  <1>1. Topic!Nil \in Topic!Revisions BY DEF Topic!Nil, Topic!Revisions, Topic!BoundsAssumption
  <1> QED BY <1>1 DEF Topic!Emptied, Topic!TypeOK

\* Releasing previews cancels them and what is being computed for them.
LEMMA Cancels ==
  ASSUME Topic!TypeOK, NEW S, Topic!Cancelling(S)
  PROVE  /\ cancelled' \in [Topic!Ids -> BOOLEAN] /\ adjust' \in [Topic!Adjustments -> Topic!Phases]
         /\ \A n \in Topic!Ids : cancelled'[n] <=> (cancelled[n] \/ n \in S)
         /\ \A j \in Topic!Adjustments :
              adjust'[j] = adjust[j] \/ (adjust[j] = "computing" /\ adjust'[j] = "cancelled")
  <1>1. cancelled' \in [Topic!Ids -> BOOLEAN]
    BY Zenon DEF Topic!Cancelling, Topic!TypeOK
  <1>2. \A n \in Topic!Ids : cancelled'[n] <=> (cancelled[n] \/ n \in S)
    BY Zenon DEF Topic!Cancelling, Topic!TypeOK
  <1>3. adjust' \in [Topic!Adjustments -> Topic!Phases]
    BY DEF Topic!Cancelling, Topic!TypeOK, Topic!Phases
  <1>4. \A j \in Topic!Adjustments :
          adjust'[j] = adjust[j] \/ (adjust[j] = "computing" /\ adjust'[j] = "cancelled")
    BY DEF Topic!Cancelling, Topic!TypeOK
  <1> QED BY <1>1, <1>2, <1>3, <1>4

\* What a step that makes nothing new leaves as it is.
LEMMA NumbersKept ==
  ASSUME Topic!BoundsAssumption, Topic!TypeOK, Topic!Numbered,
         \A n \in Topic!Ids : request'[n] # "none" <=> request[n] # "none",
         \A j \in Topic!Adjustments : adjust'[j] # "none" <=> adjust[j] # "none",
         UNCHANGED <<first, made, revisions, expected>>,
         \A n \in Topic!Ids : /\ model'[n] = Topic!Nil \/ model'[n] = model[n]
                              /\ update'[n] = "ready" => update[n] = "ready"
                              /\ work[n] = "finished" => work'[n] = "finished",
         \A j \in Topic!Adjustments :
           /\ adjust'[j] = "stored" => adjust[j] = "stored"
           /\ adjust[j] \in {"stored", "answered"} => adjust'[j] \in {"stored", "answered"}
  PROVE  Topic!Numbered'
  <1>1. Topic!NextId' = Topic!NextId BY IdsUnchanged
  <1>2. Topic!NextAdjustment' = Topic!NextAdjustment BY AdjustmentsUnchanged
  <1>3. /\ \A n \in Topic!Ids : request'[n] # "none" <=> n < Topic!NextId'
        /\ \A j \in Topic!Adjustments : adjust'[j] # "none" <=> j < Topic!NextAdjustment'
    BY <1>1, <1>2 DEF Topic!Numbered
  <1>4. revisions' = Topic!Cardinality({n \in Topic!Ids : first'[n] # Topic!Nil})
         + Topic!Cardinality({j \in Topic!Adjustments : made'[j] # Topic!Nil})
    BY RevisionsUnchanged DEF Topic!Numbered
  <1>5. \A n \in Topic!Ids : /\ first'[n] <= revisions' /\ model'[n] <= revisions'
                             /\ update'[n] = "ready" => first'[n] # Topic!Nil
                             /\ first'[n] # Topic!Nil => work'[n] = "finished"
    <2> SUFFICES ASSUME NEW n \in Topic!Ids
                 PROVE  /\ first'[n] <= revisions' /\ model'[n] <= revisions'
                        /\ update'[n] = "ready" => first'[n] # Topic!Nil
                        /\ first'[n] # Topic!Nil => work'[n] = "finished"
      OBVIOUS
    <2>1. revisions \in Nat BY Numbers DEF Topic!TypeOK
    <2>2. model'[n] <= revisions' BY <2>1 DEF Topic!Numbered, Topic!Nil
    <2> QED BY <2>2 DEF Topic!Numbered
  <1>6. \A j \in Topic!Adjustments :
             /\ expected'[j] <= revisions' /\ made'[j] <= revisions'
             /\ adjust'[j] = "stored" => made'[j] # Topic!Nil
             /\ made'[j] # Topic!Nil => adjust'[j] \in {"stored", "answered"}
    BY DEF Topic!Numbered
  <1> QED BY <1>3, <1>4, <1>5, <1>6 DEF Topic!Numbered

LEMMA ComputedKept ==
  ASSUME Topic!TypeOK, Topic!ComputedFromShown, UNCHANGED <<owner, base, expected>>,
         \A n \in Topic!Ids : model'[n] = Topic!Nil \/ model'[n] = model[n],
         \A j \in Topic!Adjustments : /\ adjust'[j] # "none" => adjust[j] # "none"
                                      /\ adjust'[j] = "computing" => adjust[j] = "computing"
  PROVE  Topic!ComputedFromShown'
  <1>1. \A j \in Topic!Adjustments : adjust[j] # "none" => owner[j] \in Topic!Ids
    BY Zenon DEF Topic!ComputedFromShown, Topic!TypeOK
  <1> SUFFICES ASSUME NEW j \in Topic!Adjustments
               PROVE  /\ adjust'[j] # "none" => owner'[j] # Topic!Nil
                      /\ adjust'[j] = "computing" =>
                           model'[owner'[j]] \in {Topic!Nil,
                                base'[j]} \/ model'[owner'[j]] > expected'[j]
    BY DEF Topic!ComputedFromShown
  <1>2. adjust'[j] # "none" => owner'[j] # Topic!Nil BY DEF Topic!ComputedFromShown
  <1>3. ASSUME adjust'[j] = "computing"
        PROVE  model'[owner'[j]] \in {Topic!Nil, base'[j]} \/ model'[owner'[j]] > expected'[j]
    <2>1. adjust[j] = "computing" /\ owner[j] \in Topic!Ids BY <1>1, <1>3
    <2>2. model[owner[j]] \in {Topic!Nil, base[j]} \/ model[owner[j]] > expected[j]
      BY <2>1 DEF Topic!ComputedFromShown
    <2> QED BY <2>1, <2>2
  <1> QED BY <1>2, <1>3

LEMMA MostRevisions ==
  ASSUME Topic!BoundsAssumption, NEW r,
         r = Topic!Cardinality({n \in Topic!Ids : first'[n] # Topic!Nil})
                + Topic!Cardinality({j \in Topic!Adjustments : made'[j] # Topic!Nil})
  PROVE  r \in Topic!Revisions
  <1> DEFINE S == {n \in Topic!Ids : first'[n] # Topic!Nil}
  T == {j \in Topic!Adjustments : made'[j] # Topic!Nil}
  <1>1. MaxPreviews \in Nat /\ MaxAdjustments \in Nat BY DEF Topic!BoundsAssumption
  <1>2. S \in SUBSET (1..MaxPreviews) /\ T \in SUBSET (1..MaxAdjustments)
    BY DEF Topic!Ids, Topic!Adjustments
  <1> HIDE DEF S, T
  <1>3. Topic!Cardinality(S) \in 0..MaxPreviews /\ Topic!Cardinality(T) \in 0..MaxAdjustments
    BY <1>1, <1>2, CountSame
  <1>4. r = Topic!Cardinality(S) + Topic!Cardinality(T) BY DEF S, T
  <1> QED BY <1>1, <1>3, <1>4 DEF Topic!Revisions

LEMMA OneKept ==
  ASSUME Topic!BoundsAssumption, Topic!TypeOK, Topic!OnePreview, registered' \subseteq registered,
         \A n \in Topic!Ids : cancelled[n] => cancelled'[n]
  PROVE  Topic!Cardinality({n \in registered' : ~cancelled'[n]}) <= 1
  <1> DEFINE S == {n \in registered : ~cancelled[n]} T == {n \in registered' : ~cancelled'[n]}
  <1>1. MaxPreviews \in Nat BY DEF Topic!BoundsAssumption
  <1>2. S \in SUBSET (1..MaxPreviews) BY DEF Topic!TypeOK, Topic!Ids
  <1>3. T \subseteq S BY DEF Topic!TypeOK
  <1>4. Topic!Cardinality(S) <= 1 BY DEF Topic!OnePreview
  <1>5. IsFiniteSet(S) BY <1>1, <1>2, CountSame
  <1> QED BY <1>3, <1>4, <1>5, FewerThanOne

LEMMA open_topic_preview_Keeps ==
  ASSUME Topic!BoundsAssumption, Topic!TopicPreviewInv, NEW i \in Topic!Ids,
       Topic!open_topic_preview(i)
  PROVE  Topic!TopicPreviewInv'
  <1> USE Numbers, Shapes
  <1>0. /\ Topic!TypeOK /\ Topic!Numbered /\ Topic!LockHeld /\ Topic!WaitsForOwn
             /\ Topic!ComputedFromShown
        /\ Topic!OnePreview /\ Topic!ShownIsOwn /\ Topic!AdjustChain
    BY DEF Topic!TopicPreviewInv
  <1>a. /\ request[i] = "sent" /\ admission = Topic!Nil
        /\ UNCHANGED <<registered, work, model, update, first, revisions, Topic!tab, aborted,
             cancelling,
                       deletion, active, current, expected, owner, base, made, latest, adjusting,
                            replaced>>
        /\ shown' = shown \/ (shown' = Topic!Failed /\ current = i)
    BY DEF Topic!open_topic_preview
  <1>b. /\ \A n \in Topic!Ids : n # i => request'[n] = request[n]
        /\ request' \in [Topic!Ids -> {"none", "sent", "releasing", "open", "closed"}]
        /\ (request'[i] = "releasing" /\ admission' = i /\ run = "idle" /\ releasing' = registered)
           \/ (request'[i] = "closed" /\ admission' = Topic!Nil /\ releasing' = releasing)
    <2>1. CASE run = "idle"
      BY <1>0, <1>a, <2>1, ZenonT(30) DEF Topic!open_topic_preview, Topic!TypeOK
    <2>2. CASE run # "idle"
      BY <1>0, <1>a, <2>2, ZenonT(30) DEF Topic!open_topic_preview, Topic!TypeOK
    <2> QED BY <2>1, <2>2
  <1>c. /\ cancelled' \in [Topic!Ids -> BOOLEAN] /\ adjust' \in [Topic!Adjustments -> Topic!Phases]
        /\ \A n \in Topic!Ids : cancelled[n] => cancelled'[n]
        /\ admission' # Topic!Nil => \A n \in registered : cancelled'[n]
        /\ \A j \in Topic!Adjustments :
             adjust'[j] = adjust[j] \/ (adjust[j] = "computing" /\ adjust'[j] = "cancelled")
    <2>1. CASE run = "idle"
      <3>1. Topic!Cancelling(registered) BY <2>1 DEF Topic!open_topic_preview
      <3> QED BY <1>0, <3>1, Cancels DEF Topic!TypeOK
    <2>2. CASE run # "idle"
      <3>1. cancelled' = cancelled /\ adjust' = adjust /\ admission' = admission
        BY <2>2 DEF Topic!open_topic_preview
      <3> QED BY <1>0, <1>a, <3>1 DEF Topic!TypeOK
    <2> QED BY <2>1, <2>2
  <1>1. Topic!TypeOK'
    <2>1. /\ request' \in [Topic!Ids -> {"none", "sent", "releasing", "open", "closed"}]
          /\ registered' \subseteq Topic!Ids /\ work' \in [Topic!Ids -> {"none", "fitting",
               "finished"}]
          /\ model' \in [Topic!Ids -> Topic!Revisions]
          /\ update' \in [Topic!Ids -> {"preparing", "ready", "failed"}]
          /\ first' \in [Topic!Ids -> Topic!Revisions] /\ revisions' \in Topic!Revisions
      BY <1>0, <1>a, <1>b, <1>c, Cancels DEF Topic!TypeOK, Topic!tab
    <2>2. cancelled' \in [Topic!Ids -> BOOLEAN]
      BY <1>0, <1>a, <1>b, <1>c, Cancels DEF Topic!TypeOK, Topic!tab
    <2>3. admission' \in {Topic!Nil, Topic!RunLock}
         \cup {n \in Topic!Ids : request'[n] = "releasing"}
      BY <1>0, <1>a, <1>b, <1>c DEF Topic!TypeOK, Topic!LockHeld, Topic!tab
    <2>4. /\ releasing' \subseteq Topic!Ids /\ (admission' = Topic!Nil => releasing' = {})
          /\ run' \in {"idle", "begun", "releasing", "fitting"}
      BY <1>0, <1>a, <1>b, <1>c, SMTT(20) DEF Topic!TypeOK, Topic!LockHeld, Topic!tab
    <2>a. admission' = Topic!RunLock <=> run' = "releasing"
      BY <1>0, <1>a, <1>b, <1>c DEF Topic!TypeOK, Topic!LockHeld, Topic!tab
    <2>b. runs' \in 0..MaxRuns
      BY <1>0, <1>a, <1>b, <1>c DEF Topic!TypeOK, Topic!BoundsAssumption, Topic!tab
    <2>5. /\ current' \in Topic!Ids \cup {Topic!Nil} /\ aborted' \subseteq Topic!Ids
               /\ cancelling' \subseteq Topic!Ids
          /\ active' \in BOOLEAN
      BY <1>0, <1>a, <1>b, <1>c DEF Topic!TypeOK, Topic!tab
    <2>6. deletion' = <<>> \/ deletion' \in {"sent", "waiting", "done", "expired"} \X Topic!Ids
      BY <1>0, <1>a, <1>b, <1>c DEF Topic!TypeOK, Topic!tab
    <2>7. shown' \in {Topic!Blank, Topic!Waiting, Topic!Failed}
         \cup {Topic!Ready(r) : r \in Topic!Revisions}
      BY <1>0, <1>a, <1>b, <1>c DEF Topic!TypeOK, Topic!tab
    <2>8. shown' # Topic!Blank <=> current' # Topic!Nil
      BY <1>0, <1>a, <1>b, <1>c DEF Topic!TypeOK, Topic!tab
    <2>9. /\ adjust' \in [Topic!Adjustments -> Topic!Phases]
          /\ latest' \in Topic!Adjustments \cup {Topic!Nil}
               /\ adjusting' \in [Topic!Ids -> Topic!Adjustments \cup {Topic!Nil}]
          /\ {expected', base', made'} \subseteq [Topic!Adjustments -> Topic!Revisions]
          /\ owner' \in [Topic!Adjustments -> Topic!Ids \cup {Topic!Nil}]
      BY <1>0, <1>a, <1>b, <1>c, Cancels DEF Topic!TypeOK, Topic!Phases, Topic!tab
    <2> QED BY <2>1, <2>2, <2>3, <2>4, <2>5, <2>6, <2>7, <2>8, <2>9, <2>a, <2>b
          DEF Topic!TypeOK
  <1>2. Topic!Numbered'
    <2>1. \A n \in Topic!Ids : request'[n] # "none" <=> request[n] # "none" BY <1>a, <1>b
    <2>2. /\ UNCHANGED <<first, made, revisions, expected>>
          /\ \A n \in Topic!Ids : model'[n] = model[n] /\ update'[n] = update[n]
               /\ work'[n] = work[n]
      BY <1>a
    <2>3. \A j \in Topic!Adjustments : /\ adjust'[j] # "none" <=> adjust[j] # "none"
                                       /\ adjust'[j] = "stored" => adjust[j] = "stored"
                                       /\ adjust[j] \in {"stored", "answered"}
                                            => adjust'[j] \in {"stored", "answered"}
      BY <1>c
    <2> QED BY ONLY Topic!BoundsAssumption, <1>0, <2>1, <2>2, <2>3, NumbersKept
  <1>3. Topic!LockHeld'
    <2>1. \A n \in Topic!Ids : request'[n] = "releasing" => admission' = n
      BY <1>0, <1>a, <1>b, <1>c DEF Topic!LockHeld, Topic!TypeOK, Topic!tab
    <2>2. admission' # Topic!Nil => \A n \in registered' : cancelled'[n]
      BY <1>0, <1>a, <1>b, <1>c DEF Topic!LockHeld, Topic!TypeOK, Topic!tab
    <2>3. run' = "fitting" => admission' = Topic!Nil
      BY <1>0, <1>a, <1>b, <1>c DEF Topic!LockHeld, Topic!TypeOK, Topic!tab
    <2>4. \A n \in Topic!Ids : work'[n] # "none" => request'[n] \in {"open", "closed"}
      BY <1>0, <1>a, <1>b, <1>c, SMTT(20) DEF Topic!LockHeld, Topic!TypeOK, Topic!tab
    <2>5. \A n \in Topic!Ids : work'[n] = "fitting" => n \in registered' \/ cancelled'[n]
      BY <1>0, <1>a, <1>b, <1>c DEF Topic!LockHeld, Topic!TypeOK, Topic!tab
    <2> QED BY <2>1, <2>2, <2>3, <2>4, <2>5 DEF Topic!LockHeld
  <1>4. Topic!WaitsForOwn'
    BY <1>0, <1>a, <1>b, <1>c, Cancels DEF Topic!WaitsForOwn, Topic!TypeOK, Topic!Numbered,
       Topic!tab
  <1>5. Topic!ComputedFromShown'
    BY <1>0, <1>a, <1>b, <1>c, ComputedKept, Cancels DEF Topic!TypeOK, Topic!tab
  <1>6. Topic!OnePreview'
    <2>1. Topic!Cardinality({n \in registered' : ~cancelled'[n]}) <= 1
      BY <1>0, <1>a, <1>b, <1>c, OneKept, Cancels DEF Topic!TypeOK, Topic!tab
    <2>2. run' = "fitting" => \A n \in Topic!Ids : work'[n] = "fitting" => cancelled'[n]
      BY <1>0, <1>a, <1>b, <1>c, Cancels DEF Topic!OnePreview, Topic!LockHeld, Topic!TypeOK,
           Topic!tab
    <2> QED BY <2>1, <2>2 DEF Topic!OnePreview
  <1>7. Topic!ShownIsOwn'
    BY <1>0, <1>a, <1>b, <1>c, SMTT(20) DEF Topic!ShownIsOwn, Topic!WaitsForOwn, Topic!Numbered,
       Topic!TypeOK, Topic!tab
  <1>8. Topic!AdjustChain' BY <1>0, <1>a, <1>b, <1>c DEF Topic!AdjustChain, Topic!tab
  <1> QED BY <1>1, <1>2, <1>3, <1>4, <1>5, <1>6, <1>7, <1>8 DEF Topic!TopicPreviewInv

LEMMA Registered_Keeps ==
  ASSUME Topic!BoundsAssumption, Topic!TopicPreviewInv, NEW i \in Topic!Ids, Topic!Registered(i)
  PROVE  Topic!TopicPreviewInv'
  <1> USE Numbers, Shapes
  <1>0. /\ Topic!TypeOK /\ Topic!Numbered /\ Topic!LockHeld /\ Topic!WaitsForOwn
             /\ Topic!ComputedFromShown
        /\ Topic!OnePreview /\ Topic!ShownIsOwn /\ Topic!AdjustChain
    BY DEF Topic!TopicPreviewInv
  <1>1. Topic!TypeOK'
    <2>1. /\ request' \in [Topic!Ids -> {"none", "sent", "releasing", "open", "closed"}]
          /\ registered' \subseteq Topic!Ids /\ work' \in [Topic!Ids -> {"none", "fitting",
               "finished"}]
          /\ model' \in [Topic!Ids -> Topic!Revisions]
          /\ update' \in [Topic!Ids -> {"preparing", "ready", "failed"}]
          /\ first' \in [Topic!Ids -> Topic!Revisions] /\ revisions' \in Topic!Revisions
      BY <1>0, Drops DEF Topic!TypeOK, Topic!Registered, Topic!Released, Topic!preview, Topic!tab,
           Topic!window, Topic!adjustment
    <2>2. cancelled' \in [Topic!Ids -> BOOLEAN]
      BY <1>0, Drops DEF Topic!TypeOK, Topic!Registered, Topic!Released, Topic!preview, Topic!tab,
           Topic!window, Topic!adjustment
    <2>3. admission' \in {Topic!Nil, Topic!RunLock}
         \cup {n \in Topic!Ids : request'[n] = "releasing"}
      BY <1>0 DEF Topic!TypeOK, Topic!LockHeld, Topic!Registered, Topic!Released, Topic!preview,
           Topic!tab, Topic!window, Topic!adjustment
    <2>4. /\ releasing' \subseteq Topic!Ids /\ (admission' = Topic!Nil => releasing' = {})
          /\ run' \in {"idle", "begun", "releasing", "fitting"}
      BY <1>0 DEF Topic!TypeOK, Topic!LockHeld, Topic!Registered, Topic!Released, Topic!preview,
           Topic!tab, Topic!window, Topic!adjustment
    <2>a. admission' = Topic!RunLock <=> run' = "releasing"
      BY <1>0 DEF Topic!TypeOK, Topic!LockHeld, Topic!Registered, Topic!Released, Topic!preview,
           Topic!tab, Topic!window, Topic!adjustment
    <2>b. runs' \in 0..MaxRuns
      BY <1>0 DEF Topic!TypeOK, Topic!BoundsAssumption, Topic!Registered, Topic!Released,
           Topic!preview, Topic!tab, Topic!window, Topic!adjustment
    <2>5. /\ current' \in Topic!Ids \cup {Topic!Nil} /\ aborted' \subseteq Topic!Ids
               /\ cancelling' \subseteq Topic!Ids
          /\ active' \in BOOLEAN
      BY <1>0 DEF Topic!TypeOK, Topic!Registered, Topic!Released, Topic!preview, Topic!tab,
           Topic!window, Topic!adjustment
    <2>6. deletion' = <<>> \/ deletion' \in {"sent", "waiting", "done", "expired"} \X Topic!Ids
      BY <1>0 DEF Topic!TypeOK, Topic!Registered, Topic!Released, Topic!preview, Topic!tab,
           Topic!window, Topic!adjustment
    <2>7. shown' \in {Topic!Blank, Topic!Waiting, Topic!Failed}
         \cup {Topic!Ready(r) : r \in Topic!Revisions}
      BY <1>0 DEF Topic!TypeOK, Topic!Registered, Topic!Released, Topic!preview, Topic!tab,
           Topic!window, Topic!adjustment
    <2>8. shown' # Topic!Blank <=> current' # Topic!Nil
      BY <1>0 DEF Topic!TypeOK, Topic!Registered, Topic!Released, Topic!preview, Topic!tab,
           Topic!window, Topic!adjustment
    <2>9. /\ adjust' \in [Topic!Adjustments -> Topic!Phases]
          /\ latest' \in Topic!Adjustments \cup {Topic!Nil}
               /\ adjusting' \in [Topic!Ids -> Topic!Adjustments \cup {Topic!Nil}]
          /\ {expected', base', made'} \subseteq [Topic!Adjustments -> Topic!Revisions]
          /\ owner' \in [Topic!Adjustments -> Topic!Ids \cup {Topic!Nil}]
      BY <1>0, Drops DEF Topic!TypeOK, Topic!Phases, Topic!Registered, Topic!Released,
           Topic!preview, Topic!tab, Topic!window, Topic!adjustment
    <2> QED BY <2>1, <2>2, <2>3, <2>4, <2>5, <2>6, <2>7, <2>8, <2>9, <2>a, <2>b
          DEF Topic!TypeOK
  <1>2. Topic!Numbered'
    <2>1. \A n \in Topic!Ids : request'[n] # "none" <=> request[n] # "none"
      BY <1>0 DEF Topic!TypeOK, Topic!Registered
    <2>2. /\ UNCHANGED <<first, made, revisions, expected, adjust>>
          /\ \A n \in Topic!Ids : update'[n] = update[n]
               /\ (model'[n] = Topic!Nil \/ model'[n] = model[n])
      BY <1>0, Drops DEF Topic!Registered, Topic!adjustment
    <2>3. \A n \in Topic!Ids : work[n] = "finished" => work'[n] = "finished"
      <3>1. work[i] = "none" BY <1>0 DEF Topic!Registered, Topic!LockHeld
      <3> QED BY <1>0, <3>1 DEF Topic!Registered, Topic!TypeOK
    <2> QED BY ONLY Topic!BoundsAssumption, <1>0, <2>1, <2>2, <2>3, NumbersKept
  <1>3. Topic!LockHeld'
    <2>1. \A n \in Topic!Ids : request'[n] = "releasing" => admission' = n
      BY <1>0 DEF Topic!LockHeld, Topic!TypeOK, Topic!Registered, Topic!tab
    <2>2. admission' # Topic!Nil => \A n \in registered' : cancelled'[n]
      BY <1>0 DEF Topic!LockHeld, Topic!TypeOK, Topic!Registered, Topic!tab
    <2>3. run' = "fitting" => admission' = Topic!Nil
      BY <1>0 DEF Topic!LockHeld, Topic!TypeOK, Topic!Registered, Topic!tab
    <2>4. \A n \in Topic!Ids : work'[n] # "none" => request'[n] \in {"open", "closed"}
      BY <1>0 DEF Topic!LockHeld, Topic!TypeOK, Topic!Registered, Topic!tab
    <2>5. \A n \in Topic!Ids : work'[n] = "fitting" => n \in registered' \/ cancelled'[n]
      BY <1>0 DEF Topic!LockHeld, Topic!TypeOK, Topic!Registered, Topic!tab
    <2> QED BY <2>1, <2>2, <2>3, <2>4, <2>5 DEF Topic!LockHeld
  <1>4. Topic!WaitsForOwn'
    BY <1>0, Drops DEF Topic!WaitsForOwn, Topic!TypeOK, Topic!Numbered, Topic!Registered,
       Topic!Released, Topic!preview, Topic!tab, Topic!window, Topic!adjustment
  <1>5. Topic!ComputedFromShown'
    BY <1>0, ComputedKept, Drops DEF Topic!TypeOK, Topic!Registered, Topic!Released, Topic!preview,
       Topic!tab, Topic!window, Topic!adjustment
  <1>6. Topic!OnePreview'
    <2>1. admission = i /\ i # Topic!Nil BY <1>0 DEF Topic!Registered, Topic!LockHeld
    <2>2. {n \in registered' : ~cancelled'[n]} \subseteq {i}
      BY <1>0, <2>1 DEF Topic!Registered, Topic!LockHeld
    <2>3. run # "fitting" BY <1>0, <2>1 DEF Topic!LockHeld
    <2>4. run' = run BY DEF Topic!Registered, Topic!tab
    <2>5. Topic!Cardinality({n \in registered' : ~cancelled'[n]}) <= 1 BY <2>2, AtMostOne
    <2> QED BY <2>3, <2>4, <2>5 DEF Topic!OnePreview
  <1>7. Topic!ShownIsOwn'
    BY <1>0 DEF Topic!ShownIsOwn, Topic!WaitsForOwn, Topic!Numbered, Topic!TypeOK,
       Topic!Registered, Topic!Released, Topic!preview, Topic!tab, Topic!window, Topic!adjustment
  <1>8. Topic!AdjustChain'
    BY <1>0 DEF Topic!AdjustChain, Topic!Registered, Topic!Released, Topic!preview, Topic!tab,
       Topic!window, Topic!adjustment
  <1> QED BY <1>1, <1>2, <1>3, <1>4, <1>5, <1>6, <1>7, <1>8 DEF Topic!TopicPreviewInv

LEMMA Fitted_Keeps ==
  ASSUME Topic!BoundsAssumption, Topic!TopicPreviewInv, NEW i \in Topic!Ids, Topic!Fitted(i)
  PROVE  Topic!TopicPreviewInv'
  <1> USE Numbers, Shapes
  <1>0. /\ Topic!TypeOK /\ Topic!Numbered /\ Topic!LockHeld /\ Topic!WaitsForOwn
             /\ Topic!ComputedFromShown
        /\ Topic!OnePreview /\ Topic!ShownIsOwn /\ Topic!AdjustChain
    BY DEF Topic!TopicPreviewInv
  <1>a. first[i] = Topic!Nil BY <1>0 DEF Topic!Fitted, Topic!Numbered
  <1>b. /\ UNCHANGED <<request, registered, cancelled, admission, releasing, Topic!tab,
             Topic!window, Topic!adjustment>>
        /\ work' = [work EXCEPT ![i] = "finished"] /\ work[i] = "fitting"
    BY DEF Topic!Fitted
  <1>c. \/ /\ revisions' = revisions + 1 /\ model' = [model EXCEPT ![i] = revisions + 1]
           /\ first' = [first EXCEPT ![i] = revisions + 1]
                /\ update' = [update EXCEPT ![i] = "ready"]
        \/ update' = [update EXCEPT ![i] = "failed"] /\ UNCHANGED <<model, first, revisions>>
    BY DEF Topic!Fitted
  <1>d. revisions \in Nat BY <1>0 DEF Topic!TypeOK
  <1>e. revisions' = Topic!Cardinality({n \in Topic!Ids : first'[n] # Topic!Nil})
         + Topic!Cardinality({j \in Topic!Adjustments : made'[j] # Topic!Nil})
    <2> DEFINE S == {n \in Topic!Ids : first[n] # Topic!Nil}
    T == {n \in Topic!Ids : first'[n] # Topic!Nil}
               M == {j \in Topic!Adjustments : made[j] # Topic!Nil}
    <2>0. M = {j \in Topic!Adjustments : made'[j] # Topic!Nil} BY <1>b DEF Topic!adjustment
    <2>1. MaxPreviews \in Nat /\ MaxAdjustments \in Nat BY DEF Topic!BoundsAssumption
    <2>2. S \in SUBSET (1..MaxPreviews) /\ T \in SUBSET (1..MaxPreviews) /\ i \in 1..MaxPreviews
          /\ M \in SUBSET (1..MaxAdjustments)
      BY DEF Topic!Ids, Topic!Adjustments
    <2>3. revisions = Topic!Cardinality(S) + Topic!Cardinality(M) BY <1>0 DEF Topic!Numbered
    <2>4. Topic!Cardinality(S) \in Nat /\ Topic!Cardinality(M) \in Nat BY <2>1, <2>2, CountSame
    <2>5. CASE UNCHANGED <<first, revisions>> BY <2>0, <2>3, <2>5
    <2>6. CASE revisions' = revisions + 1 /\ first' = [first EXCEPT ![i] = revisions + 1]
      <3>1. i \notin S BY <1>a
      <3>2. \A n \in 1..MaxPreviews : n \in T <=> n \in S \/ n = i
        <4> SUFFICES ASSUME NEW n \in Topic!Ids PROVE first'[n] # Topic!Nil
             <=> first[n] # Topic!Nil \/ n = i
          BY DEF Topic!Ids
        <4>1. first' = [first EXCEPT ![i] = revisions + 1]
             /\ first \in [Topic!Ids -> Topic!Revisions]
          BY <1>0, <2>6 DEF Topic!TypeOK
        <4> QED BY <1>d, <4>1 DEF Topic!Nil
      <3> HIDE DEF S, T, M
      <3>3. Topic!Cardinality(T) = Topic!Cardinality(S) + 1
        BY <2>1, <2>2, <3>1, <3>2, CountMore
      <3> QED BY <2>0, <2>3, <2>4, <2>6, <3>3 DEF T
    <2> QED BY <1>c, <2>5, <2>6
  <1>f. revisions' \in Topic!Revisions
    BY <1>e, MostRevisions
  <1>1. Topic!TypeOK'
    <2>1. /\ request' \in [Topic!Ids -> {"none", "sent", "releasing", "open", "closed"}]
          /\ registered' \subseteq Topic!Ids /\ work' \in [Topic!Ids -> {"none", "fitting",
               "finished"}]
          /\ model' \in [Topic!Ids -> Topic!Revisions]
          /\ update' \in [Topic!Ids -> {"preparing", "ready", "failed"}]
          /\ first' \in [Topic!Ids -> Topic!Revisions] /\ revisions' \in Topic!Revisions
      <3>1. /\ request' \in [Topic!Ids -> {"none", "sent", "releasing", "open", "closed"}]
            /\ registered' \subseteq Topic!Ids /\ work' \in [Topic!Ids -> {"none", "fitting",
                 "finished"}]
            /\ update' \in [Topic!Ids -> {"preparing", "ready", "failed"}]
        BY <1>0, <1>b, <1>c DEF Topic!TypeOK
      <3>2. model' \in [Topic!Ids -> Topic!Revisions] /\ first' \in [Topic!Ids -> Topic!Revisions]
        <4>1. model \in [Topic!Ids -> Topic!Revisions] /\ first \in [Topic!Ids -> Topic!Revisions]
          BY <1>0 DEF Topic!TypeOK
        <4>2. CASE UNCHANGED <<model, first, revisions>> BY <4>1, <4>2
        <4>3. CASE /\ revisions' = revisions + 1 /\ model' = [model EXCEPT ![i] = revisions + 1]
                   /\ first' = [first EXCEPT ![i] = revisions + 1]
          <5>1. revisions + 1 \in Topic!Revisions BY <1>f, <4>3
          <5> QED BY <4>1, <4>3, <5>1
        <4> QED BY <1>c, <4>2, <4>3
      <3> QED BY <1>f, <3>1, <3>2
    <2>2. cancelled' \in [Topic!Ids -> BOOLEAN]
      BY <1>0, <1>a, <1>b, <1>c, <1>d, <1>f DEF Topic!TypeOK, Topic!tab, Topic!window,
           Topic!adjustment
    <2>3. admission' \in {Topic!Nil, Topic!RunLock}
         \cup {n \in Topic!Ids : request'[n] = "releasing"}
      BY <1>0, <1>a, <1>b, <1>c, <1>d, <1>f DEF Topic!TypeOK, Topic!LockHeld, Topic!tab,
           Topic!window, Topic!adjustment
    <2>4. /\ releasing' \subseteq Topic!Ids /\ (admission' = Topic!Nil => releasing' = {})
          /\ run' \in {"idle", "begun", "releasing", "fitting"}
      BY <1>0, <1>a, <1>b, <1>c, <1>d, <1>f DEF Topic!TypeOK, Topic!LockHeld, Topic!tab,
           Topic!window, Topic!adjustment
    <2>a. admission' = Topic!RunLock <=> run' = "releasing"
      BY <1>0, <1>a, <1>b, <1>c, <1>d, <1>f DEF Topic!TypeOK, Topic!LockHeld, Topic!tab,
           Topic!window, Topic!adjustment
    <2>b. runs' \in 0..MaxRuns
      BY <1>0, <1>a, <1>b, <1>c, <1>d, <1>f DEF Topic!TypeOK, Topic!BoundsAssumption, Topic!tab,
           Topic!window, Topic!adjustment
    <2>5. /\ current' \in Topic!Ids \cup {Topic!Nil} /\ aborted' \subseteq Topic!Ids
               /\ cancelling' \subseteq Topic!Ids
          /\ active' \in BOOLEAN
      BY <1>0, <1>a, <1>b, <1>c, <1>d, <1>f DEF Topic!TypeOK, Topic!tab, Topic!window,
           Topic!adjustment
    <2>6. deletion' = <<>> \/ deletion' \in {"sent", "waiting", "done", "expired"} \X Topic!Ids
      BY <1>0, <1>a, <1>b, <1>c, <1>d, <1>f DEF Topic!TypeOK, Topic!tab, Topic!window,
           Topic!adjustment
    <2>7. shown' \in {Topic!Blank, Topic!Waiting, Topic!Failed}
         \cup {Topic!Ready(r) : r \in Topic!Revisions}
      BY <1>0, <1>a, <1>b, <1>c, <1>d, <1>f DEF Topic!TypeOK, Topic!tab, Topic!window,
           Topic!adjustment
    <2>8. shown' # Topic!Blank <=> current' # Topic!Nil
      BY <1>0, <1>a, <1>b, <1>c, <1>d, <1>f DEF Topic!TypeOK, Topic!tab, Topic!window,
           Topic!adjustment
    <2>9. /\ adjust' \in [Topic!Adjustments -> Topic!Phases]
          /\ latest' \in Topic!Adjustments \cup {Topic!Nil}
               /\ adjusting' \in [Topic!Ids -> Topic!Adjustments \cup {Topic!Nil}]
          /\ {expected', base', made'} \subseteq [Topic!Adjustments -> Topic!Revisions]
          /\ owner' \in [Topic!Adjustments -> Topic!Ids \cup {Topic!Nil}]
      BY <1>0, <1>a, <1>b, <1>c, <1>d, <1>f DEF Topic!TypeOK, Topic!Phases, Topic!tab,
           Topic!window, Topic!adjustment
    <2> QED BY <2>1, <2>2, <2>3, <2>4, <2>5, <2>6, <2>7, <2>8, <2>9, <2>a, <2>b
          DEF Topic!TypeOK
  <1>2. Topic!Numbered'
    <2>1. Topic!NextId' = Topic!NextId BY <1>b, IdsUnchanged
    <2>2. Topic!NextAdjustment' = Topic!NextAdjustment
      BY <1>b, AdjustmentsUnchanged DEF Topic!adjustment
    <2>3. /\ \A n \in Topic!Ids : request'[n] # "none" <=> n < Topic!NextId'
          /\ \A j \in Topic!Adjustments : adjust'[j] # "none" <=> j < Topic!NextAdjustment'
      BY <1>0, <1>b, <2>1, <2>2 DEF Topic!Numbered, Topic!adjustment
    <2>5. \A n \in Topic!Ids : /\ first'[n] <= revisions' /\ model'[n] <= revisions'
                               /\ update'[n] = "ready" => first'[n] # Topic!Nil
                               /\ first'[n] # Topic!Nil => work'[n] = "finished"
      <3> SUFFICES ASSUME NEW n \in Topic!Ids
                   PROVE  /\ first'[n] <= revisions' /\ model'[n] <= revisions'
                          /\ update'[n] = "ready" => first'[n] # Topic!Nil
                          /\ first'[n] # Topic!Nil => work'[n] = "finished"
        OBVIOUS
      <3>1. /\ first[n] \in Nat /\ model[n] \in Nat
            /\ first[n] <= revisions /\ model[n] <= revisions
            /\ update[n] = "ready" => first[n] # Topic!Nil
            /\ first[n] # Topic!Nil => work[n] = "finished"
        BY <1>0 DEF Topic!Numbered, Topic!TypeOK
      <3>2. /\ first \in [Topic!Ids -> Topic!Revisions] /\ model \in [Topic!Ids -> Topic!Revisions]
            /\ update \in [Topic!Ids -> {"preparing", "ready", "failed"}]
            /\ work \in [Topic!Ids -> {"none", "fitting", "finished"}]
        BY <1>0 DEF Topic!TypeOK
      <3>3. CASE n = i
        BY <1>a, <1>b, <1>c, <1>d, <3>1, <3>2, <3>3 DEF Topic!Nil
      <3>4. CASE n # i
        <4>1. /\ first'[n] = first[n] /\ model'[n] = model[n] /\ update'[n] = update[n]
                   /\ work'[n] = work[n]
          BY <1>b, <1>c, <3>2, <3>4
        <4>2. revisions' = revisions \/ revisions' = revisions + 1 BY <1>c
        <4> QED BY <1>d, <3>1, <4>1, <4>2
      <3> QED BY <3>3, <3>4
    <2>6. \A j \in Topic!Adjustments :
               /\ expected'[j] <= revisions' /\ made'[j] <= revisions'
               /\ adjust'[j] = "stored" => made'[j] # Topic!Nil
               /\ made'[j] # Topic!Nil => adjust'[j] \in {"stored", "answered"}
      <3> SUFFICES ASSUME NEW j \in Topic!Adjustments
                   PROVE  /\ expected'[j] <= revisions' /\ made'[j] <= revisions'
                          /\ adjust'[j] = "stored" => made'[j] # Topic!Nil
                          /\ made'[j] # Topic!Nil => adjust'[j] \in {"stored", "answered"}
        OBVIOUS
      <3>1. expected[j] \in Nat /\ made[j] \in Nat BY <1>0 DEF Topic!TypeOK
      <3>2. UNCHANGED <<expected, made, adjust>> BY <1>b DEF Topic!adjustment
      <3>3. revisions' = revisions \/ revisions' = revisions + 1 BY <1>c
      <3>4. expected[j] <= revisions /\ made[j] <= revisions BY <1>0 DEF Topic!Numbered
      <3>5. expected'[j] <= revisions' /\ made'[j] <= revisions' BY <1>d, <3>1, <3>2, <3>3, <3>4
      <3> QED BY <1>0, <3>2, <3>5 DEF Topic!Numbered
    <2> QED BY <1>e, <2>3, <2>5, <2>6 DEF Topic!Numbered
  <1>3. Topic!LockHeld'
    BY <1>0, <1>a, <1>b, <1>c, <1>d, <1>f DEF Topic!LockHeld, Topic!TypeOK, Topic!tab,
       Topic!window, Topic!adjustment
  <1>4. Topic!WaitsForOwn'
    <2>1. UNCHANGED <<latest, owner, current, shown>> BY <1>b DEF Topic!adjustment, Topic!window
    <2>2. latest' # Topic!Nil => owner'[latest'] = current' BY <1>0, <2>1 DEF Topic!WaitsForOwn
    <2>3. ASSUME shown'[1] = "ready"
          PROVE  shown'[2] \in 1..revisions' /\ first'[current'] # Topic!Nil
      <3>1. shown[2] \in 1..revisions /\ first[current] # Topic!Nil
        BY <1>0, <2>1, <2>3 DEF Topic!WaitsForOwn
      <3>2. current # i BY <1>a, <3>1
      <3>3. first'[current] = first[current] BY <1>0, <1>c, <2>1, <2>3, <3>2 DEF Topic!TypeOK
      <3>4. revisions' = revisions \/ revisions' = revisions + 1 BY <1>c
      <3> QED BY <1>d, <2>1, <3>1, <3>3, <3>4
    <2> QED BY <2>2, <2>3 DEF Topic!WaitsForOwn
  <1>5. Topic!ComputedFromShown'
    <2>1. UNCHANGED <<adjust, owner, base, expected>> BY <1>b DEF Topic!adjustment
    <2> SUFFICES ASSUME NEW j \in Topic!Adjustments
                 PROVE  /\ adjust'[j] # "none" => owner'[j] # Topic!Nil
                        /\ adjust'[j] = "computing" =>
                             model'[owner'[j]] \in {Topic!Nil,
                                  base'[j]} \/ model'[owner'[j]] > expected'[j]
      BY DEF Topic!ComputedFromShown
    <2>2. adjust'[j] # "none" => owner'[j] # Topic!Nil BY <1>0, <2>1 DEF Topic!ComputedFromShown
    <2>3. ASSUME adjust'[j] = "computing"
          PROVE  model'[owner'[j]] \in {Topic!Nil, base'[j]} \/ model'[owner'[j]] > expected'[j]
      <3>1. model[owner[j]] \in {Topic!Nil, base[j]} \/ model[owner[j]] > expected[j]
        BY <1>0, <2>1, <2>3 DEF Topic!ComputedFromShown
      <3>2. owner[j] \in Topic!Ids /\ expected[j] \in Nat /\ expected[j] <= revisions
        BY <1>0, <2>1, <2>2, <2>3, ZenonT(30) DEF Topic!TypeOK, Topic!Numbered
      <3>3. model'[owner[j]] = model[owner[j]] \/ model'[owner[j]] = revisions + 1
        BY <1>0, <1>c, <3>2, SMTT(20) DEF Topic!TypeOK
      <3> QED BY <1>d, <2>1, <3>1, <3>2, <3>3
    <2> QED BY <2>2, <2>3
  <1>6. Topic!OnePreview'
    <2>1. Topic!Cardinality({n \in registered' : ~cancelled'[n]}) <= 1
      BY <1>0, <1>a, <1>b, <1>c, <1>d, <1>f, OneKept DEF Topic!TypeOK, Topic!tab, Topic!window,
           Topic!adjustment
    <2>2. run' = "fitting" => \A n \in Topic!Ids : work'[n] = "fitting" => cancelled'[n]
      BY <1>0, <1>a, <1>b, <1>c, <1>d, <1>f DEF Topic!OnePreview, Topic!LockHeld, Topic!TypeOK,
           Topic!tab, Topic!window, Topic!adjustment
    <2> QED BY <2>1, <2>2 DEF Topic!OnePreview
  <1>7. Topic!ShownIsOwn'
    <2>1. UNCHANGED <<owner, made, current, shown>> BY <1>b DEF Topic!adjustment, Topic!window
    <2>2. ASSUME shown[1] = "ready" PROVE first'[current] = first[current]
      <3>1. first[current] # Topic!Nil BY <1>0, <2>2 DEF Topic!WaitsForOwn
      <3> QED BY <1>0, <1>a, <1>c, <2>2, <3>1 DEF Topic!TypeOK
    <2> QED BY <1>0, <2>1, <2>2 DEF Topic!ShownIsOwn
  <1>8. Topic!AdjustChain'
    BY <1>0, <1>a, <1>b, <1>c, <1>d, <1>f DEF Topic!AdjustChain, Topic!tab, Topic!window,
       Topic!adjustment
  <1> QED BY <1>1, <1>2, <1>3, <1>4, <1>5, <1>6, <1>7, <1>8 DEF Topic!TopicPreviewInv

LEMMA StreamEnds_Keeps ==
  ASSUME Topic!BoundsAssumption, Topic!TopicPreviewInv, NEW i \in Topic!Ids, Topic!StreamEnds(i)
  PROVE  Topic!TopicPreviewInv'
  <1> USE Numbers, Shapes
  <1>0. /\ Topic!TypeOK /\ Topic!Numbered /\ Topic!LockHeld /\ Topic!WaitsForOwn
             /\ Topic!ComputedFromShown
        /\ Topic!OnePreview /\ Topic!ShownIsOwn /\ Topic!AdjustChain
    BY DEF Topic!TopicPreviewInv
  <1>1. Topic!TypeOK'
    <2>1. /\ request' \in [Topic!Ids -> {"none", "sent", "releasing", "open", "closed"}]
          /\ registered' \subseteq Topic!Ids /\ work' \in [Topic!Ids -> {"none", "fitting",
               "finished"}]
          /\ model' \in [Topic!Ids -> Topic!Revisions]
          /\ update' \in [Topic!Ids -> {"preparing", "ready", "failed"}]
          /\ first' \in [Topic!Ids -> Topic!Revisions] /\ revisions' \in Topic!Revisions
      BY <1>0, Drops DEF Topic!TypeOK, Topic!StreamEnds, Topic!Dropped, Topic!preview, Topic!tab,
           Topic!window, Topic!adjustment
    <2>2. cancelled' \in [Topic!Ids -> BOOLEAN]
      BY <1>0, Drops DEF Topic!TypeOK, Topic!StreamEnds, Topic!Dropped, Topic!preview, Topic!tab,
           Topic!window, Topic!adjustment
    <2>3. admission' \in {Topic!Nil, Topic!RunLock}
         \cup {n \in Topic!Ids : request'[n] = "releasing"}
      BY <1>0 DEF Topic!TypeOK, Topic!LockHeld, Topic!StreamEnds, Topic!Dropped, Topic!preview,
           Topic!tab, Topic!window, Topic!adjustment
    <2>4. /\ releasing' \subseteq Topic!Ids /\ (admission' = Topic!Nil => releasing' = {})
          /\ run' \in {"idle", "begun", "releasing", "fitting"}
      BY <1>0 DEF Topic!TypeOK, Topic!LockHeld, Topic!StreamEnds, Topic!Dropped, Topic!preview,
           Topic!tab, Topic!window, Topic!adjustment
    <2>a. admission' = Topic!RunLock <=> run' = "releasing"
      BY <1>0 DEF Topic!TypeOK, Topic!LockHeld, Topic!StreamEnds, Topic!Dropped, Topic!preview,
           Topic!tab, Topic!window, Topic!adjustment
    <2>b. runs' \in 0..MaxRuns
      BY <1>0 DEF Topic!TypeOK, Topic!BoundsAssumption, Topic!StreamEnds, Topic!Dropped,
           Topic!preview, Topic!tab, Topic!window, Topic!adjustment
    <2>5. /\ current' \in Topic!Ids \cup {Topic!Nil} /\ aborted' \subseteq Topic!Ids
               /\ cancelling' \subseteq Topic!Ids
          /\ active' \in BOOLEAN
      BY <1>0 DEF Topic!TypeOK, Topic!StreamEnds, Topic!Dropped, Topic!preview, Topic!tab,
           Topic!window, Topic!adjustment
    <2>6. deletion' = <<>> \/ deletion' \in {"sent", "waiting", "done", "expired"} \X Topic!Ids
      BY <1>0 DEF Topic!TypeOK, Topic!StreamEnds, Topic!Dropped, Topic!preview, Topic!tab,
           Topic!window, Topic!adjustment
    <2>7. shown' \in {Topic!Blank, Topic!Waiting, Topic!Failed}
         \cup {Topic!Ready(r) : r \in Topic!Revisions}
      BY <1>0 DEF Topic!TypeOK, Topic!StreamEnds, Topic!Dropped, Topic!preview, Topic!tab,
           Topic!window, Topic!adjustment
    <2>8. shown' # Topic!Blank <=> current' # Topic!Nil
      BY <1>0 DEF Topic!TypeOK, Topic!StreamEnds, Topic!Dropped, Topic!preview, Topic!tab,
           Topic!window, Topic!adjustment
    <2>9. /\ adjust' \in [Topic!Adjustments -> Topic!Phases]
          /\ latest' \in Topic!Adjustments \cup {Topic!Nil}
               /\ adjusting' \in [Topic!Ids -> Topic!Adjustments \cup {Topic!Nil}]
          /\ {expected', base', made'} \subseteq [Topic!Adjustments -> Topic!Revisions]
          /\ owner' \in [Topic!Adjustments -> Topic!Ids \cup {Topic!Nil}]
      BY <1>0, Drops DEF Topic!TypeOK, Topic!Phases, Topic!StreamEnds, Topic!Dropped,
           Topic!preview, Topic!tab, Topic!window, Topic!adjustment
    <2> QED BY <2>1, <2>2, <2>3, <2>4, <2>5, <2>6, <2>7, <2>8, <2>9, <2>a, <2>b
          DEF Topic!TypeOK
  <1>2. Topic!Numbered'
    <2>1. \A n \in Topic!Ids : request'[n] # "none" <=> request[n] # "none"
      BY <1>0 DEF Topic!TypeOK, Topic!StreamEnds, Topic!Dropped
    <2>2. /\ UNCHANGED <<first, made, revisions, expected, adjust, update, work>>
          /\ \A n \in Topic!Ids : model'[n] = Topic!Nil \/ model'[n] = model[n]
      BY <1>0, Drops DEF Topic!StreamEnds, Topic!Dropped, Topic!adjustment
    <2> QED BY ONLY Topic!BoundsAssumption, <1>0, <2>1, <2>2, NumbersKept
  <1>3. Topic!LockHeld'
    <2>1. \A n \in Topic!Ids : request'[n] = "releasing" => admission' = n
      BY <1>0 DEF Topic!LockHeld, Topic!TypeOK, Topic!StreamEnds, Topic!Dropped, Topic!tab
    <2>2. admission' # Topic!Nil => \A n \in registered' : cancelled'[n]
      BY <1>0 DEF Topic!LockHeld, Topic!TypeOK, Topic!StreamEnds, Topic!Dropped, Topic!tab
    <2>3. run' = "fitting" => admission' = Topic!Nil
      BY <1>0 DEF Topic!LockHeld, Topic!TypeOK, Topic!StreamEnds, Topic!Dropped, Topic!tab
    <2>4. \A n \in Topic!Ids : work'[n] # "none" => request'[n] \in {"open", "closed"}
      BY <1>0 DEF Topic!LockHeld, Topic!TypeOK, Topic!StreamEnds, Topic!Dropped, Topic!tab
    <2>5. \A n \in Topic!Ids : work'[n] = "fitting" => n \in registered' \/ cancelled'[n]
      BY <1>0 DEF Topic!LockHeld, Topic!TypeOK, Topic!StreamEnds, Topic!Dropped, Topic!tab
    <2> QED BY <2>1, <2>2, <2>3, <2>4, <2>5 DEF Topic!LockHeld
  <1>4. Topic!WaitsForOwn'
    BY <1>0, Drops DEF Topic!WaitsForOwn, Topic!TypeOK, Topic!Numbered, Topic!StreamEnds,
       Topic!Dropped, Topic!preview, Topic!tab, Topic!window, Topic!adjustment
  <1>5. Topic!ComputedFromShown'
    <2>1. \A n \in Topic!Ids : model'[n] = Topic!Nil \/ model'[n] = model[n]
      BY <1>0, Drops DEF Topic!StreamEnds, Topic!Dropped
    <2>2. UNCHANGED <<owner, base, expected, adjust>> BY DEF Topic!StreamEnds, Topic!adjustment
    <2> QED BY ONLY <1>0, <2>1, <2>2, ComputedKept
  <1>6. Topic!OnePreview'
    <2>1. Topic!Cardinality({n \in registered' : ~cancelled'[n]}) <= 1
      BY <1>0, OneKept, Drops DEF Topic!TypeOK, Topic!StreamEnds, Topic!Dropped, Topic!preview,
           Topic!tab, Topic!window, Topic!adjustment
    <2>2. run' = "fitting" => \A n \in Topic!Ids : work'[n] = "fitting" => cancelled'[n]
      BY <1>0, Drops DEF Topic!OnePreview, Topic!LockHeld, Topic!TypeOK, Topic!StreamEnds,
           Topic!Dropped, Topic!preview, Topic!tab, Topic!window, Topic!adjustment
    <2> QED BY <2>1, <2>2 DEF Topic!OnePreview
  <1>7. Topic!ShownIsOwn'
    BY <1>0, SMTT(20) DEF Topic!ShownIsOwn, Topic!WaitsForOwn, Topic!Numbered, Topic!TypeOK,
       Topic!StreamEnds, Topic!Dropped, Topic!preview, Topic!tab, Topic!window, Topic!adjustment
  <1>8. Topic!AdjustChain'
    BY <1>0 DEF Topic!AdjustChain, Topic!StreamEnds, Topic!Dropped, Topic!preview, Topic!tab,
       Topic!window, Topic!adjustment
  <1> QED BY <1>1, <1>2, <1>3, <1>4, <1>5, <1>6, <1>7, <1>8 DEF Topic!TopicPreviewInv

LEMMA RequestEnds_Keeps ==
  ASSUME Topic!BoundsAssumption, Topic!TopicPreviewInv, NEW i \in Topic!Ids, Topic!RequestEnds(i)
  PROVE  Topic!TopicPreviewInv'
  <1> USE Numbers, Shapes
  <1>0. /\ Topic!TypeOK /\ Topic!Numbered /\ Topic!LockHeld /\ Topic!WaitsForOwn
             /\ Topic!ComputedFromShown
        /\ Topic!OnePreview /\ Topic!ShownIsOwn /\ Topic!AdjustChain
    BY DEF Topic!TopicPreviewInv
  <1>1. Topic!TypeOK'
    <2>1. /\ request' \in [Topic!Ids -> {"none", "sent", "releasing", "open", "closed"}]
          /\ registered' \subseteq Topic!Ids /\ work' \in [Topic!Ids -> {"none", "fitting",
               "finished"}]
          /\ model' \in [Topic!Ids -> Topic!Revisions]
          /\ update' \in [Topic!Ids -> {"preparing", "ready", "failed"}]
          /\ first' \in [Topic!Ids -> Topic!Revisions] /\ revisions' \in Topic!Revisions
      BY <1>0 DEF Topic!TypeOK, Topic!RequestEnds, Topic!preview, Topic!tab, Topic!window,
           Topic!adjustment
    <2>2. cancelled' \in [Topic!Ids -> BOOLEAN]
      BY <1>0 DEF Topic!TypeOK, Topic!RequestEnds, Topic!preview, Topic!tab, Topic!window,
           Topic!adjustment
    <2>3. admission' \in {Topic!Nil, Topic!RunLock}
         \cup {n \in Topic!Ids : request'[n] = "releasing"}
      BY <1>0 DEF Topic!TypeOK, Topic!LockHeld, Topic!RequestEnds, Topic!preview, Topic!tab,
           Topic!window, Topic!adjustment
    <2>4. /\ releasing' \subseteq Topic!Ids /\ (admission' = Topic!Nil => releasing' = {})
          /\ run' \in {"idle", "begun", "releasing", "fitting"}
      BY <1>0 DEF Topic!TypeOK, Topic!LockHeld, Topic!RequestEnds, Topic!preview, Topic!tab,
           Topic!window, Topic!adjustment
    <2>a. admission' = Topic!RunLock <=> run' = "releasing"
      BY <1>0 DEF Topic!TypeOK, Topic!LockHeld, Topic!RequestEnds, Topic!preview, Topic!tab,
           Topic!window, Topic!adjustment
    <2>b. runs' \in 0..MaxRuns
      BY <1>0 DEF Topic!TypeOK, Topic!BoundsAssumption, Topic!RequestEnds, Topic!preview,
           Topic!tab, Topic!window, Topic!adjustment
    <2>5. /\ current' \in Topic!Ids \cup {Topic!Nil} /\ aborted' \subseteq Topic!Ids
               /\ cancelling' \subseteq Topic!Ids
          /\ active' \in BOOLEAN
      BY <1>0 DEF Topic!TypeOK, Topic!RequestEnds, Topic!preview, Topic!tab, Topic!window,
           Topic!adjustment
    <2>6. deletion' = <<>> \/ deletion' \in {"sent", "waiting", "done", "expired"} \X Topic!Ids
      BY <1>0 DEF Topic!TypeOK, Topic!RequestEnds, Topic!preview, Topic!tab, Topic!window,
           Topic!adjustment
    <2>7. shown' \in {Topic!Blank, Topic!Waiting, Topic!Failed}
         \cup {Topic!Ready(r) : r \in Topic!Revisions}
      BY <1>0 DEF Topic!TypeOK, Topic!RequestEnds, Topic!preview, Topic!tab, Topic!window,
           Topic!adjustment
    <2>8. shown' # Topic!Blank <=> current' # Topic!Nil
      BY <1>0 DEF Topic!TypeOK, Topic!RequestEnds, Topic!preview, Topic!tab, Topic!window,
           Topic!adjustment
    <2>9. /\ adjust' \in [Topic!Adjustments -> Topic!Phases]
          /\ latest' \in Topic!Adjustments \cup {Topic!Nil}
               /\ adjusting' \in [Topic!Ids -> Topic!Adjustments \cup {Topic!Nil}]
          /\ {expected', base', made'} \subseteq [Topic!Adjustments -> Topic!Revisions]
          /\ owner' \in [Topic!Adjustments -> Topic!Ids \cup {Topic!Nil}]
      BY <1>0 DEF Topic!TypeOK, Topic!Phases, Topic!RequestEnds, Topic!preview, Topic!tab,
           Topic!window, Topic!adjustment
    <2> QED BY <2>1, <2>2, <2>3, <2>4, <2>5, <2>6, <2>7, <2>8, <2>9, <2>a, <2>b
          DEF Topic!TypeOK
  <1>2. Topic!Numbered'
    BY <1>0, NumbersKept DEF Topic!TypeOK, Topic!RequestEnds, Topic!preview, Topic!tab,
       Topic!window, Topic!adjustment
  <1>3. Topic!LockHeld'
    <2>1. /\ UNCHANGED <<registered, cancelled, work, run>>
          /\ \A n \in Topic!Ids : request'[n] = IF n = i THEN "closed" ELSE request[n]
          /\ request[i] \in {"sent", "releasing"}
          /\ admission' = IF admission = i THEN Topic!Nil ELSE admission
      BY <1>0 DEF Topic!TypeOK, Topic!RequestEnds, Topic!tab
    <2>2. \A n \in Topic!Ids : request'[n] = "releasing" => admission' = n BY <1>0, <2>1 DEF Topic!LockHeld
    <2>3. /\ admission' # Topic!Nil => \A n \in registered' : cancelled'[n]
          /\ run' = "fitting" => admission' = Topic!Nil
      BY <1>0, <2>1 DEF Topic!LockHeld
    <2>4. \A n \in Topic!Ids : work'[n] # "none" => request'[n] \in {"open", "closed"}
      BY <1>0, <2>1 DEF Topic!LockHeld
    <2>5. \A n \in Topic!Ids : work'[n] = "fitting" => n \in registered' \/ cancelled'[n]
      BY <1>0, <2>1 DEF Topic!LockHeld
    <2> QED BY <2>2, <2>3, <2>4, <2>5 DEF Topic!LockHeld
  <1>4. Topic!WaitsForOwn'
    BY <1>0 DEF Topic!WaitsForOwn, Topic!TypeOK, Topic!Numbered, Topic!RequestEnds, Topic!preview,
       Topic!tab, Topic!window, Topic!adjustment
  <1>5. Topic!ComputedFromShown'
    BY <1>0, ComputedKept DEF Topic!TypeOK, Topic!RequestEnds, Topic!preview, Topic!tab,
       Topic!window, Topic!adjustment
  <1>6. Topic!OnePreview'
    <2>1. Topic!Cardinality({n \in registered' : ~cancelled'[n]}) <= 1
      BY <1>0, OneKept DEF Topic!TypeOK, Topic!RequestEnds, Topic!preview, Topic!tab, Topic!window,
           Topic!adjustment
    <2>2. run' = "fitting" => \A n \in Topic!Ids : work'[n] = "fitting" => cancelled'[n]
      BY <1>0 DEF Topic!OnePreview, Topic!LockHeld, Topic!TypeOK, Topic!RequestEnds, Topic!preview,
           Topic!tab, Topic!window, Topic!adjustment
    <2> QED BY <2>1, <2>2 DEF Topic!OnePreview
  <1>7. Topic!ShownIsOwn'
    BY <1>0 DEF Topic!ShownIsOwn, Topic!WaitsForOwn, Topic!Numbered, Topic!TypeOK,
       Topic!RequestEnds, Topic!preview, Topic!tab, Topic!window, Topic!adjustment
  <1>8. Topic!AdjustChain'
    BY <1>0 DEF Topic!AdjustChain, Topic!RequestEnds, Topic!preview, Topic!tab, Topic!window,
       Topic!adjustment
  <1> QED BY <1>1, <1>2, <1>3, <1>4, <1>5, <1>6, <1>7, <1>8 DEF Topic!TopicPreviewInv

LEMMA Receive_Keeps ==
  ASSUME Topic!BoundsAssumption, Topic!TopicPreviewInv, NEW i \in Topic!Ids, Topic!Receive(i)
  PROVE  Topic!TopicPreviewInv'
  <1> USE Numbers, Shapes
  <1>0. /\ Topic!TypeOK /\ Topic!Numbered /\ Topic!LockHeld /\ Topic!WaitsForOwn
             /\ Topic!ComputedFromShown
        /\ Topic!OnePreview /\ Topic!ShownIsOwn /\ Topic!AdjustChain
    BY DEF Topic!TopicPreviewInv
  <1>1. Topic!TypeOK'
    BY <1>0 DEF Topic!TypeOK, Topic!LockHeld, Topic!Receive, Topic!preview, Topic!tab,
       Topic!window, Topic!adjustment
  <1>2. Topic!Numbered'
    BY <1>0, NumbersKept DEF Topic!TypeOK, Topic!Receive, Topic!preview, Topic!tab, Topic!window,
       Topic!adjustment
  <1>3. Topic!LockHeld'
    BY <1>0 DEF Topic!LockHeld, Topic!TypeOK, Topic!Receive, Topic!preview, Topic!tab,
       Topic!window, Topic!adjustment
  <1>4. Topic!WaitsForOwn'
    <2>1. /\ UNCHANGED <<latest, owner, current, first, revisions>> /\ current = i
          /\ shown' = Topic!Ready(first[i]) /\ update[i] = "ready"
      BY DEF Topic!Receive, Topic!preview, Topic!adjustment
    <2>2. first[i] # Topic!Nil /\ first[i] <= revisions /\ first[i] \in Nat /\ revisions \in Nat
      BY <1>0, <2>1 DEF Topic!Numbered, Topic!TypeOK
    <2> QED BY <1>0, <2>1, <2>2 DEF Topic!WaitsForOwn, Topic!Nil
  <1>5. Topic!ComputedFromShown'
    BY <1>0, ComputedKept DEF Topic!TypeOK, Topic!Receive, Topic!preview, Topic!tab, Topic!window,
       Topic!adjustment
  <1>6. Topic!OnePreview'
    <2>1. Topic!Cardinality({n \in registered' : ~cancelled'[n]}) <= 1
      BY <1>0, OneKept DEF Topic!TypeOK, Topic!Receive, Topic!preview, Topic!tab, Topic!window,
           Topic!adjustment
    <2>2. run' = "fitting" => \A n \in Topic!Ids : work'[n] = "fitting" => cancelled'[n]
      BY <1>0 DEF Topic!OnePreview, Topic!LockHeld, Topic!TypeOK, Topic!Receive, Topic!preview,
           Topic!tab, Topic!window, Topic!adjustment
    <2> QED BY <2>1, <2>2 DEF Topic!OnePreview
  <1>7. Topic!ShownIsOwn'
    BY <1>0 DEF Topic!ShownIsOwn, Topic!WaitsForOwn, Topic!Numbered, Topic!TypeOK, Topic!Receive,
       Topic!preview, Topic!tab, Topic!window, Topic!adjustment
  <1>8. Topic!AdjustChain'
    BY <1>0 DEF Topic!AdjustChain, Topic!Receive, Topic!preview, Topic!tab, Topic!window,
       Topic!adjustment
  <1> QED BY <1>1, <1>2, <1>3, <1>4, <1>5, <1>6, <1>7, <1>8 DEF Topic!TopicPreviewInv

LEMMA submit_Keeps ==
  ASSUME Topic!BoundsAssumption, Topic!TopicPreviewInv, Topic!submit
  PROVE  Topic!TopicPreviewInv'
  <1> USE Numbers, Shapes
  <1>0. /\ Topic!TypeOK /\ Topic!Numbered /\ Topic!LockHeld /\ Topic!WaitsForOwn
             /\ Topic!ComputedFromShown
        /\ Topic!OnePreview /\ Topic!ShownIsOwn /\ Topic!AdjustChain
    BY DEF Topic!TopicPreviewInv
  <1>a. Topic!NextId \in Topic!Ids /\ request[Topic!NextId] = "none"
       /\ \A n \in Topic!Ids : request[n] # "none" <=> n < Topic!NextId
    BY <1>0 DEF Topic!submit, Topic!Numbered
  <1>b. /\ request' = [request EXCEPT ![Topic!NextId] = "sent"]
             /\ UNCHANGED <<Topic!preview, Topic!tab>>
        /\ UNCHANGED <<adjust, expected, owner, base, made, adjusting, replaced>>
    BY DEF Topic!submit
  <1>1. Topic!TypeOK'
    <2>1. /\ request' \in [Topic!Ids -> {"none", "sent", "releasing", "open", "closed"}]
          /\ registered' \subseteq Topic!Ids /\ work' \in [Topic!Ids -> {"none", "fitting",
               "finished"}]
          /\ model' \in [Topic!Ids -> Topic!Revisions]
          /\ update' \in [Topic!Ids -> {"preparing", "ready", "failed"}]
          /\ first' \in [Topic!Ids -> Topic!Revisions] /\ revisions' \in Topic!Revisions
      BY <1>0 DEF Topic!TypeOK, Topic!submit, Topic!Disconnect, Topic!preview, Topic!tab,
           Topic!window, Topic!adjustment
    <2>2. cancelled' \in [Topic!Ids -> BOOLEAN]
      BY <1>0 DEF Topic!TypeOK, Topic!submit, Topic!Disconnect, Topic!preview, Topic!tab,
           Topic!window, Topic!adjustment
    <2>3. admission' \in {Topic!Nil, Topic!RunLock}
         \cup {n \in Topic!Ids : request'[n] = "releasing"}
      <3>1. admission' = admission BY <1>b DEF Topic!preview
      <3>2. admission \in Topic!Ids => admission # Topic!NextId /\ request[admission] = "releasing"
        BY <1>0, <1>a DEF Topic!TypeOK
      <3> QED BY <1>0, <1>a, <1>b, <3>1, <3>2 DEF Topic!TypeOK
    <2>4. /\ releasing' \subseteq Topic!Ids /\ (admission' = Topic!Nil => releasing' = {})
          /\ run' \in {"idle", "begun", "releasing", "fitting"}
      BY <1>0 DEF Topic!TypeOK, Topic!LockHeld, Topic!submit, Topic!Disconnect, Topic!preview,
           Topic!tab, Topic!window, Topic!adjustment
    <2>a. admission' = Topic!RunLock <=> run' = "releasing"
      BY <1>0 DEF Topic!TypeOK, Topic!LockHeld, Topic!submit, Topic!Disconnect, Topic!preview,
           Topic!tab, Topic!window, Topic!adjustment
    <2>b. runs' \in 0..MaxRuns
      BY <1>0 DEF Topic!TypeOK, Topic!BoundsAssumption, Topic!submit, Topic!Disconnect,
           Topic!preview, Topic!tab, Topic!window, Topic!adjustment
    <2>5. /\ current' \in Topic!Ids \cup {Topic!Nil} /\ aborted' \subseteq Topic!Ids
               /\ cancelling' \subseteq Topic!Ids
          /\ active' \in BOOLEAN
      BY <1>0 DEF Topic!TypeOK, Topic!submit, Topic!Disconnect, Topic!preview, Topic!tab,
           Topic!window, Topic!adjustment
    <2>6. deletion' = <<>> \/ deletion' \in {"sent", "waiting", "done", "expired"} \X Topic!Ids
      BY <1>0 DEF Topic!TypeOK, Topic!submit, Topic!Disconnect, Topic!preview, Topic!tab,
           Topic!window, Topic!adjustment
    <2>7. shown' \in {Topic!Blank, Topic!Waiting, Topic!Failed}
         \cup {Topic!Ready(r) : r \in Topic!Revisions}
      BY <1>0 DEF Topic!TypeOK, Topic!submit, Topic!Disconnect, Topic!preview, Topic!tab,
           Topic!window, Topic!adjustment
    <2>8. shown' # Topic!Blank <=> current' # Topic!Nil
      BY <1>0 DEF Topic!TypeOK, Topic!submit, Topic!Disconnect, Topic!preview, Topic!tab,
           Topic!window, Topic!adjustment
    <2>9. /\ adjust' \in [Topic!Adjustments -> Topic!Phases]
          /\ latest' \in Topic!Adjustments \cup {Topic!Nil}
               /\ adjusting' \in [Topic!Ids -> Topic!Adjustments \cup {Topic!Nil}]
          /\ {expected', base', made'} \subseteq [Topic!Adjustments -> Topic!Revisions]
          /\ owner' \in [Topic!Adjustments -> Topic!Ids \cup {Topic!Nil}]
      BY <1>0 DEF Topic!TypeOK, Topic!Phases, Topic!submit, Topic!Disconnect, Topic!preview,
           Topic!tab, Topic!window, Topic!adjustment
    <2> QED BY <2>1, <2>2, <2>3, <2>4, <2>5, <2>6, <2>7, <2>8, <2>9, <2>a, <2>b
          DEF Topic!TypeOK
  <1>2. Topic!Numbered'
    <2>1. Topic!NextId' = Topic!NextId + 1
      <3> DEFINE S == {n \in Topic!Ids : request[n] # "none"}
      T == {n \in Topic!Ids : request'[n] # "none"}
      <3>1. MaxPreviews \in Nat /\ Topic!NextId \in 1..MaxPreviews
        BY <1>a DEF Topic!BoundsAssumption, Topic!Ids
      <3>2. S \in SUBSET (1..MaxPreviews) /\ T \in SUBSET (1..MaxPreviews) BY DEF Topic!Ids
      <3>3. \A n \in 1..MaxPreviews : n \in T <=> n \in S \/ n = Topic!NextId
        BY <1>0, <1>a, <1>b DEF Topic!TypeOK, Topic!Ids
      <3>4. Topic!NextId \notin S BY <1>a
      <3>5. Topic!NextId = 1 + Topic!Cardinality(S) /\ Topic!NextId' = 1 + Topic!Cardinality(T)
        BY DEF Topic!NextId
      <3> HIDE DEF S, T
      <3>6. Topic!Cardinality(T) = Topic!Cardinality(S) + 1 BY <3>1, <3>2, <3>3, <3>4, CountMore
      <3>7. Topic!Cardinality(S) \in Nat BY <3>1, <3>2, CountSame
      <3> QED BY <3>5, <3>6, <3>7
    <2>2. Topic!NextAdjustment' = Topic!NextAdjustment BY <1>b, AdjustmentsUnchanged
    <2>3. /\ \A n \in Topic!Ids : request'[n] # "none" <=> n < Topic!NextId'
          /\ \A j \in Topic!Adjustments : adjust'[j] # "none" <=> j < Topic!NextAdjustment'
      <3>1. \A n \in Topic!Ids : request'[n] # "none" <=> request[n] # "none" \/ n = Topic!NextId
        BY <1>0, <1>a, <1>b DEF Topic!TypeOK
      <3>2. \A n \in Topic!Ids : n < Topic!NextId' <=> n < Topic!NextId \/ n = Topic!NextId BY <2>1
      <3> QED BY <1>0, <1>a, <1>b, <2>2, <3>1, <3>2 DEF Topic!Numbered
    <2> QED BY <1>0, <1>b, <2>3 DEF Topic!Numbered, Topic!preview
  <1>3. Topic!LockHeld'
    <2>1. \A n \in Topic!Ids : request'[n] = "releasing" => admission' = n
      BY <1>0, <1>a, <1>b DEF Topic!LockHeld, Topic!TypeOK, Topic!preview, Topic!tab
    <2>2. admission' # Topic!Nil => \A n \in registered' : cancelled'[n]
      BY <1>0, <1>a, <1>b DEF Topic!LockHeld, Topic!TypeOK, Topic!preview, Topic!tab
    <2>3. run' = "fitting" => admission' = Topic!Nil
      BY <1>0, <1>a, <1>b DEF Topic!LockHeld, Topic!TypeOK, Topic!preview, Topic!tab
    <2>4. \A n \in Topic!Ids : work'[n] # "none" => request'[n] \in {"open", "closed"}
      BY <1>0, <1>a, <1>b, SMTT(20) DEF Topic!LockHeld, Topic!TypeOK, Topic!preview, Topic!tab
    <2>5. \A n \in Topic!Ids : work'[n] = "fitting" => n \in registered' \/ cancelled'[n]
      BY <1>0, <1>a, <1>b DEF Topic!LockHeld, Topic!TypeOK, Topic!preview, Topic!tab
    <2> QED BY <2>1, <2>2, <2>3, <2>4, <2>5 DEF Topic!LockHeld
  <1>4. Topic!WaitsForOwn'
    BY <1>0 DEF Topic!WaitsForOwn, Topic!TypeOK, Topic!Numbered, Topic!submit, Topic!Disconnect,
       Topic!preview, Topic!tab, Topic!window, Topic!adjustment
  <1>5. Topic!ComputedFromShown'
    BY <1>0, ComputedKept DEF Topic!TypeOK, Topic!submit, Topic!Disconnect, Topic!preview,
       Topic!tab, Topic!window, Topic!adjustment
  <1>6. Topic!OnePreview'
    <2>1. Topic!Cardinality({n \in registered' : ~cancelled'[n]}) <= 1
      BY <1>0, OneKept DEF Topic!TypeOK, Topic!submit, Topic!Disconnect, Topic!preview, Topic!tab,
           Topic!window, Topic!adjustment
    <2>2. run' = "fitting" => \A n \in Topic!Ids : work'[n] = "fitting" => cancelled'[n]
      BY <1>0 DEF Topic!OnePreview, Topic!LockHeld, Topic!TypeOK, Topic!submit, Topic!Disconnect,
           Topic!preview, Topic!tab, Topic!window, Topic!adjustment
    <2> QED BY <2>1, <2>2 DEF Topic!OnePreview
  <1>7. Topic!ShownIsOwn'
    BY <1>0 DEF Topic!ShownIsOwn, Topic!WaitsForOwn, Topic!Numbered, Topic!TypeOK, Topic!submit,
       Topic!Disconnect, Topic!preview, Topic!tab, Topic!window, Topic!adjustment
  <1>8. Topic!AdjustChain'
    BY <1>0 DEF Topic!AdjustChain, Topic!submit, Topic!Disconnect, Topic!preview, Topic!tab,
       Topic!window, Topic!adjustment
  <1> QED BY <1>1, <1>2, <1>3, <1>4, <1>5, <1>6, <1>7, <1>8 DEF Topic!TopicPreviewInv

LEMMA clear_Keeps ==
  ASSUME Topic!BoundsAssumption, Topic!TopicPreviewInv, Topic!clear
  PROVE  Topic!TopicPreviewInv'
  <1> USE Numbers, Shapes
  <1>0. /\ Topic!TypeOK /\ Topic!Numbered /\ Topic!LockHeld /\ Topic!WaitsForOwn
             /\ Topic!ComputedFromShown
        /\ Topic!OnePreview /\ Topic!ShownIsOwn /\ Topic!AdjustChain
    BY DEF Topic!TopicPreviewInv
  <1>1. Topic!TypeOK'
    BY <1>0, SMTT(20) DEF Topic!TypeOK, Topic!LockHeld, Topic!clear, Topic!Disconnect, Topic!preview,
       Topic!tab, Topic!window, Topic!adjustment
  <1>2. Topic!Numbered'
    BY <1>0, NumbersKept DEF Topic!TypeOK, Topic!clear, Topic!Disconnect, Topic!preview, Topic!tab,
       Topic!window, Topic!adjustment
  <1>3. Topic!LockHeld'
    BY <1>0 DEF Topic!LockHeld, Topic!TypeOK, Topic!clear, Topic!Disconnect, Topic!preview,
       Topic!tab, Topic!window, Topic!adjustment
  <1>4. Topic!WaitsForOwn'
    BY <1>0 DEF Topic!WaitsForOwn, Topic!TypeOK, Topic!Numbered, Topic!clear, Topic!Disconnect,
       Topic!preview, Topic!tab, Topic!window, Topic!adjustment
  <1>5. Topic!ComputedFromShown'
    BY <1>0, ComputedKept DEF Topic!TypeOK, Topic!clear, Topic!Disconnect, Topic!preview,
       Topic!tab, Topic!window, Topic!adjustment
  <1>6. Topic!OnePreview'
    <2>1. Topic!Cardinality({n \in registered' : ~cancelled'[n]}) <= 1
      BY <1>0, OneKept DEF Topic!TypeOK, Topic!clear, Topic!Disconnect, Topic!preview, Topic!tab,
           Topic!window, Topic!adjustment
    <2>2. run' = "fitting" => \A n \in Topic!Ids : work'[n] = "fitting" => cancelled'[n]
      BY <1>0 DEF Topic!OnePreview, Topic!LockHeld, Topic!TypeOK, Topic!clear, Topic!Disconnect,
           Topic!preview, Topic!tab, Topic!window, Topic!adjustment
    <2> QED BY <2>1, <2>2 DEF Topic!OnePreview
  <1>7. Topic!ShownIsOwn'
    BY <1>0 DEF Topic!ShownIsOwn, Topic!WaitsForOwn, Topic!Numbered, Topic!TypeOK, Topic!clear,
       Topic!Disconnect, Topic!preview, Topic!tab, Topic!window, Topic!adjustment
  <1>8. Topic!AdjustChain'
    BY <1>0 DEF Topic!AdjustChain, Topic!clear, Topic!Disconnect, Topic!preview, Topic!tab,
       Topic!window, Topic!adjustment
  <1> QED BY <1>1, <1>2, <1>3, <1>4, <1>5, <1>6, <1>7, <1>8 DEF Topic!TopicPreviewInv

LEMMA Navigate_Keeps ==
  ASSUME Topic!BoundsAssumption, Topic!TopicPreviewInv, Topic!Navigate
  PROVE  Topic!TopicPreviewInv'
  <1> USE Numbers, Shapes
  <1>0. /\ Topic!TypeOK /\ Topic!Numbered /\ Topic!LockHeld /\ Topic!WaitsForOwn
             /\ Topic!ComputedFromShown
        /\ Topic!OnePreview /\ Topic!ShownIsOwn /\ Topic!AdjustChain
    BY DEF Topic!TopicPreviewInv
  <1>1. Topic!TypeOK'
    <2>1. /\ request' \in [Topic!Ids -> {"none", "sent", "releasing", "open", "closed"}]
          /\ registered' \subseteq Topic!Ids /\ work' \in [Topic!Ids -> {"none", "fitting",
               "finished"}]
          /\ model' \in [Topic!Ids -> Topic!Revisions]
          /\ update' \in [Topic!Ids -> {"preparing", "ready", "failed"}]
          /\ first' \in [Topic!Ids -> Topic!Revisions] /\ revisions' \in Topic!Revisions
      BY <1>0 DEF Topic!TypeOK, Topic!Navigate, Topic!Disconnect, Topic!preview, Topic!tab,
           Topic!window, Topic!adjustment
    <2>2. cancelled' \in [Topic!Ids -> BOOLEAN]
      BY <1>0 DEF Topic!TypeOK, Topic!Navigate, Topic!Disconnect, Topic!preview, Topic!tab,
           Topic!window, Topic!adjustment
    <2>3. admission' \in {Topic!Nil, Topic!RunLock}
         \cup {n \in Topic!Ids : request'[n] = "releasing"}
      BY <1>0 DEF Topic!TypeOK, Topic!LockHeld, Topic!Navigate, Topic!Disconnect, Topic!preview,
           Topic!tab, Topic!window, Topic!adjustment
    <2>4. /\ releasing' \subseteq Topic!Ids /\ (admission' = Topic!Nil => releasing' = {})
          /\ run' \in {"idle", "begun", "releasing", "fitting"}
      BY <1>0 DEF Topic!TypeOK, Topic!LockHeld, Topic!Navigate, Topic!Disconnect, Topic!preview,
           Topic!tab, Topic!window, Topic!adjustment
    <2>a. admission' = Topic!RunLock <=> run' = "releasing"
      BY <1>0 DEF Topic!TypeOK, Topic!LockHeld, Topic!Navigate, Topic!Disconnect, Topic!preview,
           Topic!tab, Topic!window, Topic!adjustment
    <2>b. runs' \in 0..MaxRuns
      BY <1>0 DEF Topic!TypeOK, Topic!BoundsAssumption, Topic!Navigate, Topic!Disconnect,
           Topic!preview, Topic!tab, Topic!window, Topic!adjustment
    <2>5. /\ current' \in Topic!Ids \cup {Topic!Nil} /\ aborted' \subseteq Topic!Ids
               /\ cancelling' \subseteq Topic!Ids
          /\ active' \in BOOLEAN
      BY <1>0, SMTT(20) DEF Topic!TypeOK, Topic!Navigate, Topic!Disconnect, Topic!preview, Topic!tab,
           Topic!window, Topic!adjustment
    <2>6. deletion' = <<>> \/ deletion' \in {"sent", "waiting", "done", "expired"} \X Topic!Ids
      BY <1>0 DEF Topic!TypeOK, Topic!Navigate, Topic!Disconnect, Topic!preview, Topic!tab,
           Topic!window, Topic!adjustment
    <2>7. shown' \in {Topic!Blank, Topic!Waiting, Topic!Failed}
         \cup {Topic!Ready(r) : r \in Topic!Revisions}
      BY <1>0 DEF Topic!TypeOK, Topic!Navigate, Topic!Disconnect, Topic!preview, Topic!tab,
           Topic!window, Topic!adjustment
    <2>8. shown' # Topic!Blank <=> current' # Topic!Nil
      BY <1>0 DEF Topic!TypeOK, Topic!Navigate, Topic!Disconnect, Topic!preview, Topic!tab,
           Topic!window, Topic!adjustment
    <2>9. /\ adjust' \in [Topic!Adjustments -> Topic!Phases]
          /\ latest' \in Topic!Adjustments \cup {Topic!Nil}
               /\ adjusting' \in [Topic!Ids -> Topic!Adjustments \cup {Topic!Nil}]
          /\ {expected', base', made'} \subseteq [Topic!Adjustments -> Topic!Revisions]
          /\ owner' \in [Topic!Adjustments -> Topic!Ids \cup {Topic!Nil}]
      BY <1>0 DEF Topic!TypeOK, Topic!Phases, Topic!Navigate, Topic!Disconnect, Topic!preview,
           Topic!tab, Topic!window, Topic!adjustment
    <2> QED BY <2>1, <2>2, <2>3, <2>4, <2>5, <2>6, <2>7, <2>8, <2>9, <2>a, <2>b
          DEF Topic!TypeOK
  <1>2. Topic!Numbered'
    BY <1>0, NumbersKept DEF Topic!TypeOK, Topic!Navigate, Topic!Disconnect, Topic!preview,
       Topic!tab, Topic!window, Topic!adjustment
  <1>3. Topic!LockHeld'
    BY <1>0 DEF Topic!LockHeld, Topic!TypeOK, Topic!Navigate, Topic!Disconnect, Topic!preview,
       Topic!tab, Topic!window, Topic!adjustment
  <1>4. Topic!WaitsForOwn'
    BY <1>0 DEF Topic!WaitsForOwn, Topic!TypeOK, Topic!Numbered, Topic!Navigate, Topic!Disconnect,
       Topic!preview, Topic!tab, Topic!window, Topic!adjustment
  <1>5. Topic!ComputedFromShown'
    BY <1>0, ComputedKept DEF Topic!TypeOK, Topic!Navigate, Topic!Disconnect, Topic!preview,
       Topic!tab, Topic!window, Topic!adjustment
  <1>6. Topic!OnePreview'
    <2>1. Topic!Cardinality({n \in registered' : ~cancelled'[n]}) <= 1
      BY <1>0, OneKept DEF Topic!TypeOK, Topic!Navigate, Topic!Disconnect, Topic!preview,
           Topic!tab, Topic!window, Topic!adjustment
    <2>2. run' = "fitting" => \A n \in Topic!Ids : work'[n] = "fitting" => cancelled'[n]
      BY <1>0 DEF Topic!OnePreview, Topic!LockHeld, Topic!TypeOK, Topic!Navigate, Topic!Disconnect,
           Topic!preview, Topic!tab, Topic!window, Topic!adjustment
    <2> QED BY <2>1, <2>2 DEF Topic!OnePreview
  <1>7. Topic!ShownIsOwn'
    BY <1>0 DEF Topic!ShownIsOwn, Topic!WaitsForOwn, Topic!Numbered, Topic!TypeOK, Topic!Navigate,
       Topic!Disconnect, Topic!preview, Topic!tab, Topic!window, Topic!adjustment
  <1>8. Topic!AdjustChain'
    BY <1>0 DEF Topic!AdjustChain, Topic!Navigate, Topic!Disconnect, Topic!preview, Topic!tab,
       Topic!window, Topic!adjustment
  <1> QED BY <1>1, <1>2, <1>3, <1>4, <1>5, <1>6, <1>7, <1>8 DEF Topic!TopicPreviewInv

LEMMA cancel_Keeps ==
  ASSUME Topic!BoundsAssumption, Topic!TopicPreviewInv, Topic!cancel
  PROVE  Topic!TopicPreviewInv'
  <1> USE Numbers, Shapes
  <1>0. /\ Topic!TypeOK /\ Topic!Numbered /\ Topic!LockHeld /\ Topic!WaitsForOwn
             /\ Topic!ComputedFromShown
        /\ Topic!OnePreview /\ Topic!ShownIsOwn /\ Topic!AdjustChain
    BY DEF Topic!TopicPreviewInv
  <1>1. Topic!TypeOK'
    BY <1>0 DEF Topic!TypeOK, Topic!LockHeld, Topic!cancel, Topic!Disconnect, Topic!preview,
       Topic!tab, Topic!window, Topic!adjustment
  <1>2. Topic!Numbered'
    BY <1>0, NumbersKept DEF Topic!TypeOK, Topic!cancel, Topic!Disconnect, Topic!preview,
       Topic!tab, Topic!window, Topic!adjustment
  <1>3. Topic!LockHeld'
    BY <1>0 DEF Topic!LockHeld, Topic!TypeOK, Topic!cancel, Topic!Disconnect, Topic!preview,
       Topic!tab, Topic!window, Topic!adjustment
  <1>4. Topic!WaitsForOwn'
    BY <1>0 DEF Topic!WaitsForOwn, Topic!TypeOK, Topic!Numbered, Topic!cancel, Topic!Disconnect,
       Topic!preview, Topic!tab, Topic!window, Topic!adjustment
  <1>5. Topic!ComputedFromShown'
    BY <1>0, ComputedKept DEF Topic!TypeOK, Topic!cancel, Topic!Disconnect, Topic!preview,
       Topic!tab, Topic!window, Topic!adjustment
  <1>6. Topic!OnePreview'
    <2>1. Topic!Cardinality({n \in registered' : ~cancelled'[n]}) <= 1
      BY <1>0, OneKept DEF Topic!TypeOK, Topic!cancel, Topic!Disconnect, Topic!preview, Topic!tab,
           Topic!window, Topic!adjustment
    <2>2. run' = "fitting" => \A n \in Topic!Ids : work'[n] = "fitting" => cancelled'[n]
      BY <1>0 DEF Topic!OnePreview, Topic!LockHeld, Topic!TypeOK, Topic!cancel, Topic!Disconnect,
           Topic!preview, Topic!tab, Topic!window, Topic!adjustment
    <2> QED BY <2>1, <2>2 DEF Topic!OnePreview
  <1>7. Topic!ShownIsOwn'
    BY <1>0 DEF Topic!ShownIsOwn, Topic!WaitsForOwn, Topic!Numbered, Topic!TypeOK, Topic!cancel,
       Topic!Disconnect, Topic!preview, Topic!tab, Topic!window, Topic!adjustment
  <1>8. Topic!AdjustChain'
    BY <1>0 DEF Topic!AdjustChain, Topic!cancel, Topic!Disconnect, Topic!preview, Topic!tab,
       Topic!window, Topic!adjustment
  <1> QED BY <1>1, <1>2, <1>3, <1>4, <1>5, <1>6, <1>7, <1>8 DEF Topic!TopicPreviewInv

LEMMA delete_topic_preview_Keeps ==
  ASSUME Topic!BoundsAssumption, Topic!TopicPreviewInv, Topic!delete_topic_preview
  PROVE  Topic!TopicPreviewInv'
  <1> USE Numbers, Shapes
  <1>0. /\ Topic!TypeOK /\ Topic!Numbered /\ Topic!LockHeld /\ Topic!WaitsForOwn
             /\ Topic!ComputedFromShown
        /\ Topic!OnePreview /\ Topic!ShownIsOwn /\ Topic!AdjustChain
    BY DEF Topic!TopicPreviewInv
  <1>a. /\ UNCHANGED <<request, registered, work, model, update, first, revisions, admission,
             releasing, Topic!tab,
                       current, aborted, cancelling, shown, active, Topic!adjustment>>
        /\ \A n \in Topic!Ids : cancelled[n] => cancelled'[n]
    BY <1>0, ZenonT(30) DEF Topic!delete_topic_preview, Topic!TypeOK
  <1>1. Topic!TypeOK'
    <2>1. /\ request' \in [Topic!Ids -> {"none", "sent", "releasing", "open", "closed"}]
          /\ registered' \subseteq Topic!Ids /\ work' \in [Topic!Ids -> {"none", "fitting",
               "finished"}]
          /\ model' \in [Topic!Ids -> Topic!Revisions]
          /\ update' \in [Topic!Ids -> {"preparing", "ready", "failed"}]
          /\ first' \in [Topic!Ids -> Topic!Revisions] /\ revisions' \in Topic!Revisions
      BY <1>0 DEF Topic!TypeOK, Topic!delete_topic_preview, Topic!preview, Topic!tab, Topic!window,
           Topic!adjustment
    <2>2. cancelled' \in [Topic!Ids -> BOOLEAN]
      BY <1>0 DEF Topic!TypeOK, Topic!delete_topic_preview, Topic!preview, Topic!tab, Topic!window,
           Topic!adjustment
    <2>3. admission' \in {Topic!Nil, Topic!RunLock}
         \cup {n \in Topic!Ids : request'[n] = "releasing"}
      BY <1>0 DEF Topic!TypeOK, Topic!LockHeld, Topic!delete_topic_preview, Topic!preview,
           Topic!tab, Topic!window, Topic!adjustment
    <2>4. /\ releasing' \subseteq Topic!Ids /\ (admission' = Topic!Nil => releasing' = {})
          /\ run' \in {"idle", "begun", "releasing", "fitting"}
      BY <1>0 DEF Topic!TypeOK, Topic!LockHeld, Topic!delete_topic_preview, Topic!preview,
           Topic!tab, Topic!window, Topic!adjustment
    <2>a. admission' = Topic!RunLock <=> run' = "releasing"
      BY <1>0 DEF Topic!TypeOK, Topic!LockHeld, Topic!delete_topic_preview, Topic!preview,
           Topic!tab, Topic!window, Topic!adjustment
    <2>b. runs' \in 0..MaxRuns
      BY <1>0 DEF Topic!TypeOK, Topic!BoundsAssumption, Topic!delete_topic_preview, Topic!preview,
           Topic!tab, Topic!window, Topic!adjustment
    <2>5. /\ current' \in Topic!Ids \cup {Topic!Nil} /\ aborted' \subseteq Topic!Ids
               /\ cancelling' \subseteq Topic!Ids
          /\ active' \in BOOLEAN
      BY <1>0 DEF Topic!TypeOK, Topic!delete_topic_preview, Topic!preview, Topic!tab, Topic!window,
           Topic!adjustment
    <2>6. deletion' = <<>> \/ deletion' \in {"sent", "waiting", "done", "expired"} \X Topic!Ids
      BY <1>0, SMTT(20) DEF Topic!TypeOK, Topic!delete_topic_preview, Topic!preview, Topic!tab, Topic!window,
           Topic!adjustment
    <2>7. shown' \in {Topic!Blank, Topic!Waiting, Topic!Failed}
         \cup {Topic!Ready(r) : r \in Topic!Revisions}
      BY <1>0 DEF Topic!TypeOK, Topic!delete_topic_preview, Topic!preview, Topic!tab, Topic!window,
           Topic!adjustment
    <2>8. shown' # Topic!Blank <=> current' # Topic!Nil
      BY <1>0 DEF Topic!TypeOK, Topic!delete_topic_preview, Topic!preview, Topic!tab, Topic!window,
           Topic!adjustment
    <2>9. /\ adjust' \in [Topic!Adjustments -> Topic!Phases]
          /\ latest' \in Topic!Adjustments \cup {Topic!Nil}
               /\ adjusting' \in [Topic!Ids -> Topic!Adjustments \cup {Topic!Nil}]
          /\ {expected', base', made'} \subseteq [Topic!Adjustments -> Topic!Revisions]
          /\ owner' \in [Topic!Adjustments -> Topic!Ids \cup {Topic!Nil}]
      BY <1>0 DEF Topic!TypeOK, Topic!Phases, Topic!delete_topic_preview, Topic!preview, Topic!tab,
           Topic!window, Topic!adjustment
    <2> QED BY <2>1, <2>2, <2>3, <2>4, <2>5, <2>6, <2>7, <2>8, <2>9, <2>a, <2>b
          DEF Topic!TypeOK
  <1>2. Topic!Numbered'
    BY <1>0, NumbersKept DEF Topic!TypeOK, Topic!delete_topic_preview, Topic!preview, Topic!tab,
       Topic!window, Topic!adjustment
  <1>3. Topic!LockHeld'
    <2>1. \A n \in Topic!Ids : request'[n] = "releasing" => admission' = n
      BY <1>0, <1>a DEF Topic!LockHeld, Topic!TypeOK, Topic!tab
    <2>2. admission' # Topic!Nil => \A n \in registered' : cancelled'[n]
      BY <1>0, <1>a DEF Topic!LockHeld, Topic!TypeOK, Topic!tab
    <2>3. run' = "fitting" => admission' = Topic!Nil
      BY <1>0, <1>a DEF Topic!LockHeld, Topic!TypeOK, Topic!tab
    <2>4. \A n \in Topic!Ids : work'[n] # "none" => request'[n] \in {"open", "closed"}
      BY <1>0, <1>a DEF Topic!LockHeld, Topic!TypeOK, Topic!tab
    <2>5. \A n \in Topic!Ids : work'[n] = "fitting" => n \in registered' \/ cancelled'[n]
      BY <1>0, <1>a DEF Topic!LockHeld, Topic!TypeOK, Topic!tab
    <2> QED BY <2>1, <2>2, <2>3, <2>4, <2>5 DEF Topic!LockHeld
  <1>4. Topic!WaitsForOwn'
    BY <1>0 DEF Topic!WaitsForOwn, Topic!TypeOK, Topic!Numbered, Topic!delete_topic_preview,
       Topic!preview, Topic!tab, Topic!window, Topic!adjustment
  <1>5. Topic!ComputedFromShown'
    BY <1>0, ComputedKept DEF Topic!TypeOK, Topic!delete_topic_preview, Topic!preview, Topic!tab,
       Topic!window, Topic!adjustment
  <1>6. Topic!OnePreview'
    <2>1. Topic!Cardinality({n \in registered' : ~cancelled'[n]}) <= 1
      BY <1>0, <1>a, OneKept
    <2>2. run' = "fitting" => \A n \in Topic!Ids : work'[n] = "fitting" => cancelled'[n]
      BY <1>0, <1>a DEF Topic!OnePreview, Topic!tab
    <2> QED BY <2>1, <2>2 DEF Topic!OnePreview
  <1>7. Topic!ShownIsOwn'
    BY <1>0 DEF Topic!ShownIsOwn, Topic!WaitsForOwn, Topic!Numbered, Topic!TypeOK,
       Topic!delete_topic_preview, Topic!preview, Topic!tab, Topic!window, Topic!adjustment
  <1>8. Topic!AdjustChain'
    BY <1>0 DEF Topic!AdjustChain, Topic!delete_topic_preview, Topic!preview, Topic!tab,
       Topic!window, Topic!adjustment
  <1> QED BY <1>1, <1>2, <1>3, <1>4, <1>5, <1>6, <1>7, <1>8 DEF Topic!TopicPreviewInv

LEMMA Deleted_Keeps ==
  ASSUME Topic!BoundsAssumption, Topic!TopicPreviewInv, Topic!Deleted
  PROVE  Topic!TopicPreviewInv'
  <1> USE Numbers, Shapes
  <1>0. /\ Topic!TypeOK /\ Topic!Numbered /\ Topic!LockHeld /\ Topic!WaitsForOwn
             /\ Topic!ComputedFromShown
        /\ Topic!OnePreview /\ Topic!ShownIsOwn /\ Topic!AdjustChain
    BY DEF Topic!TopicPreviewInv
  <1>1. Topic!TypeOK'
    <2>1. /\ request' \in [Topic!Ids -> {"none", "sent", "releasing", "open", "closed"}]
          /\ registered' \subseteq Topic!Ids /\ work' \in [Topic!Ids -> {"none", "fitting",
               "finished"}]
          /\ model' \in [Topic!Ids -> Topic!Revisions]
          /\ update' \in [Topic!Ids -> {"preparing", "ready", "failed"}]
          /\ first' \in [Topic!Ids -> Topic!Revisions] /\ revisions' \in Topic!Revisions
      BY <1>0, Drops DEF Topic!TypeOK, Topic!Deleted, Topic!preview, Topic!tab, Topic!window,
           Topic!adjustment
    <2>2. cancelled' \in [Topic!Ids -> BOOLEAN]
      BY <1>0, Drops DEF Topic!TypeOK, Topic!Deleted, Topic!preview, Topic!tab, Topic!window,
           Topic!adjustment
    <2>3. admission' \in {Topic!Nil, Topic!RunLock}
         \cup {n \in Topic!Ids : request'[n] = "releasing"}
      BY <1>0 DEF Topic!TypeOK, Topic!LockHeld, Topic!Deleted, Topic!preview, Topic!tab,
           Topic!window, Topic!adjustment
    <2>4. /\ releasing' \subseteq Topic!Ids /\ (admission' = Topic!Nil => releasing' = {})
          /\ run' \in {"idle", "begun", "releasing", "fitting"}
      BY <1>0 DEF Topic!TypeOK, Topic!LockHeld, Topic!Deleted, Topic!preview, Topic!tab,
           Topic!window, Topic!adjustment
    <2>a. admission' = Topic!RunLock <=> run' = "releasing"
      BY <1>0 DEF Topic!TypeOK, Topic!LockHeld, Topic!Deleted, Topic!preview, Topic!tab,
           Topic!window, Topic!adjustment
    <2>b. runs' \in 0..MaxRuns
      BY <1>0 DEF Topic!TypeOK, Topic!BoundsAssumption, Topic!Deleted, Topic!preview, Topic!tab,
           Topic!window, Topic!adjustment
    <2>5. /\ current' \in Topic!Ids \cup {Topic!Nil} /\ aborted' \subseteq Topic!Ids
               /\ cancelling' \subseteq Topic!Ids
          /\ active' \in BOOLEAN
      BY <1>0 DEF Topic!TypeOK, Topic!Deleted, Topic!preview, Topic!tab, Topic!window,
           Topic!adjustment
    <2>6. deletion' = <<>> \/ deletion' \in {"sent", "waiting", "done", "expired"} \X Topic!Ids
      BY <1>0 DEF Topic!TypeOK, Topic!Deleted, Topic!preview, Topic!tab, Topic!window,
           Topic!adjustment
    <2>7. shown' \in {Topic!Blank, Topic!Waiting, Topic!Failed}
         \cup {Topic!Ready(r) : r \in Topic!Revisions}
      BY <1>0 DEF Topic!TypeOK, Topic!Deleted, Topic!preview, Topic!tab, Topic!window,
           Topic!adjustment
    <2>8. shown' # Topic!Blank <=> current' # Topic!Nil
      BY <1>0 DEF Topic!TypeOK, Topic!Deleted, Topic!preview, Topic!tab, Topic!window,
           Topic!adjustment
    <2>9. /\ adjust' \in [Topic!Adjustments -> Topic!Phases]
          /\ latest' \in Topic!Adjustments \cup {Topic!Nil}
               /\ adjusting' \in [Topic!Ids -> Topic!Adjustments \cup {Topic!Nil}]
          /\ {expected', base', made'} \subseteq [Topic!Adjustments -> Topic!Revisions]
          /\ owner' \in [Topic!Adjustments -> Topic!Ids \cup {Topic!Nil}]
      BY <1>0, Drops DEF Topic!TypeOK, Topic!Phases, Topic!Deleted, Topic!preview, Topic!tab,
           Topic!window, Topic!adjustment
    <2> QED BY <2>1, <2>2, <2>3, <2>4, <2>5, <2>6, <2>7, <2>8, <2>9, <2>a, <2>b
          DEF Topic!TypeOK
  <1>2. Topic!Numbered'
    <2>1. \A n \in Topic!Ids : request'[n] # "none" <=> request[n] # "none"
      BY <1>0 DEF Topic!TypeOK, Topic!Deleted
    <2>2. /\ UNCHANGED <<first, made, revisions, expected, adjust, update, work>>
          /\ \A n \in Topic!Ids : model'[n] = Topic!Nil \/ model'[n] = model[n]
      BY <1>0, Drops DEF Topic!Deleted, Topic!adjustment
    <2> QED BY ONLY Topic!BoundsAssumption, <1>0, <2>1, <2>2, NumbersKept
  <1>3. Topic!LockHeld'
    BY <1>0, Drops DEF Topic!LockHeld, Topic!TypeOK, Topic!Deleted, Topic!preview, Topic!tab,
       Topic!window, Topic!adjustment
  <1>4. Topic!WaitsForOwn'
    BY <1>0, Drops DEF Topic!WaitsForOwn, Topic!TypeOK, Topic!Numbered, Topic!Deleted,
       Topic!preview, Topic!tab, Topic!window, Topic!adjustment
  <1>5. Topic!ComputedFromShown'
    <2>1. \A n \in Topic!Ids : model'[n] = Topic!Nil \/ model'[n] = model[n]
      BY <1>0, Drops DEF Topic!Deleted
    <2>2. UNCHANGED <<owner, base, expected, adjust>> BY DEF Topic!Deleted, Topic!adjustment
    <2> QED BY ONLY <1>0, <2>1, <2>2, ComputedKept
  <1>6. Topic!OnePreview'
    <2>1. Topic!Cardinality({n \in registered' : ~cancelled'[n]}) <= 1
      BY <1>0, OneKept, Drops DEF Topic!TypeOK, Topic!Deleted, Topic!preview, Topic!tab,
           Topic!window, Topic!adjustment
    <2>2. run' = "fitting" => \A n \in Topic!Ids : work'[n] = "fitting" => cancelled'[n]
      BY <1>0, Drops DEF Topic!OnePreview, Topic!LockHeld, Topic!TypeOK, Topic!Deleted,
           Topic!preview, Topic!tab, Topic!window, Topic!adjustment
    <2> QED BY <2>1, <2>2 DEF Topic!OnePreview
  <1>7. Topic!ShownIsOwn'
    BY <1>0 DEF Topic!ShownIsOwn, Topic!WaitsForOwn, Topic!Numbered, Topic!TypeOK, Topic!Deleted,
       Topic!preview, Topic!tab, Topic!window, Topic!adjustment
  <1>8. Topic!AdjustChain'
    BY <1>0 DEF Topic!AdjustChain, Topic!Deleted, Topic!preview, Topic!tab, Topic!window,
       Topic!adjustment
  <1> QED BY <1>1, <1>2, <1>3, <1>4, <1>5, <1>6, <1>7, <1>8 DEF Topic!TopicPreviewInv

LEMMA DeleteAnswered_Keeps ==
  ASSUME Topic!BoundsAssumption, Topic!TopicPreviewInv, Topic!DeleteAnswered
  PROVE  Topic!TopicPreviewInv'
  <1> USE Numbers, Shapes
  <1>0. /\ Topic!TypeOK /\ Topic!Numbered /\ Topic!LockHeld /\ Topic!WaitsForOwn
             /\ Topic!ComputedFromShown
        /\ Topic!OnePreview /\ Topic!ShownIsOwn /\ Topic!AdjustChain
    BY DEF Topic!TopicPreviewInv
  <1>1. Topic!TypeOK'
    <2>1. /\ request' \in [Topic!Ids -> {"none", "sent", "releasing", "open", "closed"}]
          /\ registered' \subseteq Topic!Ids /\ work' \in [Topic!Ids -> {"none", "fitting",
               "finished"}]
          /\ model' \in [Topic!Ids -> Topic!Revisions]
          /\ update' \in [Topic!Ids -> {"preparing", "ready", "failed"}]
          /\ first' \in [Topic!Ids -> Topic!Revisions] /\ revisions' \in Topic!Revisions
      BY <1>0 DEF Topic!TypeOK, Topic!DeleteAnswered, Topic!Disconnect, Topic!preview, Topic!tab,
           Topic!window, Topic!adjustment
    <2>2. cancelled' \in [Topic!Ids -> BOOLEAN]
      BY <1>0 DEF Topic!TypeOK, Topic!DeleteAnswered, Topic!Disconnect, Topic!preview, Topic!tab,
           Topic!window, Topic!adjustment
    <2>3. admission' \in {Topic!Nil, Topic!RunLock}
         \cup {n \in Topic!Ids : request'[n] = "releasing"}
      BY <1>0 DEF Topic!TypeOK, Topic!LockHeld, Topic!DeleteAnswered, Topic!Disconnect,
           Topic!preview, Topic!tab, Topic!window, Topic!adjustment
    <2>4. /\ releasing' \subseteq Topic!Ids /\ (admission' = Topic!Nil => releasing' = {})
          /\ run' \in {"idle", "begun", "releasing", "fitting"}
      BY <1>0 DEF Topic!TypeOK, Topic!LockHeld, Topic!DeleteAnswered, Topic!Disconnect,
           Topic!preview, Topic!tab, Topic!window, Topic!adjustment
    <2>a. admission' = Topic!RunLock <=> run' = "releasing"
      BY <1>0 DEF Topic!TypeOK, Topic!LockHeld, Topic!DeleteAnswered, Topic!Disconnect,
           Topic!preview, Topic!tab, Topic!window, Topic!adjustment
    <2>b. runs' \in 0..MaxRuns
      BY <1>0 DEF Topic!TypeOK, Topic!BoundsAssumption, Topic!DeleteAnswered, Topic!Disconnect,
           Topic!preview, Topic!tab, Topic!window, Topic!adjustment
    <2>5. /\ current' \in Topic!Ids \cup {Topic!Nil} /\ aborted' \subseteq Topic!Ids
               /\ cancelling' \subseteq Topic!Ids
          /\ active' \in BOOLEAN
      BY <1>0, SMTT(20) DEF Topic!TypeOK, Topic!DeleteAnswered, Topic!Disconnect, Topic!preview, Topic!tab,
           Topic!window, Topic!adjustment
    <2>6. deletion' = <<>> \/ deletion' \in {"sent", "waiting", "done", "expired"} \X Topic!Ids
      BY <1>0 DEF Topic!TypeOK, Topic!DeleteAnswered, Topic!Disconnect, Topic!preview, Topic!tab,
           Topic!window, Topic!adjustment
    <2>7. shown' \in {Topic!Blank, Topic!Waiting, Topic!Failed}
         \cup {Topic!Ready(r) : r \in Topic!Revisions}
      BY <1>0 DEF Topic!TypeOK, Topic!DeleteAnswered, Topic!Disconnect, Topic!preview, Topic!tab,
           Topic!window, Topic!adjustment
    <2>8. shown' # Topic!Blank <=> current' # Topic!Nil
      BY <1>0 DEF Topic!TypeOK, Topic!DeleteAnswered, Topic!Disconnect, Topic!preview, Topic!tab,
           Topic!window, Topic!adjustment
    <2>9. /\ adjust' \in [Topic!Adjustments -> Topic!Phases]
          /\ latest' \in Topic!Adjustments \cup {Topic!Nil}
               /\ adjusting' \in [Topic!Ids -> Topic!Adjustments \cup {Topic!Nil}]
          /\ {expected', base', made'} \subseteq [Topic!Adjustments -> Topic!Revisions]
          /\ owner' \in [Topic!Adjustments -> Topic!Ids \cup {Topic!Nil}]
      BY <1>0 DEF Topic!TypeOK, Topic!Phases, Topic!DeleteAnswered, Topic!Disconnect,
           Topic!preview, Topic!tab, Topic!window, Topic!adjustment
    <2> QED BY <2>1, <2>2, <2>3, <2>4, <2>5, <2>6, <2>7, <2>8, <2>9, <2>a, <2>b
          DEF Topic!TypeOK
  <1>2. Topic!Numbered'
    BY <1>0, NumbersKept DEF Topic!TypeOK, Topic!DeleteAnswered, Topic!Disconnect, Topic!preview,
       Topic!tab, Topic!window, Topic!adjustment
  <1>3. Topic!LockHeld'
    BY <1>0 DEF Topic!LockHeld, Topic!TypeOK, Topic!DeleteAnswered, Topic!Disconnect,
       Topic!preview, Topic!tab, Topic!window, Topic!adjustment
  <1>4. Topic!WaitsForOwn'
    BY <1>0 DEF Topic!WaitsForOwn, Topic!TypeOK, Topic!Numbered, Topic!DeleteAnswered,
       Topic!Disconnect, Topic!preview, Topic!tab, Topic!window, Topic!adjustment
  <1>5. Topic!ComputedFromShown'
    BY <1>0, ComputedKept DEF Topic!TypeOK, Topic!DeleteAnswered, Topic!Disconnect, Topic!preview,
       Topic!tab, Topic!window, Topic!adjustment
  <1>6. Topic!OnePreview'
    <2>1. Topic!Cardinality({n \in registered' : ~cancelled'[n]}) <= 1
      BY <1>0, OneKept DEF Topic!TypeOK, Topic!DeleteAnswered, Topic!Disconnect, Topic!preview,
           Topic!tab, Topic!window, Topic!adjustment
    <2>2. run' = "fitting" => \A n \in Topic!Ids : work'[n] = "fitting" => cancelled'[n]
      BY <1>0 DEF Topic!OnePreview, Topic!LockHeld, Topic!TypeOK, Topic!DeleteAnswered,
           Topic!Disconnect, Topic!preview, Topic!tab, Topic!window, Topic!adjustment
    <2> QED BY <2>1, <2>2 DEF Topic!OnePreview
  <1>7. Topic!ShownIsOwn'
    BY <1>0 DEF Topic!ShownIsOwn, Topic!WaitsForOwn, Topic!Numbered, Topic!TypeOK,
       Topic!DeleteAnswered, Topic!Disconnect, Topic!preview, Topic!tab, Topic!window,
       Topic!adjustment
  <1>8. Topic!AdjustChain'
    BY <1>0 DEF Topic!AdjustChain, Topic!DeleteAnswered, Topic!Disconnect, Topic!preview,
       Topic!tab, Topic!window, Topic!adjustment
  <1> QED BY <1>1, <1>2, <1>3, <1>4, <1>5, <1>6, <1>7, <1>8 DEF Topic!TopicPreviewInv

LEMMA submit_topic_model_Keeps ==
  ASSUME Topic!BoundsAssumption, Topic!TopicPreviewInv, NEW here \in BOOLEAN,
       Topic!submit_topic_model(here)
  PROVE  Topic!TopicPreviewInv'
  <1> USE Numbers, Shapes
  <1>0. /\ Topic!TypeOK /\ Topic!Numbered /\ Topic!LockHeld /\ Topic!WaitsForOwn
             /\ Topic!ComputedFromShown
        /\ Topic!OnePreview /\ Topic!ShownIsOwn /\ Topic!AdjustChain
    BY DEF Topic!TopicPreviewInv
  <1>1. Topic!TypeOK'
    <2>1. /\ request' \in [Topic!Ids -> {"none", "sent", "releasing", "open", "closed"}]
          /\ registered' \subseteq Topic!Ids /\ work' \in [Topic!Ids -> {"none", "fitting",
               "finished"}]
          /\ model' \in [Topic!Ids -> Topic!Revisions]
          /\ update' \in [Topic!Ids -> {"preparing", "ready", "failed"}]
          /\ first' \in [Topic!Ids -> Topic!Revisions] /\ revisions' \in Topic!Revisions
      BY <1>0 DEF Topic!TypeOK, Topic!submit_topic_model, Topic!Disconnect, Topic!preview,
           Topic!tab, Topic!window, Topic!adjustment
    <2>2. cancelled' \in [Topic!Ids -> BOOLEAN]
      BY <1>0 DEF Topic!TypeOK, Topic!submit_topic_model, Topic!Disconnect, Topic!preview,
           Topic!tab, Topic!window, Topic!adjustment
    <2>3. admission' \in {Topic!Nil, Topic!RunLock}
         \cup {n \in Topic!Ids : request'[n] = "releasing"}
      BY <1>0 DEF Topic!TypeOK, Topic!LockHeld, Topic!submit_topic_model, Topic!Disconnect,
           Topic!preview, Topic!tab, Topic!window, Topic!adjustment
    <2>4. /\ releasing' \subseteq Topic!Ids /\ (admission' = Topic!Nil => releasing' = {})
          /\ run' \in {"idle", "begun", "releasing", "fitting"}
      BY <1>0 DEF Topic!TypeOK, Topic!LockHeld, Topic!submit_topic_model, Topic!Disconnect,
           Topic!preview, Topic!tab, Topic!window, Topic!adjustment
    <2>a. admission' = Topic!RunLock <=> run' = "releasing"
      BY <1>0 DEF Topic!TypeOK, Topic!LockHeld, Topic!submit_topic_model, Topic!Disconnect,
           Topic!preview, Topic!tab, Topic!window, Topic!adjustment
    <2>b. runs' \in 0..MaxRuns
      <3>1. runs \in 0..MaxRuns /\ runs < MaxRuns /\ runs' = runs + 1 /\ MaxRuns \in Nat
        BY <1>0 DEF Topic!TypeOK, Topic!BoundsAssumption, Topic!submit_topic_model
      <3> QED BY <3>1
    <2>5. /\ current' \in Topic!Ids \cup {Topic!Nil} /\ aborted' \subseteq Topic!Ids
               /\ cancelling' \subseteq Topic!Ids
          /\ active' \in BOOLEAN
      <3>1. current' \in {Topic!Nil, current} /\ aborted' \subseteq aborted
           \cup ({current} \ {Topic!Nil})
        BY DEF Topic!submit_topic_model, Topic!Disconnect
      <3>2. UNCHANGED <<cancelling, active>> BY DEF Topic!submit_topic_model
      <3> QED BY <1>0, <3>1, <3>2 DEF Topic!TypeOK
    <2>6. deletion' = <<>> \/ deletion' \in {"sent", "waiting", "done", "expired"} \X Topic!Ids
      BY <1>0 DEF Topic!TypeOK, Topic!submit_topic_model, Topic!Disconnect, Topic!preview,
           Topic!tab, Topic!window, Topic!adjustment
    <2>7. shown' \in {Topic!Blank, Topic!Waiting, Topic!Failed}
         \cup {Topic!Ready(r) : r \in Topic!Revisions}
      BY <1>0 DEF Topic!TypeOK, Topic!submit_topic_model, Topic!Disconnect, Topic!preview,
           Topic!tab, Topic!window, Topic!adjustment
    <2>8. shown' # Topic!Blank <=> current' # Topic!Nil
      BY <1>0 DEF Topic!TypeOK, Topic!submit_topic_model, Topic!Disconnect, Topic!preview,
           Topic!tab, Topic!window, Topic!adjustment
    <2>9. /\ adjust' \in [Topic!Adjustments -> Topic!Phases]
          /\ latest' \in Topic!Adjustments \cup {Topic!Nil}
               /\ adjusting' \in [Topic!Ids -> Topic!Adjustments \cup {Topic!Nil}]
          /\ {expected', base', made'} \subseteq [Topic!Adjustments -> Topic!Revisions]
          /\ owner' \in [Topic!Adjustments -> Topic!Ids \cup {Topic!Nil}]
      BY <1>0 DEF Topic!TypeOK, Topic!Phases, Topic!submit_topic_model, Topic!Disconnect,
           Topic!preview, Topic!tab, Topic!window, Topic!adjustment
    <2> QED BY <2>1, <2>2, <2>3, <2>4, <2>5, <2>6, <2>7, <2>8, <2>9, <2>a, <2>b
          DEF Topic!TypeOK
  <1>2. Topic!Numbered'
    BY <1>0, NumbersKept DEF Topic!TypeOK, Topic!submit_topic_model, Topic!Disconnect,
       Topic!preview, Topic!tab, Topic!window, Topic!adjustment
  <1>3. Topic!LockHeld'
    BY <1>0 DEF Topic!LockHeld, Topic!TypeOK, Topic!submit_topic_model, Topic!Disconnect,
       Topic!preview, Topic!tab, Topic!window, Topic!adjustment
  <1>4. Topic!WaitsForOwn'
    BY <1>0 DEF Topic!WaitsForOwn, Topic!TypeOK, Topic!Numbered, Topic!submit_topic_model,
       Topic!Disconnect, Topic!preview, Topic!tab, Topic!window, Topic!adjustment
  <1>5. Topic!ComputedFromShown'
    BY <1>0, ComputedKept DEF Topic!TypeOK, Topic!submit_topic_model, Topic!Disconnect,
       Topic!preview, Topic!tab, Topic!window, Topic!adjustment
  <1>6. Topic!OnePreview'
    <2>1. Topic!Cardinality({n \in registered' : ~cancelled'[n]}) <= 1
      BY <1>0, OneKept DEF Topic!TypeOK, Topic!submit_topic_model, Topic!Disconnect, Topic!preview,
           Topic!tab, Topic!window, Topic!adjustment
    <2>2. run' = "fitting" => \A n \in Topic!Ids : work'[n] = "fitting" => cancelled'[n]
      BY <1>0 DEF Topic!OnePreview, Topic!LockHeld, Topic!TypeOK, Topic!submit_topic_model,
           Topic!Disconnect, Topic!preview, Topic!tab, Topic!window, Topic!adjustment
    <2> QED BY <2>1, <2>2 DEF Topic!OnePreview
  <1>7. Topic!ShownIsOwn'
    BY <1>0, SMTT(20) DEF Topic!ShownIsOwn, Topic!WaitsForOwn, Topic!Numbered, Topic!TypeOK,
       Topic!submit_topic_model, Topic!Disconnect, Topic!preview, Topic!tab, Topic!window,
       Topic!adjustment
  <1>8. Topic!AdjustChain'
    BY <1>0 DEF Topic!AdjustChain, Topic!submit_topic_model, Topic!Disconnect, Topic!preview,
       Topic!tab, Topic!window, Topic!adjustment
  <1> QED BY <1>1, <1>2, <1>3, <1>4, <1>5, <1>6, <1>7, <1>8 DEF Topic!TopicPreviewInv

LEMMA RunReleases_Keeps ==
  ASSUME Topic!BoundsAssumption, Topic!TopicPreviewInv, Topic!RunReleases
  PROVE  Topic!TopicPreviewInv'
  <1> USE Numbers, Shapes
  <1>0. /\ Topic!TypeOK /\ Topic!Numbered /\ Topic!LockHeld /\ Topic!WaitsForOwn
             /\ Topic!ComputedFromShown
        /\ Topic!OnePreview /\ Topic!ShownIsOwn /\ Topic!AdjustChain
    BY DEF Topic!TopicPreviewInv
  <1>1. Topic!TypeOK'
    <2>1. /\ request' \in [Topic!Ids -> {"none", "sent", "releasing", "open", "closed"}]
          /\ registered' \subseteq Topic!Ids /\ work' \in [Topic!Ids -> {"none", "fitting",
               "finished"}]
          /\ model' \in [Topic!Ids -> Topic!Revisions]
          /\ update' \in [Topic!Ids -> {"preparing", "ready", "failed"}]
          /\ first' \in [Topic!Ids -> Topic!Revisions] /\ revisions' \in Topic!Revisions
      BY <1>0, Cancels DEF Topic!TypeOK, Topic!RunReleases, Topic!preview, Topic!tab, Topic!window,
           Topic!adjustment
    <2>2. cancelled' \in [Topic!Ids -> BOOLEAN]
      BY <1>0, Cancels DEF Topic!TypeOK, Topic!RunReleases, Topic!preview, Topic!tab, Topic!window,
           Topic!adjustment
    <2>3. admission' \in {Topic!Nil, Topic!RunLock}
         \cup {n \in Topic!Ids : request'[n] = "releasing"}
      BY <1>0 DEF Topic!TypeOK, Topic!LockHeld, Topic!RunReleases, Topic!preview, Topic!tab,
           Topic!window, Topic!adjustment
    <2>4. /\ releasing' \subseteq Topic!Ids /\ (admission' = Topic!Nil => releasing' = {})
          /\ run' \in {"idle", "begun", "releasing", "fitting"}
      BY <1>0 DEF Topic!TypeOK, Topic!LockHeld, Topic!RunReleases, Topic!preview, Topic!tab,
           Topic!window, Topic!adjustment
    <2>a. admission' = Topic!RunLock <=> run' = "releasing"
      BY <1>0 DEF Topic!TypeOK, Topic!LockHeld, Topic!RunReleases, Topic!preview, Topic!tab,
           Topic!window, Topic!adjustment
    <2>b. runs' \in 0..MaxRuns
      BY <1>0 DEF Topic!TypeOK, Topic!BoundsAssumption, Topic!RunReleases, Topic!preview,
           Topic!tab, Topic!window, Topic!adjustment
    <2>5. /\ current' \in Topic!Ids \cup {Topic!Nil} /\ aborted' \subseteq Topic!Ids
               /\ cancelling' \subseteq Topic!Ids
          /\ active' \in BOOLEAN
      BY <1>0 DEF Topic!TypeOK, Topic!RunReleases, Topic!preview, Topic!tab, Topic!window,
           Topic!adjustment
    <2>6. deletion' = <<>> \/ deletion' \in {"sent", "waiting", "done", "expired"} \X Topic!Ids
      BY <1>0 DEF Topic!TypeOK, Topic!RunReleases, Topic!preview, Topic!tab, Topic!window,
           Topic!adjustment
    <2>7. shown' \in {Topic!Blank, Topic!Waiting, Topic!Failed}
         \cup {Topic!Ready(r) : r \in Topic!Revisions}
      BY <1>0 DEF Topic!TypeOK, Topic!RunReleases, Topic!preview, Topic!tab, Topic!window,
           Topic!adjustment
    <2>8. shown' # Topic!Blank <=> current' # Topic!Nil
      BY <1>0 DEF Topic!TypeOK, Topic!RunReleases, Topic!preview, Topic!tab, Topic!window,
           Topic!adjustment
    <2>9. /\ adjust' \in [Topic!Adjustments -> Topic!Phases]
          /\ latest' \in Topic!Adjustments \cup {Topic!Nil}
               /\ adjusting' \in [Topic!Ids -> Topic!Adjustments \cup {Topic!Nil}]
          /\ {expected', base', made'} \subseteq [Topic!Adjustments -> Topic!Revisions]
          /\ owner' \in [Topic!Adjustments -> Topic!Ids \cup {Topic!Nil}]
      BY <1>0, Cancels DEF Topic!TypeOK, Topic!Phases, Topic!RunReleases, Topic!preview, Topic!tab,
           Topic!window, Topic!adjustment
    <2> QED BY <2>1, <2>2, <2>3, <2>4, <2>5, <2>6, <2>7, <2>8, <2>9, <2>a, <2>b
          DEF Topic!TypeOK
  <1>2. Topic!Numbered'
    BY <1>0, NumbersKept, Cancels DEF Topic!TypeOK, Topic!RunReleases, Topic!preview, Topic!tab,
       Topic!window, Topic!adjustment
  <1>3. Topic!LockHeld'
    BY <1>0, Cancels DEF Topic!LockHeld, Topic!TypeOK, Topic!RunReleases, Topic!preview, Topic!tab,
       Topic!window, Topic!adjustment
  <1>4. Topic!WaitsForOwn'
    BY <1>0, Cancels DEF Topic!WaitsForOwn, Topic!TypeOK, Topic!Numbered, Topic!RunReleases,
       Topic!preview, Topic!tab, Topic!window, Topic!adjustment
  <1>5. Topic!ComputedFromShown'
    BY <1>0, ComputedKept, Cancels DEF Topic!TypeOK, Topic!RunReleases, Topic!preview, Topic!tab,
       Topic!window, Topic!adjustment
  <1>6. Topic!OnePreview'
    <2>1. Topic!Cardinality({n \in registered' : ~cancelled'[n]}) <= 1
      BY <1>0, OneKept, Cancels DEF Topic!TypeOK, Topic!RunReleases, Topic!preview, Topic!tab,
           Topic!window, Topic!adjustment
    <2>2. run' = "fitting" => \A n \in Topic!Ids : work'[n] = "fitting" => cancelled'[n]
      BY <1>0, Cancels DEF Topic!OnePreview, Topic!LockHeld, Topic!TypeOK, Topic!RunReleases,
           Topic!preview, Topic!tab, Topic!window, Topic!adjustment
    <2> QED BY <2>1, <2>2 DEF Topic!OnePreview
  <1>7. Topic!ShownIsOwn'
    BY <1>0 DEF Topic!ShownIsOwn, Topic!WaitsForOwn, Topic!Numbered, Topic!TypeOK,
       Topic!RunReleases, Topic!preview, Topic!tab, Topic!window, Topic!adjustment
  <1>8. Topic!AdjustChain'
    BY <1>0 DEF Topic!AdjustChain, Topic!RunReleases, Topic!preview, Topic!tab, Topic!window,
       Topic!adjustment
  <1> QED BY <1>1, <1>2, <1>3, <1>4, <1>5, <1>6, <1>7, <1>8 DEF Topic!TopicPreviewInv

LEMMA RunFits_Keeps ==
  ASSUME Topic!BoundsAssumption, Topic!TopicPreviewInv, Topic!RunFits
  PROVE  Topic!TopicPreviewInv'
  <1> USE Numbers, Shapes
  <1>0. /\ Topic!TypeOK /\ Topic!Numbered /\ Topic!LockHeld /\ Topic!WaitsForOwn
             /\ Topic!ComputedFromShown
        /\ Topic!OnePreview /\ Topic!ShownIsOwn /\ Topic!AdjustChain
    BY DEF Topic!TopicPreviewInv
  <1>1. Topic!TypeOK'
    <2>1. /\ request' \in [Topic!Ids -> {"none", "sent", "releasing", "open", "closed"}]
          /\ registered' \subseteq Topic!Ids /\ work' \in [Topic!Ids -> {"none", "fitting",
               "finished"}]
          /\ model' \in [Topic!Ids -> Topic!Revisions]
          /\ update' \in [Topic!Ids -> {"preparing", "ready", "failed"}]
          /\ first' \in [Topic!Ids -> Topic!Revisions] /\ revisions' \in Topic!Revisions
      BY <1>0, Drops DEF Topic!TypeOK, Topic!RunFits, Topic!Released, Topic!preview, Topic!tab,
           Topic!window, Topic!adjustment
    <2>2. cancelled' \in [Topic!Ids -> BOOLEAN]
      BY <1>0, Drops DEF Topic!TypeOK, Topic!RunFits, Topic!Released, Topic!preview, Topic!tab,
           Topic!window, Topic!adjustment
    <2>3. admission' \in {Topic!Nil, Topic!RunLock}
         \cup {n \in Topic!Ids : request'[n] = "releasing"}
      BY <1>0 DEF Topic!TypeOK, Topic!LockHeld, Topic!RunFits, Topic!Released, Topic!preview,
           Topic!tab, Topic!window, Topic!adjustment
    <2>4. /\ releasing' \subseteq Topic!Ids /\ (admission' = Topic!Nil => releasing' = {})
          /\ run' \in {"idle", "begun", "releasing", "fitting"}
      BY <1>0 DEF Topic!TypeOK, Topic!LockHeld, Topic!RunFits, Topic!Released, Topic!preview,
           Topic!tab, Topic!window, Topic!adjustment
    <2>a. admission' = Topic!RunLock <=> run' = "releasing"
      BY <1>0 DEF Topic!TypeOK, Topic!LockHeld, Topic!RunFits, Topic!Released, Topic!preview,
           Topic!tab, Topic!window, Topic!adjustment
    <2>b. runs' \in 0..MaxRuns
      BY <1>0 DEF Topic!TypeOK, Topic!BoundsAssumption, Topic!RunFits, Topic!Released,
           Topic!preview, Topic!tab, Topic!window, Topic!adjustment
    <2>5. /\ current' \in Topic!Ids \cup {Topic!Nil} /\ aborted' \subseteq Topic!Ids
               /\ cancelling' \subseteq Topic!Ids
          /\ active' \in BOOLEAN
      BY <1>0 DEF Topic!TypeOK, Topic!RunFits, Topic!Released, Topic!preview, Topic!tab,
           Topic!window, Topic!adjustment
    <2>6. deletion' = <<>> \/ deletion' \in {"sent", "waiting", "done", "expired"} \X Topic!Ids
      BY <1>0 DEF Topic!TypeOK, Topic!RunFits, Topic!Released, Topic!preview, Topic!tab,
           Topic!window, Topic!adjustment
    <2>7. shown' \in {Topic!Blank, Topic!Waiting, Topic!Failed}
         \cup {Topic!Ready(r) : r \in Topic!Revisions}
      BY <1>0 DEF Topic!TypeOK, Topic!RunFits, Topic!Released, Topic!preview, Topic!tab,
           Topic!window, Topic!adjustment
    <2>8. shown' # Topic!Blank <=> current' # Topic!Nil
      BY <1>0 DEF Topic!TypeOK, Topic!RunFits, Topic!Released, Topic!preview, Topic!tab,
           Topic!window, Topic!adjustment
    <2>9. /\ adjust' \in [Topic!Adjustments -> Topic!Phases]
          /\ latest' \in Topic!Adjustments \cup {Topic!Nil}
               /\ adjusting' \in [Topic!Ids -> Topic!Adjustments \cup {Topic!Nil}]
          /\ {expected', base', made'} \subseteq [Topic!Adjustments -> Topic!Revisions]
          /\ owner' \in [Topic!Adjustments -> Topic!Ids \cup {Topic!Nil}]
      BY <1>0, Drops DEF Topic!TypeOK, Topic!Phases, Topic!RunFits, Topic!Released, Topic!preview,
           Topic!tab, Topic!window, Topic!adjustment
    <2> QED BY <2>1, <2>2, <2>3, <2>4, <2>5, <2>6, <2>7, <2>8, <2>9, <2>a, <2>b
          DEF Topic!TypeOK
  <1>2. Topic!Numbered'
    BY <1>0, NumbersKept, Drops DEF Topic!TypeOK, Topic!RunFits, Topic!Released, Topic!preview,
       Topic!tab, Topic!window, Topic!adjustment
  <1>3. Topic!LockHeld'
    BY <1>0, Drops DEF Topic!LockHeld, Topic!TypeOK, Topic!RunFits, Topic!Released, Topic!preview,
       Topic!tab, Topic!window, Topic!adjustment
  <1>4. Topic!WaitsForOwn'
    BY <1>0, Drops DEF Topic!WaitsForOwn, Topic!TypeOK, Topic!Numbered, Topic!RunFits,
       Topic!Released, Topic!preview, Topic!tab, Topic!window, Topic!adjustment
  <1>5. Topic!ComputedFromShown'
    BY <1>0, ComputedKept, Drops DEF Topic!TypeOK, Topic!RunFits, Topic!Released, Topic!preview,
       Topic!tab, Topic!window, Topic!adjustment
  <1>6. Topic!OnePreview'
    <2>1. Topic!Cardinality({n \in registered' : ~cancelled'[n]}) <= 1
      BY <1>0, OneKept, Drops DEF Topic!TypeOK, Topic!RunFits, Topic!Released, Topic!preview,
           Topic!tab, Topic!window, Topic!adjustment
    <2>2. run' = "fitting" => \A n \in Topic!Ids : work'[n] = "fitting" => cancelled'[n]
      BY <1>0, Drops DEF Topic!OnePreview, Topic!LockHeld, Topic!TypeOK, Topic!RunFits,
           Topic!Released, Topic!preview, Topic!tab, Topic!window, Topic!adjustment
    <2> QED BY <2>1, <2>2 DEF Topic!OnePreview
  <1>7. Topic!ShownIsOwn'
    BY <1>0 DEF Topic!ShownIsOwn, Topic!WaitsForOwn, Topic!Numbered, Topic!TypeOK, Topic!RunFits,
       Topic!Released, Topic!preview, Topic!tab, Topic!window, Topic!adjustment
  <1>8. Topic!AdjustChain'
    BY <1>0 DEF Topic!AdjustChain, Topic!RunFits, Topic!Released, Topic!preview, Topic!tab,
       Topic!window, Topic!adjustment
  <1> QED BY <1>1, <1>2, <1>3, <1>4, <1>5, <1>6, <1>7, <1>8 DEF Topic!TopicPreviewInv

LEMMA RunEnds_Keeps ==
  ASSUME Topic!BoundsAssumption, Topic!TopicPreviewInv, Topic!RunEnds
  PROVE  Topic!TopicPreviewInv'
  <1> USE Numbers, Shapes
  <1>0. /\ Topic!TypeOK /\ Topic!Numbered /\ Topic!LockHeld /\ Topic!WaitsForOwn
             /\ Topic!ComputedFromShown
        /\ Topic!OnePreview /\ Topic!ShownIsOwn /\ Topic!AdjustChain
    BY DEF Topic!TopicPreviewInv
  <1>1. Topic!TypeOK'
    BY <1>0 DEF Topic!TypeOK, Topic!LockHeld, Topic!RunEnds, Topic!preview, Topic!tab,
       Topic!window, Topic!adjustment
  <1>2. Topic!Numbered'
    BY <1>0, NumbersKept DEF Topic!TypeOK, Topic!RunEnds, Topic!preview, Topic!tab, Topic!window,
       Topic!adjustment
  <1>3. Topic!LockHeld'
    BY <1>0 DEF Topic!LockHeld, Topic!TypeOK, Topic!RunEnds, Topic!preview, Topic!tab,
       Topic!window, Topic!adjustment
  <1>4. Topic!WaitsForOwn'
    BY <1>0 DEF Topic!WaitsForOwn, Topic!TypeOK, Topic!Numbered, Topic!RunEnds, Topic!preview,
       Topic!tab, Topic!window, Topic!adjustment
  <1>5. Topic!ComputedFromShown'
    BY <1>0, ComputedKept DEF Topic!TypeOK, Topic!RunEnds, Topic!preview, Topic!tab, Topic!window,
       Topic!adjustment
  <1>6. Topic!OnePreview'
    <2>1. Topic!Cardinality({n \in registered' : ~cancelled'[n]}) <= 1
      BY <1>0, OneKept DEF Topic!TypeOK, Topic!RunEnds, Topic!preview, Topic!tab, Topic!window,
           Topic!adjustment
    <2>2. run' = "fitting" => \A n \in Topic!Ids : work'[n] = "fitting" => cancelled'[n]
      BY <1>0 DEF Topic!OnePreview, Topic!LockHeld, Topic!TypeOK, Topic!RunEnds, Topic!preview,
           Topic!tab, Topic!window, Topic!adjustment
    <2> QED BY <2>1, <2>2 DEF Topic!OnePreview
  <1>7. Topic!ShownIsOwn'
    BY <1>0 DEF Topic!ShownIsOwn, Topic!WaitsForOwn, Topic!Numbered, Topic!TypeOK, Topic!RunEnds,
       Topic!preview, Topic!tab, Topic!window, Topic!adjustment
  <1>8. Topic!AdjustChain'
    BY <1>0 DEF Topic!AdjustChain, Topic!RunEnds, Topic!preview, Topic!tab, Topic!window,
       Topic!adjustment
  <1> QED BY <1>1, <1>2, <1>3, <1>4, <1>5, <1>6, <1>7, <1>8 DEF Topic!TopicPreviewInv

LEMMA TopicAdjustments_Keeps ==
  ASSUME Topic!BoundsAssumption, Topic!TopicPreviewInv, Topic!TopicAdjustments
  PROVE  Topic!TopicPreviewInv'
  <1> USE Numbers, Shapes
  <1>0. /\ Topic!TypeOK /\ Topic!Numbered /\ Topic!LockHeld /\ Topic!WaitsForOwn
             /\ Topic!ComputedFromShown
        /\ Topic!OnePreview /\ Topic!ShownIsOwn /\ Topic!AdjustChain
    BY DEF Topic!TopicPreviewInv
  <1> DEFINE n == Topic!NextAdjustment
  <1>a. /\ n \in Topic!Adjustments /\ adjust[n] = "none"
             /\ \A j \in Topic!Adjustments : adjust[j] # "none" <=> j < n
    BY <1>0 DEF Topic!TopicAdjustments, Topic!Numbered
  <1>b. /\ shown[1] = "ready" /\ adjust' = [adjust EXCEPT ![n] = "sent"] /\ latest' = n
        /\ expected' = [expected EXCEPT ![n] = shown[2]] /\ owner' = [owner EXCEPT ![n] = current]
        /\ UNCHANGED <<request, Topic!preview, Topic!tab, Topic!window, base, made, adjusting,
             replaced>>
    BY DEF Topic!TopicAdjustments
  <1>c. /\ shown[2] \in 1..revisions /\ revisions \in Nat /\ shown[2] \in Topic!Revisions
        /\ current \in Topic!Ids
    <2>1. shown[2] \in 1..revisions BY <1>0, <1>b DEF Topic!WaitsForOwn
    <2>2. revisions \in Topic!Revisions BY <1>0 DEF Topic!TypeOK
    <2>3. shown[2] \in Topic!Revisions BY <2>1, <2>2 DEF Topic!Revisions, Topic!BoundsAssumption
    <2>4. current # Topic!Nil BY <1>0, <1>b DEF Topic!TypeOK
    <2> QED BY <1>0, <2>1, <2>2, <2>3, <2>4 DEF Topic!TypeOK
  <1>1. Topic!TypeOK'
    <2>1. /\ request' \in [Topic!Ids -> {"none", "sent", "releasing", "open", "closed"}]
          /\ registered' \subseteq Topic!Ids /\ work' \in [Topic!Ids -> {"none", "fitting",
               "finished"}]
          /\ model' \in [Topic!Ids -> Topic!Revisions]
          /\ update' \in [Topic!Ids -> {"preparing", "ready", "failed"}]
          /\ first' \in [Topic!Ids -> Topic!Revisions] /\ revisions' \in Topic!Revisions
      BY <1>0, <1>a, <1>b, <1>c DEF Topic!TypeOK, Topic!preview, Topic!tab, Topic!window,
           Topic!adjustment
    <2>2. cancelled' \in [Topic!Ids -> BOOLEAN]
      BY <1>0, <1>a, <1>b, <1>c DEF Topic!TypeOK, Topic!preview, Topic!tab, Topic!window,
           Topic!adjustment
    <2>3. admission' \in {Topic!Nil, Topic!RunLock}
         \cup {m \in Topic!Ids : request'[m] = "releasing"}
      BY <1>0, <1>a, <1>b, <1>c DEF Topic!TypeOK, Topic!LockHeld, Topic!preview, Topic!tab,
           Topic!window, Topic!adjustment
    <2>4. /\ releasing' \subseteq Topic!Ids /\ (admission' = Topic!Nil => releasing' = {})
          /\ run' \in {"idle", "begun", "releasing", "fitting"}
      BY <1>0, <1>a, <1>b, <1>c DEF Topic!TypeOK, Topic!LockHeld, Topic!preview, Topic!tab,
           Topic!window, Topic!adjustment
    <2>a. admission' = Topic!RunLock <=> run' = "releasing"
      BY <1>0, <1>a, <1>b, <1>c DEF Topic!TypeOK, Topic!LockHeld, Topic!preview, Topic!tab,
           Topic!window, Topic!adjustment
    <2>b. runs' \in 0..MaxRuns
      BY <1>0, <1>a, <1>b, <1>c DEF Topic!TypeOK, Topic!BoundsAssumption, Topic!preview, Topic!tab,
           Topic!window, Topic!adjustment
    <2>5. /\ current' \in Topic!Ids \cup {Topic!Nil} /\ aborted' \subseteq Topic!Ids
               /\ cancelling' \subseteq Topic!Ids
          /\ active' \in BOOLEAN
      BY <1>0, <1>a, <1>b, <1>c DEF Topic!TypeOK, Topic!preview, Topic!tab, Topic!window,
           Topic!adjustment
    <2>6. deletion' = <<>> \/ deletion' \in {"sent", "waiting", "done", "expired"} \X Topic!Ids
      BY <1>0, <1>a, <1>b, <1>c DEF Topic!TypeOK, Topic!preview, Topic!tab, Topic!window,
           Topic!adjustment
    <2>7. shown' \in {Topic!Blank, Topic!Waiting, Topic!Failed}
         \cup {Topic!Ready(r) : r \in Topic!Revisions}
      BY <1>0, <1>a, <1>b, <1>c DEF Topic!TypeOK, Topic!preview, Topic!tab, Topic!window,
           Topic!adjustment
    <2>8. shown' # Topic!Blank <=> current' # Topic!Nil
      BY <1>0, <1>a, <1>b, <1>c DEF Topic!TypeOK, Topic!preview, Topic!tab, Topic!window,
           Topic!adjustment
    <2>9. /\ adjust' \in [Topic!Adjustments -> Topic!Phases]
          /\ latest' \in Topic!Adjustments \cup {Topic!Nil}
               /\ adjusting' \in [Topic!Ids -> Topic!Adjustments \cup {Topic!Nil}]
          /\ {expected', base', made'} \subseteq [Topic!Adjustments -> Topic!Revisions]
          /\ owner' \in [Topic!Adjustments -> Topic!Ids \cup {Topic!Nil}]
      BY <1>0, <1>a, <1>b, <1>c DEF Topic!TypeOK, Topic!Phases, Topic!preview, Topic!tab,
           Topic!window, Topic!adjustment
    <2> QED BY <2>1, <2>2, <2>3, <2>4, <2>5, <2>6, <2>7, <2>8, <2>9, <2>a, <2>b
          DEF Topic!TypeOK
  <1>2. Topic!Numbered'
    <2>1. Topic!NextAdjustment' = Topic!NextAdjustment + 1
      <3> DEFINE S == {j \in Topic!Adjustments : adjust[j] # "none"}
      T == {j \in Topic!Adjustments : adjust'[j] # "none"}
      <3>1. MaxAdjustments \in Nat /\ n \in 1..MaxAdjustments
        BY <1>a DEF Topic!BoundsAssumption, Topic!Adjustments
      <3>2. S \in SUBSET (1..MaxAdjustments) /\ T \in SUBSET (1..MaxAdjustments)
        BY DEF Topic!Adjustments
      <3>3. \A j \in 1..MaxAdjustments : j \in T <=> j \in S \/ j = n
        BY <1>0, <1>a, <1>b DEF Topic!TypeOK, Topic!Adjustments
      <3>4. n \notin S BY <1>a
      <3>5. Topic!NextAdjustment = 1
             + Topic!Cardinality(S) /\ Topic!NextAdjustment' = 1 + Topic!Cardinality(T)
        BY DEF Topic!NextAdjustment
      <3> HIDE DEF S, T
      <3>6. Topic!Cardinality(T) = Topic!Cardinality(S) + 1 BY <3>1, <3>2, <3>3, <3>4, CountMore
      <3>7. Topic!Cardinality(S) \in Nat BY <3>1, <3>2, CountSame
      <3> QED BY <3>5, <3>6, <3>7
    <2>2. Topic!NextId' = Topic!NextId BY <1>b, IdsUnchanged
    <2>3. /\ \A m \in Topic!Ids : request'[m] # "none" <=> m < Topic!NextId'
          /\ \A j \in Topic!Adjustments : adjust'[j] # "none" <=> j < Topic!NextAdjustment'
      <3>1. \A j \in Topic!Adjustments : adjust'[j] # "none" <=> adjust[j] # "none" \/ j = n
        BY <1>0, <1>a, <1>b DEF Topic!TypeOK
      <3>2. \A j \in Topic!Adjustments : j < Topic!NextAdjustment' <=> j < n \/ j = n BY <2>1
      <3> QED BY <1>0, <1>a, <1>b, <2>2, <3>1, <3>2 DEF Topic!Numbered
    <2>4. \A j \in Topic!Adjustments :
               /\ expected'[j] <= revisions' /\ made'[j] <= revisions'
               /\ adjust'[j] = "stored" => made'[j] # Topic!Nil
               /\ made'[j] # Topic!Nil => adjust'[j] \in {"stored", "answered"}
      <3> SUFFICES ASSUME NEW j \in Topic!Adjustments
                   PROVE  /\ expected'[j] <= revisions' /\ made'[j] <= revisions'
                          /\ adjust'[j] = "stored" => made'[j] # Topic!Nil
                          /\ made'[j] # Topic!Nil => adjust'[j] \in {"stored", "answered"}
        OBVIOUS
      <3>1. /\ expected[j] <= revisions /\ made[j] <= revisions
            /\ adjust[j] = "stored" => made[j] # Topic!Nil
            /\ made[j] # Topic!Nil => adjust[j] \in {"stored", "answered"}
        BY <1>0 DEF Topic!Numbered
      <3>2. UNCHANGED <<revisions, made>> BY <1>b DEF Topic!preview
      <3>3. CASE j = n BY <1>0, <1>a, <1>b, <1>c, <3>1, <3>2, <3>3 DEF Topic!TypeOK
      <3>4. CASE j # n BY <1>0, <1>a, <1>b, <3>1, <3>2, <3>4 DEF Topic!TypeOK
      <3> QED BY <3>3, <3>4
    <2> QED BY <1>0, <1>b, <2>3, <2>4 DEF Topic!Numbered, Topic!preview
  <1>3. Topic!LockHeld'
    BY <1>0, <1>a, <1>b, <1>c DEF Topic!LockHeld, Topic!TypeOK, Topic!preview, Topic!tab,
       Topic!window, Topic!adjustment
  <1>4. Topic!WaitsForOwn'
    BY <1>0, <1>a, <1>b, <1>c DEF Topic!WaitsForOwn, Topic!TypeOK, Topic!Numbered, Topic!preview,
       Topic!tab, Topic!window, Topic!adjustment
  <1>5. Topic!ComputedFromShown'
    <2>1. UNCHANGED <<model, base>> BY <1>b DEF Topic!preview
    <2> SUFFICES ASSUME NEW j \in Topic!Adjustments
                 PROVE  /\ adjust'[j] # "none" => owner'[j] # Topic!Nil
                        /\ adjust'[j] = "computing" =>
                             model'[owner'[j]] \in {Topic!Nil,
                                  base'[j]} \/ model'[owner'[j]] > expected'[j]
      BY DEF Topic!ComputedFromShown
    <2>2. CASE j = n BY <1>0, <1>a, <1>b, <1>c, <2>2 DEF Topic!TypeOK
    <2>3. CASE j # n
      <3>1. adjust'[j] = adjust[j] /\ owner'[j] = owner[j] /\ expected'[j] = expected[j]
        BY <1>0, <1>a, <1>b, <2>3 DEF Topic!TypeOK
      <3> QED BY <1>0, <2>1, <3>1 DEF Topic!ComputedFromShown
    <2> QED BY <2>2, <2>3
  <1>6. Topic!OnePreview'
    <2>1. Topic!Cardinality({m \in registered' : ~cancelled'[m]}) <= 1
      BY <1>0, <1>a, <1>b, <1>c, OneKept DEF Topic!TypeOK, Topic!preview, Topic!tab, Topic!window,
           Topic!adjustment
    <2>2. run' = "fitting" => \A m \in Topic!Ids : work'[m] = "fitting" => cancelled'[m]
      BY <1>0, <1>a, <1>b, <1>c DEF Topic!OnePreview, Topic!LockHeld, Topic!TypeOK, Topic!preview,
           Topic!tab, Topic!window, Topic!adjustment
    <2> QED BY <2>1, <2>2 DEF Topic!OnePreview
  <1>7. Topic!ShownIsOwn'
    BY <1>0, <1>a, <1>b, <1>c DEF Topic!ShownIsOwn, Topic!WaitsForOwn, Topic!Numbered,
       Topic!TypeOK, Topic!preview, Topic!tab, Topic!window, Topic!adjustment
  <1>8. Topic!AdjustChain'
    BY <1>0, <1>a, <1>b, <1>c DEF Topic!AdjustChain, Topic!preview, Topic!tab, Topic!window,
       Topic!adjustment
  <1> QED BY <1>1, <1>2, <1>3, <1>4, <1>5, <1>6, <1>7, <1>8 DEF Topic!TopicPreviewInv

LEMMA AdjustAnswered_Keeps ==
  ASSUME Topic!BoundsAssumption, Topic!TopicPreviewInv, Topic!AdjustAnswered
  PROVE  Topic!TopicPreviewInv'
  <1> USE Numbers, Shapes
  <1>0. /\ Topic!TypeOK /\ Topic!Numbered /\ Topic!LockHeld /\ Topic!WaitsForOwn
             /\ Topic!ComputedFromShown
        /\ Topic!OnePreview /\ Topic!ShownIsOwn /\ Topic!AdjustChain
    BY DEF Topic!TopicPreviewInv
  <1>1. Topic!TypeOK'
    <2>1. /\ request' \in [Topic!Ids -> {"none", "sent", "releasing", "open", "closed"}]
          /\ registered' \subseteq Topic!Ids /\ work' \in [Topic!Ids -> {"none", "fitting",
               "finished"}]
          /\ model' \in [Topic!Ids -> Topic!Revisions]
          /\ update' \in [Topic!Ids -> {"preparing", "ready", "failed"}]
          /\ first' \in [Topic!Ids -> Topic!Revisions] /\ revisions' \in Topic!Revisions
      BY <1>0 DEF Topic!TypeOK, Topic!AdjustAnswered, Topic!preview, Topic!tab, Topic!window,
           Topic!adjustment
    <2>2. cancelled' \in [Topic!Ids -> BOOLEAN]
      BY <1>0 DEF Topic!TypeOK, Topic!AdjustAnswered, Topic!preview, Topic!tab, Topic!window,
           Topic!adjustment
    <2>3. admission' \in {Topic!Nil, Topic!RunLock}
         \cup {n \in Topic!Ids : request'[n] = "releasing"}
      BY <1>0 DEF Topic!TypeOK, Topic!LockHeld, Topic!AdjustAnswered, Topic!preview, Topic!tab,
           Topic!window, Topic!adjustment
    <2>4. /\ releasing' \subseteq Topic!Ids /\ (admission' = Topic!Nil => releasing' = {})
          /\ run' \in {"idle", "begun", "releasing", "fitting"}
      BY <1>0 DEF Topic!TypeOK, Topic!LockHeld, Topic!AdjustAnswered, Topic!preview, Topic!tab,
           Topic!window, Topic!adjustment
    <2>a. admission' = Topic!RunLock <=> run' = "releasing"
      BY <1>0 DEF Topic!TypeOK, Topic!LockHeld, Topic!AdjustAnswered, Topic!preview, Topic!tab,
           Topic!window, Topic!adjustment
    <2>b. runs' \in 0..MaxRuns
      BY <1>0 DEF Topic!TypeOK, Topic!BoundsAssumption, Topic!AdjustAnswered, Topic!preview,
           Topic!tab, Topic!window, Topic!adjustment
    <2>5. /\ current' \in Topic!Ids \cup {Topic!Nil} /\ aborted' \subseteq Topic!Ids
               /\ cancelling' \subseteq Topic!Ids
          /\ active' \in BOOLEAN
      BY <1>0 DEF Topic!TypeOK, Topic!AdjustAnswered, Topic!preview, Topic!tab, Topic!window,
           Topic!adjustment
    <2>6. deletion' = <<>> \/ deletion' \in {"sent", "waiting", "done", "expired"} \X Topic!Ids
      BY <1>0 DEF Topic!TypeOK, Topic!AdjustAnswered, Topic!preview, Topic!tab, Topic!window,
           Topic!adjustment
    <2>7. shown' \in {Topic!Blank, Topic!Waiting, Topic!Failed}
         \cup {Topic!Ready(r) : r \in Topic!Revisions}
      BY <1>0 DEF Topic!TypeOK, Topic!AdjustAnswered, Topic!preview, Topic!tab, Topic!window,
           Topic!adjustment
    <2>8. shown' # Topic!Blank <=> current' # Topic!Nil
      BY <1>0 DEF Topic!TypeOK, Topic!AdjustAnswered, Topic!preview, Topic!tab, Topic!window,
           Topic!adjustment
    <2>9. /\ adjust' \in [Topic!Adjustments -> Topic!Phases]
          /\ latest' \in Topic!Adjustments \cup {Topic!Nil}
               /\ adjusting' \in [Topic!Ids -> Topic!Adjustments \cup {Topic!Nil}]
          /\ {expected', base', made'} \subseteq [Topic!Adjustments -> Topic!Revisions]
          /\ owner' \in [Topic!Adjustments -> Topic!Ids \cup {Topic!Nil}]
      BY <1>0 DEF Topic!TypeOK, Topic!Phases, Topic!AdjustAnswered, Topic!preview, Topic!tab,
           Topic!window, Topic!adjustment
    <2> QED BY <2>1, <2>2, <2>3, <2>4, <2>5, <2>6, <2>7, <2>8, <2>9, <2>a, <2>b
          DEF Topic!TypeOK
  <1>2. Topic!Numbered'
    BY <1>0, NumbersKept DEF Topic!TypeOK, Topic!AdjustAnswered, Topic!preview, Topic!tab,
       Topic!window, Topic!adjustment
  <1>3. Topic!LockHeld'
    BY <1>0 DEF Topic!LockHeld, Topic!TypeOK, Topic!AdjustAnswered, Topic!preview, Topic!tab,
       Topic!window, Topic!adjustment
  <1>4. Topic!WaitsForOwn'
    <2>1. latest' = Topic!Nil /\ UNCHANGED <<current, first, revisions>>
      BY DEF Topic!AdjustAnswered, Topic!preview
    <2>2. ASSUME shown'[1] = "ready"
          PROVE  shown'[2] \in 1..revisions' /\ first'[current'] # Topic!Nil
      <3>1. CASE adjust[latest] = "stored" /\ shown[1] = "ready"
        <4>1. shown' = Topic!Ready(made[latest]) /\ latest \in Topic!Adjustments
          BY <1>0, <3>1 DEF Topic!AdjustAnswered, Topic!TypeOK
        <4>2. made[latest] # Topic!Nil /\ made[latest] <= revisions /\ made[latest] \in Nat
             /\ revisions \in Nat
          BY <1>0, <3>1, <4>1, ZenonT(30) DEF Topic!Numbered, Topic!TypeOK
        <4>3. first[current] # Topic!Nil BY <1>0, <3>1 DEF Topic!WaitsForOwn
        <4> QED BY <2>1, <4>1, <4>2, <4>3 DEF Topic!Nil
      <3>2. CASE ~(adjust[latest] = "stored" /\ shown[1] = "ready")
        <4>1. shown' = shown BY <3>2 DEF Topic!AdjustAnswered
        <4> QED BY <1>0, <2>1, <2>2, <4>1 DEF Topic!WaitsForOwn
      <3> QED BY <3>1, <3>2
    <2> QED BY <2>1, <2>2 DEF Topic!WaitsForOwn
  <1>5. Topic!ComputedFromShown'
    BY <1>0, ComputedKept DEF Topic!TypeOK, Topic!AdjustAnswered, Topic!preview, Topic!tab,
       Topic!window, Topic!adjustment
  <1>6. Topic!OnePreview'
    <2>1. Topic!Cardinality({n \in registered' : ~cancelled'[n]}) <= 1
      BY <1>0, OneKept DEF Topic!TypeOK, Topic!AdjustAnswered, Topic!preview, Topic!tab,
           Topic!window, Topic!adjustment
    <2>2. run' = "fitting" => \A n \in Topic!Ids : work'[n] = "fitting" => cancelled'[n]
      BY <1>0 DEF Topic!OnePreview, Topic!LockHeld, Topic!TypeOK, Topic!AdjustAnswered,
           Topic!preview, Topic!tab, Topic!window, Topic!adjustment
    <2> QED BY <2>1, <2>2 DEF Topic!OnePreview
  <1>7. Topic!ShownIsOwn'
    BY <1>0, SMTT(20) DEF Topic!ShownIsOwn, Topic!WaitsForOwn, Topic!Numbered, Topic!TypeOK,
       Topic!AdjustAnswered, Topic!preview, Topic!tab, Topic!window, Topic!adjustment
  <1>8. Topic!AdjustChain'
    BY <1>0 DEF Topic!AdjustChain, Topic!AdjustAnswered, Topic!preview, Topic!tab, Topic!window,
       Topic!adjustment
  <1> QED BY <1>1, <1>2, <1>3, <1>4, <1>5, <1>6, <1>7, <1>8 DEF Topic!TopicPreviewInv

LEMMA adjust_topic_preview_Keeps ==
  ASSUME Topic!BoundsAssumption, Topic!TopicPreviewInv, NEW k \in Topic!Adjustments,
       Topic!adjust_topic_preview(k)
  PROVE  Topic!TopicPreviewInv'
  <1> USE Numbers, Shapes
  <1>0. /\ Topic!TypeOK /\ Topic!Numbered /\ Topic!LockHeld /\ Topic!WaitsForOwn
             /\ Topic!ComputedFromShown
        /\ Topic!OnePreview /\ Topic!ShownIsOwn /\ Topic!AdjustChain
    BY DEF Topic!TopicPreviewInv
  <1> DEFINE i == owner[k]
  <1>a. adjust[k] = "sent" /\ i \in Topic!Ids
    BY <1>0 DEF Topic!adjust_topic_preview, Topic!ComputedFromShown, Topic!TypeOK
  <1>b. UNCHANGED <<request, Topic!preview, Topic!tab, Topic!window, expected, owner, made,
       latest, replaced>>
    BY DEF Topic!adjust_topic_preview
  <1>c. /\ adjust' \in [Topic!Adjustments -> Topic!Phases]
             /\ base' \in [Topic!Adjustments -> Topic!Revisions]
        /\ adjusting' \in [Topic!Ids -> Topic!Adjustments \cup {Topic!Nil}]
        /\ \A j \in Topic!Adjustments : \/ adjust'[j] = adjust[j]
                                        \/ adjust[j] = "computing" /\ adjust'[j] = "cancelled"
                                        \/ j = k /\ adjust'[j] \in {"computing", "refused"}
        /\ \A j \in Topic!Adjustments : j # k => base'[j] = base[j]
        /\ adjust'[k] = "computing" => base'[k] = model[i]
    <2>1. CASE i \in registered /\ ~cancelled[i] /\ model[i] # Topic!Nil
      <3>1. /\ base' = [base EXCEPT ![k] = model[i]] /\ adjusting' = [adjusting EXCEPT ![i] = k]
            /\ adjust' = [j \in Topic!Adjustments |-> IF j = k THEN "computing"
                            ELSE IF j = adjusting[i] /\ adjust[j] = "computing"
                                 THEN "cancelled" ELSE adjust[j]]
        BY <2>1 DEF Topic!adjust_topic_preview
      <3>2. adjust' \in [Topic!Adjustments -> Topic!Phases]
        BY <1>0, <3>1 DEF Topic!TypeOK, Topic!Phases
      <3>3. \A j \in Topic!Adjustments : \/ adjust'[j] = adjust[j]
                                         \/ adjust[j] = "computing" /\ adjust'[j] = "cancelled"
                                         \/ j = k /\ adjust'[j] \in {"computing", "refused"}
        BY <3>1
      <3>4. base' \in [Topic!Adjustments -> Topic!Revisions]
           /\ adjusting' \in [Topic!Ids -> Topic!Adjustments \cup {Topic!Nil}]
        BY <1>0, <1>a, <3>1 DEF Topic!TypeOK
      <3>5. base'[k] = model[i] /\ \A j \in Topic!Adjustments : j # k => base'[j] = base[j]
        BY <1>0, <3>1 DEF Topic!TypeOK
      <3> QED BY <3>2, <3>3, <3>4, <3>5
    <2>2. CASE ~(i \in registered /\ ~cancelled[i] /\ model[i] # Topic!Nil)
      <3>1. adjust' = [adjust EXCEPT ![k] = "refused"] /\ UNCHANGED <<base, adjusting>>
        BY <2>2 DEF Topic!adjust_topic_preview
      <3> QED BY <1>0, <3>1, SMTT(20) DEF Topic!TypeOK, Topic!Phases
    <2> QED BY <2>1, <2>2
  <1>1. Topic!TypeOK'
    <2>1. /\ request' \in [Topic!Ids -> {"none", "sent", "releasing", "open", "closed"}]
          /\ registered' \subseteq Topic!Ids /\ work' \in [Topic!Ids -> {"none", "fitting",
               "finished"}]
          /\ model' \in [Topic!Ids -> Topic!Revisions]
          /\ update' \in [Topic!Ids -> {"preparing", "ready", "failed"}]
          /\ first' \in [Topic!Ids -> Topic!Revisions] /\ revisions' \in Topic!Revisions
      BY <1>0, <1>a, <1>b, <1>c DEF Topic!TypeOK, Topic!preview, Topic!tab, Topic!window,
           Topic!adjustment
    <2>2. cancelled' \in [Topic!Ids -> BOOLEAN]
      BY <1>0, <1>a, <1>b, <1>c DEF Topic!TypeOK, Topic!preview, Topic!tab, Topic!window,
           Topic!adjustment
    <2>3. admission' \in {Topic!Nil, Topic!RunLock}
         \cup {n \in Topic!Ids : request'[n] = "releasing"}
      BY <1>0, <1>a, <1>b, <1>c DEF Topic!TypeOK, Topic!LockHeld, Topic!preview, Topic!tab,
           Topic!window, Topic!adjustment
    <2>4. /\ releasing' \subseteq Topic!Ids /\ (admission' = Topic!Nil => releasing' = {})
          /\ run' \in {"idle", "begun", "releasing", "fitting"}
      BY <1>0, <1>a, <1>b, <1>c DEF Topic!TypeOK, Topic!LockHeld, Topic!preview, Topic!tab,
           Topic!window, Topic!adjustment
    <2>a. admission' = Topic!RunLock <=> run' = "releasing"
      BY <1>0, <1>a, <1>b, <1>c DEF Topic!TypeOK, Topic!LockHeld, Topic!preview, Topic!tab,
           Topic!window, Topic!adjustment
    <2>b. runs' \in 0..MaxRuns
      BY <1>0, <1>a, <1>b, <1>c DEF Topic!TypeOK, Topic!BoundsAssumption, Topic!preview, Topic!tab,
           Topic!window, Topic!adjustment
    <2>5. /\ current' \in Topic!Ids \cup {Topic!Nil} /\ aborted' \subseteq Topic!Ids
               /\ cancelling' \subseteq Topic!Ids
          /\ active' \in BOOLEAN
      BY <1>0, <1>a, <1>b, <1>c DEF Topic!TypeOK, Topic!preview, Topic!tab, Topic!window,
           Topic!adjustment
    <2>6. deletion' = <<>> \/ deletion' \in {"sent", "waiting", "done", "expired"} \X Topic!Ids
      BY <1>0, <1>a, <1>b, <1>c DEF Topic!TypeOK, Topic!preview, Topic!tab, Topic!window,
           Topic!adjustment
    <2>7. shown' \in {Topic!Blank, Topic!Waiting, Topic!Failed}
         \cup {Topic!Ready(r) : r \in Topic!Revisions}
      BY <1>0, <1>a, <1>b, <1>c DEF Topic!TypeOK, Topic!preview, Topic!tab, Topic!window,
           Topic!adjustment
    <2>8. shown' # Topic!Blank <=> current' # Topic!Nil
      BY <1>0, <1>a, <1>b, <1>c DEF Topic!TypeOK, Topic!preview, Topic!tab, Topic!window,
           Topic!adjustment
    <2>9. /\ adjust' \in [Topic!Adjustments -> Topic!Phases]
          /\ latest' \in Topic!Adjustments \cup {Topic!Nil}
               /\ adjusting' \in [Topic!Ids -> Topic!Adjustments \cup {Topic!Nil}]
          /\ {expected', base', made'} \subseteq [Topic!Adjustments -> Topic!Revisions]
          /\ owner' \in [Topic!Adjustments -> Topic!Ids \cup {Topic!Nil}]
      <3>1. UNCHANGED <<latest, expected, made, owner>> BY <1>b
      <3>2. /\ expected \in [Topic!Adjustments -> Topic!Revisions]
                 /\ made \in [Topic!Adjustments -> Topic!Revisions]
            /\ owner \in [Topic!Adjustments -> Topic!Ids \cup {Topic!Nil}]
                 /\ latest \in Topic!Adjustments \cup {Topic!Nil}
        BY <1>0 DEF Topic!TypeOK
      <3> QED BY ONLY <1>c, <3>1, <3>2
    <2> QED BY <2>1, <2>2, <2>3, <2>4, <2>5, <2>6, <2>7, <2>8, <2>9, <2>a, <2>b
          DEF Topic!TypeOK
  <1>2. Topic!Numbered'
    <2>1. \A n \in Topic!Ids : request'[n] # "none" <=> request[n] # "none" BY <1>b
    <2>2. /\ UNCHANGED <<first, made, revisions, expected>>
          /\ \A n \in Topic!Ids : model'[n] = model[n] /\ update'[n] = update[n]
               /\ work'[n] = work[n]
      BY <1>b DEF Topic!preview
    <2>3. \A j \in Topic!Adjustments : /\ adjust'[j] # "none" <=> adjust[j] # "none"
                                       /\ adjust'[j] = "stored" => adjust[j] = "stored"
                                       /\ adjust[j] \in {"stored", "answered"}
                                            => adjust'[j] \in {"stored", "answered"}
      BY <1>a, <1>c
    <2> QED BY ONLY Topic!BoundsAssumption, <1>0, <2>1, <2>2, <2>3, NumbersKept
  <1>3. Topic!LockHeld'
    BY <1>0, <1>a, <1>b, <1>c DEF Topic!LockHeld, Topic!TypeOK, Topic!preview, Topic!tab,
       Topic!window, Topic!adjustment
  <1>4. Topic!WaitsForOwn'
    BY <1>0, <1>a, <1>b, <1>c DEF Topic!WaitsForOwn, Topic!TypeOK, Topic!Numbered, Topic!preview,
       Topic!tab, Topic!window, Topic!adjustment
  <1>5. Topic!ComputedFromShown'
    <2>1. UNCHANGED <<model, owner, expected>> BY <1>b DEF Topic!preview
    <2> SUFFICES ASSUME NEW j \in Topic!Adjustments
                 PROVE  /\ adjust'[j] # "none" => owner'[j] # Topic!Nil
                        /\ adjust'[j] = "computing" =>
                             model'[owner'[j]] \in {Topic!Nil,
                                  base'[j]} \/ model'[owner'[j]] > expected'[j]
      BY DEF Topic!ComputedFromShown
    <2>2. CASE j = k BY <1>a, <1>c, <2>1, <2>2
    <2>3. CASE j # k
      <3>1. /\ base'[j] = base[j] /\ (adjust'[j] # "none" => adjust[j] # "none")
            /\ adjust'[j] = "computing" => adjust[j] = "computing"
        BY <1>c, <2>3
      <3> QED BY <1>0, <2>1, <3>1 DEF Topic!ComputedFromShown
    <2> QED BY <2>2, <2>3
  <1>6. Topic!OnePreview'
    <2>1. Topic!Cardinality({n \in registered' : ~cancelled'[n]}) <= 1
      BY <1>0, <1>a, <1>b, <1>c, OneKept DEF Topic!TypeOK, Topic!preview, Topic!tab, Topic!window,
           Topic!adjustment
    <2>2. run' = "fitting" => \A n \in Topic!Ids : work'[n] = "fitting" => cancelled'[n]
      BY <1>0, <1>a, <1>b, <1>c DEF Topic!OnePreview, Topic!LockHeld, Topic!TypeOK, Topic!preview,
           Topic!tab, Topic!window, Topic!adjustment
    <2> QED BY <2>1, <2>2 DEF Topic!OnePreview
  <1>7. Topic!ShownIsOwn'
    BY <1>0, <1>a, <1>b, <1>c DEF Topic!ShownIsOwn, Topic!WaitsForOwn, Topic!Numbered,
       Topic!TypeOK, Topic!preview, Topic!tab, Topic!window, Topic!adjustment
  <1>8. Topic!AdjustChain'
    BY <1>0, <1>a, <1>b, <1>c DEF Topic!AdjustChain, Topic!preview, Topic!tab, Topic!window,
       Topic!adjustment
  <1> QED BY <1>1, <1>2, <1>3, <1>4, <1>5, <1>6, <1>7, <1>8 DEF Topic!TopicPreviewInv

LEMMA Adjusted_Keeps ==
  ASSUME Topic!BoundsAssumption, Topic!TopicPreviewInv, NEW k \in Topic!Adjustments,
       Topic!Adjusted(k)
  PROVE  Topic!TopicPreviewInv'
  <1> USE Numbers, Shapes
  <1>0. /\ Topic!TypeOK /\ Topic!Numbered /\ Topic!LockHeld /\ Topic!WaitsForOwn
             /\ Topic!ComputedFromShown
        /\ Topic!OnePreview /\ Topic!ShownIsOwn /\ Topic!AdjustChain
    BY DEF Topic!TopicPreviewInv
  <1> DEFINE i == owner[k]
  <1>a. adjust[k] = "computing" /\ i \in Topic!Ids /\ made[k] = Topic!Nil /\ revisions \in Nat
    <2>1. adjust[k] = "computing" BY DEF Topic!Adjusted
    <2>2. i \in Topic!Ids BY <1>0, <2>1 DEF Topic!ComputedFromShown, Topic!TypeOK
    <2>3. made[k] = Topic!Nil BY <1>0, <2>1 DEF Topic!Numbered
    <2> QED BY <1>0, <2>1, <2>2, <2>3 DEF Topic!TypeOK
  <1>b. UNCHANGED <<request, registered, cancelled, work, update, first, admission, releasing,
       Topic!tab, Topic!window,
                    expected, owner, base, latest>>
    BY DEF Topic!Adjusted
  <1>c. \/ /\ Topic!Stores(k, i) /\ model[i] # Topic!Nil /\ model[i] = expected[k]
        \/ adjust' = [adjust EXCEPT ![k] = "refused"] /\ UNCHANGED <<revisions, model, made,
             replaced>>
    BY DEF Topic!Adjusted
  <1>d. adjusting' \in [Topic!Ids -> Topic!Adjustments \cup {Topic!Nil}]
    BY <1>0 DEF Topic!Adjusted, Topic!TypeOK
  <1>e. /\ adjust' \in [Topic!Adjustments -> Topic!Phases] /\ adjust'[k] \in {"stored", "refused"}
        /\ \A j \in Topic!Adjustments : j # k => adjust'[j] = adjust[j]
        /\ \A j \in Topic!Adjustments : j # k => made'[j] = made[j]
        /\ \A n \in Topic!Ids : n # i => model'[n] = model[n]
        /\ (adjust'[k] = "stored" <=> made'[k] = revisions + 1) /\ (adjust'[k] = "refused"
             => made'[k] = Topic!Nil)
        /\ revisions' = IF adjust'[k] = "stored" THEN revisions + 1 ELSE revisions
        /\ (model'[i] = revisions + 1 /\ adjust'[k] = "stored") \/ model'[i] = model[i]
    <2>1. CASE Topic!Stores(k, i)
      <3>1. /\ adjust' = [adjust EXCEPT ![k] = "stored"]
                 /\ made' = [made EXCEPT ![k] = revisions + 1]
            /\ revisions' = revisions + 1 /\ model' = [model EXCEPT ![i] = revisions + 1]
        BY <2>1 DEF Topic!Stores
      <3>2. adjust' \in [Topic!Adjustments -> Topic!Phases]
        BY <1>0, <3>1 DEF Topic!TypeOK, Topic!Phases
      <3>3. /\ adjust'[k] = "stored" /\ made'[k] = revisions + 1 /\ model'[i] = revisions + 1
            /\ \A j \in Topic!Adjustments : j # k => adjust'[j] = adjust[j] /\ made'[j] = made[j]
            /\ \A n \in Topic!Ids : n # i => model'[n] = model[n]
        BY <1>0, <1>a, <3>1 DEF Topic!TypeOK
      <3> QED BY <1>a, <3>1, <3>2, <3>3
    <2>2. CASE adjust' = [adjust EXCEPT ![k] = "refused"] /\ UNCHANGED <<revisions, model, made,
         replaced>>
      <3>1. adjust' \in [Topic!Adjustments -> Topic!Phases]
        BY <1>0, <2>2 DEF Topic!TypeOK, Topic!Phases
      <3>2. adjust'[k] = "refused" /\ \A j \in Topic!Adjustments : j # k => adjust'[j] = adjust[j]
        BY <1>0, <2>2 DEF Topic!TypeOK
      <3> QED BY <1>a, <2>2, <3>1, <3>2 DEF Topic!Nil
    <2> QED BY <1>c, <2>1, <2>2
  <1>f. revisions' = Topic!Cardinality({n \in Topic!Ids : first'[n] # Topic!Nil})
         + Topic!Cardinality({j \in Topic!Adjustments : made'[j] # Topic!Nil})
    <2> DEFINE S == {j \in Topic!Adjustments : made[j] # Topic!Nil}
    T == {j \in Topic!Adjustments : made'[j] # Topic!Nil}
               M == {n \in Topic!Ids : first[n] # Topic!Nil}
    <2>1. MaxPreviews \in Nat /\ MaxAdjustments \in Nat BY DEF Topic!BoundsAssumption
    <2>2. S \in SUBSET (1..MaxAdjustments) /\ T \in SUBSET (1..MaxAdjustments)
         /\ k \in 1..MaxAdjustments
          /\ M \in SUBSET (1..MaxPreviews)
      BY DEF Topic!Ids, Topic!Adjustments
    <2>3. revisions = Topic!Cardinality(M) + Topic!Cardinality(S) BY <1>0 DEF Topic!Numbered
    <2>4. Topic!Cardinality(S) \in Nat /\ Topic!Cardinality(M) \in Nat BY <2>1, <2>2, CountSame
    <2>5. M = {n \in Topic!Ids : first'[n] # Topic!Nil} BY <1>b
    <2>6. CASE adjust'[k] = "refused"
      <3>1. S = T BY <1>a, <1>e, <2>6
      <3> QED BY <1>e, <2>3, <2>5, <2>6, <3>1
    <2>7. CASE adjust'[k] = "stored"
      <3>1. k \notin S BY <1>a
      <3>2. \A j \in 1..MaxAdjustments : j \in T <=> j \in S \/ j = k
        BY <1>a, <1>e, <2>7 DEF Topic!Adjustments, Topic!Nil
      <3> HIDE DEF S, T, M
      <3>3. Topic!Cardinality(T) = Topic!Cardinality(S) + 1
        BY <2>1, <2>2, <3>1, <3>2, CountMore
      <3> QED BY <1>e, <2>3, <2>4, <2>5, <2>7, <3>3 DEF T
    <2> QED BY <1>e, <2>6, <2>7
  <1>g. revisions' \in Topic!Revisions BY <1>f, MostRevisions
  <1>1. Topic!TypeOK'
    <2>1. /\ request' \in [Topic!Ids -> {"none", "sent", "releasing", "open", "closed"}]
          /\ registered' \subseteq Topic!Ids /\ work' \in [Topic!Ids -> {"none", "fitting",
               "finished"}]
          /\ model' \in [Topic!Ids -> Topic!Revisions]
          /\ update' \in [Topic!Ids -> {"preparing", "ready", "failed"}]
          /\ first' \in [Topic!Ids -> Topic!Revisions] /\ revisions' \in Topic!Revisions
      <3>1. model' \in [Topic!Ids -> Topic!Revisions]
        <4>1. model \in [Topic!Ids -> Topic!Revisions] BY <1>0 DEF Topic!TypeOK
        <4>2. CASE Topic!Stores(k, i)
          <5>1. model' = [model EXCEPT ![i] = revisions'] BY <4>2 DEF Topic!Stores
          <5> QED BY <1>g, <4>1, <5>1
        <4> QED BY <1>c, <4>1, <4>2
      <3>2. UNCHANGED <<request, registered, work, update, first>> BY <1>b
      <3> QED BY <1>0, <1>g, <3>1, <3>2 DEF Topic!TypeOK
    <2>2. cancelled' \in [Topic!Ids -> BOOLEAN]
      BY <1>0, <1>a, <1>b, <1>c, <1>d, <1>e DEF Topic!TypeOK, Topic!preview, Topic!tab,
           Topic!window, Topic!adjustment
    <2>3. admission' \in {Topic!Nil, Topic!RunLock}
         \cup {n \in Topic!Ids : request'[n] = "releasing"}
      BY <1>0, <1>a, <1>b, <1>c, <1>d, <1>e DEF Topic!TypeOK, Topic!LockHeld, Topic!preview,
           Topic!tab, Topic!window, Topic!adjustment
    <2>4. /\ releasing' \subseteq Topic!Ids /\ (admission' = Topic!Nil => releasing' = {})
          /\ run' \in {"idle", "begun", "releasing", "fitting"}
      BY <1>0, <1>a, <1>b, <1>c, <1>d, <1>e DEF Topic!TypeOK, Topic!LockHeld, Topic!preview,
           Topic!tab, Topic!window, Topic!adjustment
    <2>a. admission' = Topic!RunLock <=> run' = "releasing"
      BY <1>0, <1>a, <1>b, <1>c, <1>d, <1>e DEF Topic!TypeOK, Topic!LockHeld, Topic!preview,
           Topic!tab, Topic!window, Topic!adjustment
    <2>b. runs' \in 0..MaxRuns
      BY <1>0, <1>a, <1>b, <1>c, <1>d, <1>e DEF Topic!TypeOK, Topic!BoundsAssumption,
           Topic!preview, Topic!tab, Topic!window, Topic!adjustment
    <2>5. /\ current' \in Topic!Ids \cup {Topic!Nil} /\ aborted' \subseteq Topic!Ids
               /\ cancelling' \subseteq Topic!Ids
          /\ active' \in BOOLEAN
      BY <1>0, <1>a, <1>b, <1>c, <1>d, <1>e DEF Topic!TypeOK, Topic!preview, Topic!tab,
           Topic!window, Topic!adjustment
    <2>6. deletion' = <<>> \/ deletion' \in {"sent", "waiting", "done", "expired"} \X Topic!Ids
      BY <1>0, <1>a, <1>b, <1>c, <1>d, <1>e DEF Topic!TypeOK, Topic!preview, Topic!tab,
           Topic!window, Topic!adjustment
    <2>7. shown' \in {Topic!Blank, Topic!Waiting, Topic!Failed}
         \cup {Topic!Ready(r) : r \in Topic!Revisions}
      BY <1>0, <1>a, <1>b, <1>c, <1>d, <1>e DEF Topic!TypeOK, Topic!preview, Topic!tab,
           Topic!window, Topic!adjustment
    <2>8. shown' # Topic!Blank <=> current' # Topic!Nil
      BY <1>0, <1>a, <1>b, <1>c, <1>d, <1>e DEF Topic!TypeOK, Topic!preview, Topic!tab,
           Topic!window, Topic!adjustment
    <2>9. /\ adjust' \in [Topic!Adjustments -> Topic!Phases]
          /\ latest' \in Topic!Adjustments \cup {Topic!Nil}
               /\ adjusting' \in [Topic!Ids -> Topic!Adjustments \cup {Topic!Nil}]
          /\ {expected', base', made'} \subseteq [Topic!Adjustments -> Topic!Revisions]
          /\ owner' \in [Topic!Adjustments -> Topic!Ids \cup {Topic!Nil}]
      <3>1. made' \in [Topic!Adjustments -> Topic!Revisions]
        <4>1. made \in [Topic!Adjustments -> Topic!Revisions] BY <1>0 DEF Topic!TypeOK
        <4>2. CASE Topic!Stores(k, i)
          <5>1. made' = [made EXCEPT ![k] = revisions'] BY <4>2 DEF Topic!Stores
          <5> QED BY <1>g, <4>1, <5>1
        <4> QED BY <1>c, <4>1, <4>2
      <3>2. UNCHANGED <<latest, expected, base, owner>> BY <1>b
      <3>3. /\ expected \in [Topic!Adjustments -> Topic!Revisions]
                 /\ base \in [Topic!Adjustments -> Topic!Revisions]
            /\ owner \in [Topic!Adjustments -> Topic!Ids \cup {Topic!Nil}]
                 /\ latest \in Topic!Adjustments \cup {Topic!Nil}
        BY <1>0 DEF Topic!TypeOK
      <3> QED BY ONLY <1>d, <1>e, <3>1, <3>2, <3>3
    <2> QED BY <2>1, <2>2, <2>3, <2>4, <2>5, <2>6, <2>7, <2>8, <2>9, <2>a, <2>b
          DEF Topic!TypeOK
  <1>2. Topic!Numbered'
    <2>1. Topic!NextId' = Topic!NextId BY <1>b, IdsUnchanged
    <2>2. Topic!NextAdjustment' = Topic!NextAdjustment BY <1>a, <1>e, AdjustmentsUnchanged
    <2>3. /\ \A n \in Topic!Ids : request'[n] # "none" <=> n < Topic!NextId'
          /\ \A j \in Topic!Adjustments : adjust'[j] # "none" <=> j < Topic!NextAdjustment'
      BY <1>0, <1>a, <1>b, <1>e, <2>1, <2>2 DEF Topic!Numbered
    <2>4. revisions' \in {revisions, revisions + 1} BY <1>e
    <2>5. \A n \in Topic!Ids : /\ first'[n] <= revisions' /\ model'[n] <= revisions'
                               /\ update'[n] = "ready" => first'[n] # Topic!Nil
                               /\ first'[n] # Topic!Nil => work'[n] = "finished"
      <3> SUFFICES ASSUME NEW n \in Topic!Ids PROVE first'[n] <= revisions'
           /\ model'[n] <= revisions'
        BY <1>0, <1>b DEF Topic!Numbered
      <3>1. first[n] \in Nat /\ model[n] \in Nat /\ first[n] <= revisions /\ model[n] <= revisions
        BY <1>0 DEF Topic!Numbered, Topic!TypeOK
      <3>2. first'[n] = first[n] BY <1>b
      <3>3. model'[n] = model[n] \/ (model'[n] = revisions + 1 /\ revisions' = revisions + 1)
        BY <1>e
      <3> QED BY <1>a, <2>4, <3>1, <3>2, <3>3
    <2>6. \A j \in Topic!Adjustments :
               /\ expected'[j] <= revisions' /\ made'[j] <= revisions'
               /\ adjust'[j] = "stored" => made'[j] # Topic!Nil
               /\ made'[j] # Topic!Nil => adjust'[j] \in {"stored", "answered"}
      <3> SUFFICES ASSUME NEW j \in Topic!Adjustments
                   PROVE  /\ expected'[j] <= revisions' /\ made'[j] <= revisions'
                          /\ adjust'[j] = "stored" => made'[j] # Topic!Nil
                          /\ made'[j] # Topic!Nil => adjust'[j] \in {"stored", "answered"}
        OBVIOUS
      <3>1. /\ expected[j] \in Nat /\ made[j] \in Nat /\ expected[j] <= revisions
                 /\ made[j] <= revisions
            /\ adjust[j] = "stored" => made[j] # Topic!Nil
            /\ made[j] # Topic!Nil => adjust[j] \in {"stored", "answered"}
        BY <1>0, ZenonT(30) DEF Topic!Numbered, Topic!TypeOK
      <3>2. expected'[j] = expected[j] BY <1>b
      <3>3. CASE j = k BY <1>a, <1>e, <2>4, <3>1, <3>2, <3>3 DEF Topic!Nil
      <3>4. CASE j # k
        <4>1. adjust'[j] = adjust[j] /\ made'[j] = made[j] BY <1>e, <3>4
        <4> QED BY <1>a, <2>4, <3>1, <3>2, <4>1
      <3> QED BY <3>3, <3>4
    <2> QED BY <1>f, <2>3, <2>5, <2>6 DEF Topic!Numbered
  <1>3. Topic!LockHeld'
    BY <1>0, <1>a, <1>b, <1>c, <1>d, <1>e DEF Topic!LockHeld, Topic!TypeOK, Topic!preview,
       Topic!tab, Topic!window, Topic!adjustment
  <1>4. Topic!WaitsForOwn'
    <2>1. UNCHANGED <<latest, owner, current, shown, first>> BY <1>b DEF Topic!window
    <2>2. revisions' \in {revisions, revisions + 1} BY <1>e
    <2>3. ASSUME shown[1] = "ready" PROVE shown[2] \in 1..revisions' /\ first[current] # Topic!Nil
      <3>1. shown[2] \in 1..revisions /\ first[current] # Topic!Nil
        BY <1>0, <2>3 DEF Topic!WaitsForOwn
      <3> QED BY <1>a, <2>2, <3>1
    <2> QED BY <1>0, <2>1, <2>3 DEF Topic!WaitsForOwn
  <1>5. Topic!ComputedFromShown'
    <2>1. UNCHANGED <<owner, base, expected>> BY <1>b
    <2> SUFFICES ASSUME NEW j \in Topic!Adjustments
                 PROVE  /\ adjust'[j] # "none" => owner'[j] # Topic!Nil
                        /\ adjust'[j] = "computing" =>
                             model'[owner'[j]] \in {Topic!Nil,
                                  base'[j]} \/ model'[owner'[j]] > expected'[j]
      BY DEF Topic!ComputedFromShown
    <2>2. adjust'[j] # "none" => adjust[j] # "none" BY <1>a, <1>e
    <2>3. owner'[j] # Topic!Nil \/ adjust'[j] = "none"
      BY <1>0, <2>1, <2>2 DEF Topic!ComputedFromShown
    <2>4. ASSUME adjust'[j] = "computing"
          PROVE  model'[owner[j]] \in {Topic!Nil, base[j]} \/ model'[owner[j]] > expected[j]
      <3>1. j # k BY <1>e, <2>4
      <3>2. adjust[j] = "computing" BY <1>e, <2>4, <3>1
      <3>3. model[owner[j]] \in {Topic!Nil, base[j]} \/ model[owner[j]] > expected[j]
        BY <1>0, <3>2 DEF Topic!ComputedFromShown
      <3>4. owner[j] \in Topic!Ids /\ expected[j] \in Nat /\ expected[j] <= revisions
        BY <1>0, <2>1, <2>3, <2>4, ZenonT(30) DEF Topic!TypeOK, Topic!Numbered
      <3>5. model'[owner[j]] = model[owner[j]] \/ model'[owner[j]] = revisions + 1
        BY <1>e, <3>4
      <3> QED BY <1>a, <3>3, <3>4, <3>5
    <2> QED BY <2>1, <2>3, <2>4
  <1>6. Topic!OnePreview'
    <2>1. Topic!Cardinality({n \in registered' : ~cancelled'[n]}) <= 1
      BY <1>0, <1>a, <1>b, <1>c, <1>d, <1>e, OneKept DEF Topic!TypeOK, Topic!preview, Topic!tab,
           Topic!window, Topic!adjustment
    <2>2. run' = "fitting" => \A n \in Topic!Ids : work'[n] = "fitting" => cancelled'[n]
      BY <1>0, <1>a, <1>b, <1>c, <1>d, <1>e DEF Topic!OnePreview, Topic!LockHeld, Topic!TypeOK,
           Topic!preview, Topic!tab, Topic!window, Topic!adjustment
    <2> QED BY <2>1, <2>2 DEF Topic!OnePreview
  <1>7. Topic!ShownIsOwn'
    <2>1. UNCHANGED <<owner, current, shown, first>> BY <1>b DEF Topic!window
    <2>2. ASSUME shown[1] = "ready"
          PROVE  shown[2] \in {first[current]}
               \cup {made'[j] : j \in {m \in Topic!Adjustments : owner[m] = current}}
      <3>1. shown[2] \in 1..revisions BY <1>0, <2>2 DEF Topic!WaitsForOwn
      <3>2. CASE shown[2] = first[current] BY <3>2
      <3>3. CASE shown[2] # first[current]
        <4>1. PICK j \in Topic!Adjustments : owner[j] = current /\ shown[2] = made[j]
          BY <1>0, <2>2, <3>3 DEF Topic!ShownIsOwn
        <4>2. j # k BY <1>a, <3>1, <4>1 DEF Topic!Nil
        <4>3. made'[j] = made[j] BY <1>e, <4>2
        <4> QED BY <4>1, <4>3
      <3> QED BY <3>2, <3>3
    <2> QED BY <2>1, <2>2 DEF Topic!ShownIsOwn
  <1>8. Topic!AdjustChain'
    <2>1. CASE UNCHANGED replaced BY <1>0, <2>1 DEF Topic!AdjustChain
    <2>2. CASE Topic!Stores(k, i) /\ model[i] # Topic!Nil /\ model[i] = expected[k]
      <3>1. replaced' = replaced \cup {<<model[i], base[k], expected[k]>>} BY <2>2 DEF Topic!Stores
      <3>2. model[i] \in {Topic!Nil, base[k]} \/ model[i] > expected[k]
        BY <1>0, <1>a DEF Topic!ComputedFromShown
      <3>3. model[i] \in Nat /\ expected[k] \in Nat BY <1>0, <1>a DEF Topic!TypeOK
      <3>4. model[i] = base[k] BY <2>2, <3>2, <3>3
      <3> QED BY <1>0, <2>2, <3>1, <3>4 DEF Topic!AdjustChain
    <2> QED BY <1>c, <2>1, <2>2
  <1> QED BY <1>1, <1>2, <1>3, <1>4, <1>5, <1>6, <1>7, <1>8 DEF Topic!TopicPreviewInv

LEMMA AdjustDropped_Keeps ==
  ASSUME Topic!BoundsAssumption, Topic!TopicPreviewInv, NEW k \in Topic!Adjustments,
       Topic!AdjustDropped(k)
  PROVE  Topic!TopicPreviewInv'
  <1> USE Numbers, Shapes
  <1>0. /\ Topic!TypeOK /\ Topic!Numbered /\ Topic!LockHeld /\ Topic!WaitsForOwn
             /\ Topic!ComputedFromShown
        /\ Topic!OnePreview /\ Topic!ShownIsOwn /\ Topic!AdjustChain
    BY DEF Topic!TopicPreviewInv
  <1>1. Topic!TypeOK'
    <2>1. /\ request' \in [Topic!Ids -> {"none", "sent", "releasing", "open", "closed"}]
          /\ registered' \subseteq Topic!Ids /\ work' \in [Topic!Ids -> {"none", "fitting",
               "finished"}]
          /\ model' \in [Topic!Ids -> Topic!Revisions]
          /\ update' \in [Topic!Ids -> {"preparing", "ready", "failed"}]
          /\ first' \in [Topic!Ids -> Topic!Revisions] /\ revisions' \in Topic!Revisions
      BY <1>0 DEF Topic!TypeOK, Topic!AdjustDropped, Topic!preview, Topic!tab, Topic!window,
           Topic!adjustment
    <2>2. cancelled' \in [Topic!Ids -> BOOLEAN]
      BY <1>0 DEF Topic!TypeOK, Topic!AdjustDropped, Topic!preview, Topic!tab, Topic!window,
           Topic!adjustment
    <2>3. admission' \in {Topic!Nil, Topic!RunLock}
         \cup {n \in Topic!Ids : request'[n] = "releasing"}
      BY <1>0 DEF Topic!TypeOK, Topic!LockHeld, Topic!AdjustDropped, Topic!preview, Topic!tab,
           Topic!window, Topic!adjustment
    <2>4. /\ releasing' \subseteq Topic!Ids /\ (admission' = Topic!Nil => releasing' = {})
          /\ run' \in {"idle", "begun", "releasing", "fitting"}
      BY <1>0 DEF Topic!TypeOK, Topic!LockHeld, Topic!AdjustDropped, Topic!preview, Topic!tab,
           Topic!window, Topic!adjustment
    <2>a. admission' = Topic!RunLock <=> run' = "releasing"
      BY <1>0 DEF Topic!TypeOK, Topic!LockHeld, Topic!AdjustDropped, Topic!preview, Topic!tab,
           Topic!window, Topic!adjustment
    <2>b. runs' \in 0..MaxRuns
      BY <1>0 DEF Topic!TypeOK, Topic!BoundsAssumption, Topic!AdjustDropped, Topic!preview,
           Topic!tab, Topic!window, Topic!adjustment
    <2>5. /\ current' \in Topic!Ids \cup {Topic!Nil} /\ aborted' \subseteq Topic!Ids
               /\ cancelling' \subseteq Topic!Ids
          /\ active' \in BOOLEAN
      BY <1>0 DEF Topic!TypeOK, Topic!AdjustDropped, Topic!preview, Topic!tab, Topic!window,
           Topic!adjustment
    <2>6. deletion' = <<>> \/ deletion' \in {"sent", "waiting", "done", "expired"} \X Topic!Ids
      BY <1>0 DEF Topic!TypeOK, Topic!AdjustDropped, Topic!preview, Topic!tab, Topic!window,
           Topic!adjustment
    <2>7. shown' \in {Topic!Blank, Topic!Waiting, Topic!Failed}
         \cup {Topic!Ready(r) : r \in Topic!Revisions}
      BY <1>0 DEF Topic!TypeOK, Topic!AdjustDropped, Topic!preview, Topic!tab, Topic!window,
           Topic!adjustment
    <2>8. shown' # Topic!Blank <=> current' # Topic!Nil
      BY <1>0 DEF Topic!TypeOK, Topic!AdjustDropped, Topic!preview, Topic!tab, Topic!window,
           Topic!adjustment
    <2>9. /\ adjust' \in [Topic!Adjustments -> Topic!Phases]
          /\ latest' \in Topic!Adjustments \cup {Topic!Nil}
               /\ adjusting' \in [Topic!Ids -> Topic!Adjustments \cup {Topic!Nil}]
          /\ {expected', base', made'} \subseteq [Topic!Adjustments -> Topic!Revisions]
          /\ owner' \in [Topic!Adjustments -> Topic!Ids \cup {Topic!Nil}]
      BY <1>0 DEF Topic!TypeOK, Topic!Phases, Topic!AdjustDropped, Topic!preview, Topic!tab,
           Topic!window, Topic!adjustment
    <2> QED BY <2>1, <2>2, <2>3, <2>4, <2>5, <2>6, <2>7, <2>8, <2>9, <2>a, <2>b
          DEF Topic!TypeOK
  <1>2. Topic!Numbered'
    BY <1>0, NumbersKept DEF Topic!TypeOK, Topic!AdjustDropped, Topic!preview, Topic!tab,
       Topic!window, Topic!adjustment
  <1>3. Topic!LockHeld'
    BY <1>0 DEF Topic!LockHeld, Topic!TypeOK, Topic!AdjustDropped, Topic!preview, Topic!tab,
       Topic!window, Topic!adjustment
  <1>4. Topic!WaitsForOwn'
    BY <1>0 DEF Topic!WaitsForOwn, Topic!TypeOK, Topic!Numbered, Topic!AdjustDropped,
       Topic!preview, Topic!tab, Topic!window, Topic!adjustment
  <1>5. Topic!ComputedFromShown'
    BY <1>0, ComputedKept DEF Topic!TypeOK, Topic!AdjustDropped, Topic!preview, Topic!tab,
       Topic!window, Topic!adjustment
  <1>6. Topic!OnePreview'
    <2>1. Topic!Cardinality({n \in registered' : ~cancelled'[n]}) <= 1
      BY <1>0, OneKept DEF Topic!TypeOK, Topic!AdjustDropped, Topic!preview, Topic!tab,
           Topic!window, Topic!adjustment
    <2>2. run' = "fitting" => \A n \in Topic!Ids : work'[n] = "fitting" => cancelled'[n]
      BY <1>0 DEF Topic!OnePreview, Topic!LockHeld, Topic!TypeOK, Topic!AdjustDropped,
           Topic!preview, Topic!tab, Topic!window, Topic!adjustment
    <2> QED BY <2>1, <2>2 DEF Topic!OnePreview
  <1>7. Topic!ShownIsOwn'
    BY <1>0 DEF Topic!ShownIsOwn, Topic!WaitsForOwn, Topic!Numbered, Topic!TypeOK,
       Topic!AdjustDropped, Topic!preview, Topic!tab, Topic!window, Topic!adjustment
  <1>8. Topic!AdjustChain'
    BY <1>0 DEF Topic!AdjustChain, Topic!AdjustDropped, Topic!preview, Topic!tab, Topic!window,
       Topic!adjustment
  <1> QED BY <1>1, <1>2, <1>3, <1>4, <1>5, <1>6, <1>7, <1>8 DEF Topic!TopicPreviewInv

LEMMA Preview_Init ==
  ASSUME Topic!BoundsAssumption, Topic!Init
  PROVE  Topic!TopicPreviewInv
  <1> USE Numbers, Shapes
  <1>0. /\ request = [i \in Topic!Ids |-> "none"] /\ adjust = [k \in Topic!Adjustments |-> "none"]
        /\ first = [i \in Topic!Ids |-> Topic!Nil]
             /\ made = [k \in Topic!Adjustments |-> Topic!Nil]
             /\ model = [i \in Topic!Ids |-> Topic!Nil]
        /\ expected = [k \in Topic!Adjustments |-> Topic!Nil] /\ revisions = 0
        /\ work = [i \in Topic!Ids |-> "none"] /\ update = [i \in Topic!Ids |-> "preparing"]
        /\ registered = {} /\ admission = Topic!Nil /\ latest = Topic!Nil /\ shown = Topic!Blank
             /\ replaced = {} /\ run = "idle"
    BY DEF Topic!Init
  <1>e. Topic!Cardinality({}) = 0 BY FS_EmptySet, Counting
  <1>1. Topic!TypeOK
    <2>1. 0 \in Topic!Revisions BY DEF Topic!Revisions, Topic!BoundsAssumption
    <2>2. /\ request \in [Topic!Ids -> {"none", "sent", "releasing", "open", "closed"}]
          /\ registered \subseteq Topic!Ids /\ cancelled \in [Topic!Ids -> BOOLEAN]
          /\ work \in [Topic!Ids -> {"none", "fitting", "finished"}]
               /\ model \in [Topic!Ids -> Topic!Revisions]
          /\ update \in [Topic!Ids -> {"preparing", "ready", "failed"}]
               /\ first \in [Topic!Ids -> Topic!Revisions]
          /\ revisions \in Topic!Revisions
      BY <2>1 DEF Topic!Init, Topic!Nil
    <2>3. /\ adjust \in [Topic!Adjustments -> Topic!Phases]
          /\ latest \in Topic!Adjustments \cup {Topic!Nil}
               /\ adjusting \in [Topic!Ids -> Topic!Adjustments \cup {Topic!Nil}]
          /\ owner \in [Topic!Adjustments -> Topic!Ids \cup {Topic!Nil}]
      BY DEF Topic!Init, Topic!Phases
    <2>4. {expected, base, made} \subseteq [Topic!Adjustments -> Topic!Revisions]
      BY <2>1 DEF Topic!Init, Topic!Nil
    <2>5. runs \in 0..MaxRuns BY DEF Topic!Init, Topic!BoundsAssumption
    <2>6. /\ admission = Topic!Nil /\ releasing = {} /\ run = "idle" /\ current = Topic!Nil
               /\ aborted = {}
          /\ cancelling = {} /\ deletion = <<>> /\ shown = Topic!Blank /\ active = TRUE
      BY DEF Topic!Init
    <2> QED BY <2>2, <2>3, <2>4, <2>5, <2>6 DEF Topic!TypeOK
  <1>2. Topic!Numbered
    <2>1. Topic!NextId = 1
      <3>1. {i \in Topic!Ids : request[i] # "none"} = {} BY <1>0
      <3>2. Topic!Cardinality({i \in Topic!Ids : request[i] # "none"}) = 0 BY ONLY <1>e, <3>1, Zenon
      <3> QED BY <3>2 DEF Topic!NextId
    <2>2. Topic!NextAdjustment = 1
      <3>1. {k \in Topic!Adjustments : adjust[k] # "none"} = {} BY <1>0
      <3>2. Topic!Cardinality({k \in Topic!Adjustments : adjust[k] # "none"}) = 0
        BY ONLY <1>e, <3>1, Zenon
      <3> QED BY <3>2 DEF Topic!NextAdjustment
    <2>3. {i \in Topic!Ids : first[i] # Topic!Nil} = {}
         /\ {k \in Topic!Adjustments : made[k] # Topic!Nil} = {}
      BY <1>0
    <2>4. revisions = Topic!Cardinality({i \in Topic!Ids : first[i] # Topic!Nil})
           + Topic!Cardinality({k \in Topic!Adjustments : made[k] # Topic!Nil})
      <3>1. Topic!Cardinality({i \in Topic!Ids : first[i] # Topic!Nil}) = 0
        BY ONLY <1>e, <2>3, Zenon
      <3>2. Topic!Cardinality({k \in Topic!Adjustments : made[k] # Topic!Nil}) = 0
        BY ONLY <1>e, <2>3, Zenon
      <3> QED BY <1>0, <3>1, <3>2
    <2>5. /\ \A i \in Topic!Ids : ~(i < 1) /\ request[i] = "none"
          /\ \A k \in Topic!Adjustments : ~(k < 1) /\ adjust[k] = "none"
      BY <1>0 DEF Topic!Ids, Topic!Adjustments
    <2> QED BY <1>0, <2>1, <2>2, <2>4, <2>5 DEF Topic!Numbered, Topic!Nil
  <1>3. Topic!LockHeld BY <1>0 DEF Topic!LockHeld
  <1>4. Topic!WaitsForOwn BY <1>0 DEF Topic!WaitsForOwn
  <1>5. Topic!ComputedFromShown BY <1>0 DEF Topic!ComputedFromShown
  <1>6. Topic!OnePreview
    <2>1. {i \in registered : ~cancelled[i]} = {} BY <1>0
    <2> QED BY <1>0, <1>e, <2>1 DEF Topic!OnePreview
  <1>7. Topic!ShownIsOwn BY <1>0 DEF Topic!ShownIsOwn
  <1>8. Topic!AdjustChain BY <1>0 DEF Topic!AdjustChain
  <1> QED BY <1>1, <1>2, <1>3, <1>4, <1>5, <1>6, <1>7, <1>8 DEF Topic!TopicPreviewInv

LEMMA Preview_Next ==
  ASSUME Topic!BoundsAssumption, Topic!TopicPreviewInv, Topic!Next
  PROVE  Topic!TopicPreviewInv'
  <1>1. ASSUME NEW i \in Topic!Ids, Topic!Server(i) PROVE Topic!TopicPreviewInv'
    BY <1>1, open_topic_preview_Keeps, Registered_Keeps, Fitted_Keeps, StreamEnds_Keeps,
         RequestEnds_Keeps,
       Receive_Keeps DEF Topic!Server
  <1>2. CASE Topic!submit \/ Topic!clear \/ Topic!Navigate \/ Topic!cancel
    BY <1>2, submit_Keeps, clear_Keeps, Navigate_Keeps, cancel_Keeps
  <1>3. CASE Topic!delete_topic_preview \/ Topic!Deleted \/ Topic!DeleteAnswered
    BY <1>3, delete_topic_preview_Keeps, Deleted_Keeps, DeleteAnswered_Keeps
  <1>4. ASSUME NEW here \in BOOLEAN, Topic!submit_topic_model(here) PROVE Topic!TopicPreviewInv'
    BY <1>4, submit_topic_model_Keeps
  <1>5. CASE Topic!RunReleases \/ Topic!RunFits \/ Topic!RunEnds
    BY <1>5, RunReleases_Keeps, RunFits_Keeps, RunEnds_Keeps
  <1>6. CASE Topic!TopicAdjustments \/ Topic!AdjustAnswered
    BY <1>6, TopicAdjustments_Keeps, AdjustAnswered_Keeps
  <1>7. ASSUME NEW k \in Topic!Adjustments,
       Topic!adjust_topic_preview(k) \/ Topic!Adjusted(k) \/ Topic!AdjustDropped(k)
        PROVE  Topic!TopicPreviewInv'
    BY <1>7, adjust_topic_preview_Keeps, Adjusted_Keeps, AdjustDropped_Keeps
  <1> QED BY <1>1, <1>2, <1>3, <1>4, <1>5, <1>6, <1>7 DEF Topic!Next

LEMMA PreviewStutters ==
  ASSUME Topic!TopicPreviewInv, UNCHANGED topic
  PROVE  Topic!TopicPreviewInv'
  <1>1. /\ UNCHANGED <<request, registered, cancelled, work, model, update, first, revisions>>
        /\ UNCHANGED <<admission, releasing, run, runs, current, aborted, cancelling, deletion>>
        /\ UNCHANGED <<shown, active, adjust, expected, base, made, latest, owner, adjusting>>
        /\ UNCHANGED replaced
    BY DEF topic
  <1>2. Topic!TypeOK' BY <1>1 DEF Topic!TopicPreviewInv, Topic!TypeOK
  <1>3. Topic!Numbered'
    BY <1>1 DEF Topic!TopicPreviewInv, Topic!Numbered, Topic!NextId, Topic!NextAdjustment
  <1>4. Topic!LockHeld' /\ Topic!WaitsForOwn' /\ Topic!ComputedFromShown'
    BY <1>1 DEF Topic!TopicPreviewInv, Topic!LockHeld, Topic!WaitsForOwn, Topic!ComputedFromShown
  <1>5. Topic!OnePreview' /\ Topic!ShownIsOwn' /\ Topic!AdjustChain'
    BY <1>1 DEF Topic!TopicPreviewInv, Topic!OnePreview, Topic!ShownIsOwn, Topic!AdjustChain
  <1> QED BY <1>2, <1>3, <1>4, <1>5 DEF Topic!TopicPreviewInv

\* However submissions, aborts, adjustments and Runs interleave, one Preview at
\* most holds the tab, what the window shows was made for it, and every
\* adjustment replaces the projection it was computed from.
THEOREM PreviewStaysOwn == Spec => []PreviewIsOwn
  <1>0. Topic!BoundsAssumption BY SessionsAssumption
  <1>1. ASSUME Init PROVE PreviewIsOwn
    BY <1>0, <1>1, Preview_Init DEF Init, PreviewIsOwn
  <1>2. ASSUME PreviewIsOwn, [Next]_vars PROVE PreviewIsOwn'
    <2>0. part' = part BY <1>2 DEF Next, vars
    <2>1. ASSUME part = "topic" PROVE Topic!TopicPreviewInv'
      <3>0. Topic!TopicPreviewInv BY <1>2, <2>1 DEF PreviewIsOwn
      <3>1. Topic!Next \/ UNCHANGED topic BY <1>2, <2>1 DEF Next, vars
      <3>2. CASE UNCHANGED topic
        BY <3>0, <3>2, PreviewStutters
      <3>3. CASE Topic!Next BY <1>0, <3>0, <3>3, Preview_Next
      <3> QED BY <3>1, <3>2, <3>3
    <2> QED BY <2>0, <2>1 DEF PreviewIsOwn
  <1> QED BY <1>1, <1>2, PTL DEF Spec

(* ------------------------- following the project ------------------------ *)

LEMMA Reads ==
  /\ Changes!Idle # Changes!Sent
  /\ \A x : Changes!Answer(x) # Changes!Idle /\ Changes!Answer(x) # Changes!Sent
       /\ Changes!Answer(x)[2] = x
  /\ \A x, y : Changes!Answer(x) = Changes!Answer(y) => x = y
  BY DEF Changes!Idle, Changes!Sent, Changes!Answer

\* What is announced is what has changed, and holds what was written.
LEMMA Announced ==
  ASSUME NEW O \in SUBSET Objects
  PROVE  Changes!closure(O) = Changes!Reached(O) /\ Changes!closure(O) \in SUBSET Objects
       /\ O \subseteq Changes!closure(O)
  <1>1. Changes!closure(O) = Changes!Reached(O) BY DEF Changes!closure, Changes!Reached
  <1>2. Changes!closure(O) \in SUBSET Objects BY DEF Changes!closure
  <1>3. O \subseteq Changes!closure(O) BY DEF Changes!closure
  <1> QED BY <1>1, <1>2, <1>3

LEMMA Answers ==
  ASSUME Changes!QueriesAssumption, Changes!TypeOK
  PROVE  \A q \in Queries :
           /\ Changes!Current(q) \in Changes!Value \cup {None}
           /\ Kind[q] # "output" => Changes!Current(q) \in Changes!Value
           /\ Kind[q] = "tabs" => Changes!Current(q).a = analysis
           /\ Kind[q] = "output" => (Changes!Current(q) = None <=> analysis # "output")
  <1> SUFFICES ASSUME NEW q \in Queries
               PROVE  /\ Changes!Current(q) \in Changes!Value \cup {None}
                      /\ Kind[q] # "output" => Changes!Current(q) \in Changes!Value
                      /\ Kind[q] = "tabs" => Changes!Current(q).a = analysis
                      /\ Kind[q] = "output" => (Changes!Current(q) = None <=> analysis # "output")
    OBVIOUS
  <1>1. version[q] \in 0..MaxCommits /\ analysis \in Changes!States /\ "output" \in Changes!States
    BY DEF Changes!TypeOK, Changes!States
  <1>2. /\ [v |-> version[q], a |-> analysis] \in Changes!Value
             /\ [v |-> version[q], a |-> "output"] \in Changes!Value
        /\ [v |-> version[q], a |-> analysis].a = analysis
    BY <1>1 DEF Changes!Value
  <1>3. \A x \in Changes!Value : x # None BY DEF Changes!QueriesAssumption
  <1> QED BY <1>2, <1>3 DEF Changes!Current

LEMMA PendingScope ==
  ASSUME Changes!TypeOK
  PROVE  pending = None \/ pending \in SUBSET Objects
  <1>1. pending \in (SUBSET Objects) \cup {None} BY DEF Changes!TypeOK
  <1> QED BY ONLY <1>1, Zenon

\* What the tab list in the cache says.
LEMMA Listing ==
  /\ \A v : v \in Changes!Listed <=> \E t \in Changes!TabList : cache[t] # None /\ v = cache[t].a
  /\ \A t : t \in Changes!TabList <=> t \in Queries /\ Kind[t] = "tabs"
  /\ \A q : q \in Changes!Outputs <=> q \in Queries /\ Kind[q] = "output"
  BY DEF Changes!Listed, Changes!TabList, Changes!Outputs

LEMMA ListingNext ==
  \A v : v \in Changes!Listed' <=> \E t \in Changes!TabList : cache'[t] # None /\ v = cache'[t].a
  BY DEF Changes!Listed, Changes!TabList

\* Once all is quiet nothing is on its way any more.
LEMMA QuietIsCurrent ==
  ASSUME Changes!QueriesAssumption, Changes!TypeOK', Changes!ChangesAreTold',
       Changes!OutputIsListed'
  PROVE  Changes!ShownIsCurrent' /\ Changes!HiddenIsMarked'
  <1> SUFFICES ASSUME Changes!Quiet' PROVE Changes!ShownIsCurrent' /\ Changes!HiddenIsMarked'
    BY DEF Changes!ShownIsCurrent, Changes!HiddenIsMarked
  <1>0. /\ unpublished' = {} /\ stream' = "up" /\ channel' = <<>> /\ ~lagged' /\ events' = <<>>
        /\ stage' = "idle" /\ pending' = None /\ \A q \in Queries : fetch'[q] = Changes!Idle
    BY DEF Changes!Quiet, Changes!ChangesAreTold
  <1>1. \A N : ~Changes!Coming(N)' BY <1>0 DEF Changes!Coming
  <1>2. \A q \in Queries : ~Changes!Told(q)' /\ ~Changes!Refreshing(q)'
    BY <1>0, <1>1 DEF Changes!Told, Changes!Refreshing
  <1>3. ~Changes!ToldOfAnalysis' BY <1>0, <1>1 DEF Changes!ToldOfAnalysis
  <1>4. ASSUME NEW q \in Queries, cache'[q] # None, Changes!Current(q)' # None
        PROVE  cache'[q] = Changes!Current(q)' \/ (q \notin displayed' /\ q \in invalid')
    BY <1>0, <1>2, <1>4 DEF Changes!ChangesAreTold
  <1>5. ASSUME NEW q \in Queries, Changes!Current(q)' = None
        PROVE  Kind[q] = "output" /\ analysis' # "output"
    <2>1. version'[q] \in 0..MaxCommits /\ analysis' \in Changes!States
         /\ "output" \in Changes!States
      BY DEF Changes!TypeOK, Changes!States
    <2>2. [v |-> version'[q], a |-> analysis'] \in Changes!Value
         /\ [v |-> version'[q], a |-> "output"] \in Changes!Value
      BY <2>1 DEF Changes!Value
    <2>3. \A x \in Changes!Value : x # None BY DEF Changes!QueriesAssumption
    <2> QED BY <1>5, <2>2, <2>3 DEF Changes!Current
  <1>6. ASSUME NEW q \in Queries, Kind[q] = "output", cache'[q] # None, analysis' # "output"
        PROVE  q \notin displayed' /\ analysis' = "deleted"
    <2>1. analysis' # "empty" BY <1>3, <1>6, Listing DEF Changes!OutputIsListed
    <2>2. ASSUME q \in displayed' PROVE FALSE
      <3>1. Changes!Listed' = {"output"} BY <1>6, <2>2, Listing DEF Changes!OutputIsListed
      <3>2. PICK t \in Changes!TabList : cache'[t] # None /\ cache'[t].a = "output"
        BY <3>1, ListingNext
      <3> QED BY <1>1, <1>3, <1>6, <3>2 DEF Changes!OutputIsListed
    <2>3. analysis' \in Changes!States BY DEF Changes!TypeOK
    <2> QED BY <1>6, <2>1, <2>2, <2>3 DEF Changes!States
  <1>7. Changes!ShownIsCurrent'
    <2> SUFFICES ASSUME NEW q \in displayed' PROVE cache'[q] \in {None, Changes!Current(q)'}
      BY DEF Changes!ShownIsCurrent
    <2>1. q \in Queries BY DEF Changes!TypeOK
    <2> QED BY <1>4, <1>5, <1>6, <2>1
  <1>8. Changes!HiddenIsMarked'
    <2> SUFFICES ASSUME NEW q \in Queries, q \notin displayed', cache'[q] # None
                 PROVE  /\ Changes!Current(q)' = None => analysis' = "deleted"
                        /\ q \in invalid' \/ cache'[q] = Changes!Current(q)' \/ Changes!Current(q)' = None
      BY DEF Changes!HiddenIsMarked
    <2> QED BY <1>4, <1>5, <1>6
  <1> QED BY <1>7, <1>8

\* Announcements on their way to the observer are not lost.
LEMMA PathKept ==
  ASSUME Changes!QueriesAssumption, Changes!ChangesAreTold, Changes!OutputIsListed,
         \A N \in SUBSET Objects : Changes!Coming(N) => Changes!Coming(N)',
         UNCHANGED <<version, analysis, scope, displayed, cache, invalid, fetch>>,
         stage' = stage \/ ({stage, stage'} \subseteq {"idle", "next", "rest"}),
         stage' = "idle" => pending' = None
  PROVE  Changes!ChangesAreTold' /\ Changes!OutputIsListed'
  <1>1. \A q \in Queries : (Changes!Told(q) => Changes!Told(q)')
    BY ZenonT(30) DEF Changes!Told, Changes!QueriesAssumption
  <1>2. \A q \in Queries : Changes!Current(q)' = Changes!Current(q) /\ (Changes!Refreshing(q)
       => Changes!Refreshing(q)')
    BY DEF Changes!Current, Changes!Refreshing, Changes!affectedQuery
  <1>3. {Tabs, Analysis} \in SUBSET Objects BY DEF Changes!QueriesAssumption
  <1>4. Changes!ToldOfAnalysis => Changes!ToldOfAnalysis' BY <1>3 DEF Changes!ToldOfAnalysis
  <1>5. Changes!Listed' = Changes!Listed BY DEF Changes!Listed
  <1>6. Changes!ChangesAreTold' BY <1>1, <1>2 DEF Changes!ChangesAreTold
  <1>7. Changes!OutputIsListed' BY <1>3, <1>4, <1>5 DEF Changes!OutputIsListed
  <1> QED BY <1>6, <1>7

LEMMA PathKeeps ==
  ASSUME Changes!QueriesAssumption, Changes!BoundsAssumption, Changes!ProjectEventsInv,
         (\E s \in unpublished : Changes!publish(s)) \/ Changes!Connect \/ Changes!Open
         \/ Changes!Forward \/ Changes!Break \/ Changes!refresh \/ Changes!EndRefresh
  PROVE  Changes!ProjectEventsInv'
  <1>0. Changes!TypeOK /\ Changes!ChangesAreTold /\ Changes!OutputIsListed
    BY DEF Changes!ProjectEventsInv
  <1>t. /\ unpublished \subseteq SUBSET Objects
        /\ channel \in Seq(SUBSET Objects) /\ Len(channel) \in Nat /\ Len(channel) <= Capacity
             /\ Capacity \in Nat \ {0}
        /\ lagged \in BOOLEAN /\ stream \in {"down", "opening", "up"} /\ drops \in 0..MaxDrops
        /\ events \in Seq(SUBSET Objects) /\ pending \in (SUBSET Objects) \cup {None}
        /\ stage \in {"idle", "next", "tabs", "schema", "manifest", "rest"}
        /\ Objects \in SUBSET Objects /\ MaxDrops \in Nat
    BY <1>0 DEF Changes!TypeOK, Changes!BoundsAssumption
  <1>u. pending = None \/ pending \in SUBSET Objects BY <1>0, PendingScope
  <1>p. /\ stage = "idle" => pending = None
        /\ stage = "next" => pending # None
        /\ \A N \in SUBSET Objects : N # None
    BY <1>0 DEF Changes!TypeOK, Changes!ChangesAreTold, Changes!QueriesAssumption
  <1>q. ASSUME UNCHANGED <<Changes!database, scope, prior, Changes!queries>>,
               unpublished' \subseteq SUBSET Objects,
               channel' \in Seq(SUBSET Objects), Len(channel') <= Capacity,
               lagged' \in BOOLEAN, stream' \in {"down", "opening", "up"}, drops' \in 0..MaxDrops,
               events' \in Seq(SUBSET Objects), pending' \in (SUBSET Objects) \cup {None},
               stage' \in {"idle", "next", "tabs", "schema", "manifest", "rest"},
               stage' = "next" => pending' # None, stage' = "idle" => pending' = None,
               stage' = stage \/ ({stage, stage'} \subseteq {"idle", "next", "rest"}),
               \A N \in SUBSET Objects : Changes!Coming(N) => Changes!Coming(N)'
        PROVE  Changes!ProjectEventsInv'
    <2>1. UNCHANGED <<version, analysis, commits, scope, prior, displayed, cache, invalid, fetch>>
      BY <1>q DEF Changes!database, Changes!queries
    <2>2. Changes!TypeOK'
      <3>1. /\ version \in [Queries -> 0..MaxCommits] /\ analysis \in Changes!States
                 /\ commits \in 0..MaxCommits
            /\ scope \subseteq Objects /\ prior \subseteq Changes!States
            /\ displayed \subseteq Queries /\ invalid \subseteq Queries
            /\ cache \in [Queries -> Changes!Value \cup {None}]
            /\ fetch \in [Queries -> {Changes!Idle, Changes!Sent}
                 \cup {Changes!Answer(v) : v \in Changes!Value \cup {None}}]
        BY <1>0 DEF Changes!TypeOK
      <3> QED BY ONLY <1>q, <2>1, <3>1 DEF Changes!TypeOK
    <2>3. Changes!ChangesAreTold' /\ Changes!OutputIsListed'
      BY ONLY Changes!QueriesAssumption, <1>0, <1>q, <2>1, PathKept
    <2> QED BY <2>2, <2>3, QuietIsCurrent DEF Changes!ProjectEventsInv
  <1>1. ASSUME NEW s \in unpublished, Changes!publish(s) PROVE Changes!ProjectEventsInv'
    <2>1. /\ unpublished' = unpublished \ {s} /\ UNCHANGED <<Changes!database, stream, drops,
               events, Changes!observer, Changes!queries>>
          /\ \/ stream = "down" /\ UNCHANGED <<channel, lagged>>
             \/ Len(channel) < Capacity /\ channel' = Append(channel, s) /\ UNCHANGED lagged
             \/ Len(channel) >= Capacity /\ channel' = Append(Tail(channel), s) /\ lagged' = TRUE
      BY <1>1, <1>t DEF Changes!publish
    <2>2. channel' \in Seq(SUBSET Objects) /\ Len(channel') <= Capacity /\ lagged' \in BOOLEAN
      <3>0. s \in SUBSET Objects BY <1>t
      <3>1. CASE UNCHANGED <<channel, lagged>> BY <1>t, <3>1
      <3>2. CASE Len(channel) < Capacity /\ channel' = Append(channel, s) /\ UNCHANGED lagged
        BY <1>t, <3>0, <3>2
      <3>3. CASE Len(channel) >= Capacity /\ channel' = Append(Tail(channel), s) /\ lagged' = TRUE
        <4>1. channel # <<>> BY <1>t, <3>3
        <4>2. Tail(channel) \in Seq(SUBSET Objects) /\ Len(Tail(channel)) = Len(channel) - 1
          BY <1>t, <4>1
        <4>3. PICK c \in Seq(SUBSET Objects) : c = Tail(channel) BY <4>2
        <4>4. channel' = Append(c, s) /\ Len(c) = Len(channel) - 1 BY <3>3, <4>2, <4>3
        <4>5. channel' \in Seq(SUBSET Objects) /\ Len(channel') = Len(channel) BY <1>t, <3>0, <4>4
        <4> QED BY <1>t, <3>3, <4>5
      <3> QED BY <2>1, <3>1, <3>2, <3>3
    <2>3. ASSUME NEW N \in SUBSET Objects, Changes!Coming(N) PROVE Changes!Coming(N)'
      <3>1. UNCHANGED <<stream, events, pending>> BY <2>1 DEF Changes!observer
      <3>2. CASE stream = "down" BY <3>1, <3>2 DEF Changes!Coming
      <3>3. CASE channel' = Append(channel, s) /\ lagged' = lagged
        <4>1. /\ \A k \in 1..Len(channel) : k \in 1..Len(channel') /\ channel'[k] = channel[k]
              /\ Len(channel') \in 1..Len(channel') /\ channel'[Len(channel')] = s
          BY <1>t, <3>3
        <4>2. CASE N \subseteq s BY <4>1, <4>2 DEF Changes!Coming
        <4>3. CASE ~(N \subseteq s) BY <2>1, <2>3, <3>1, <3>3, <4>1, <4>3 DEF Changes!Coming
        <4> QED BY <4>2, <4>3
      <3>4. CASE lagged' = TRUE BY <3>4 DEF Changes!Coming
      <3> QED BY <2>1, <3>2, <3>3, <3>4
    <2> QED BY <1>p, <1>q, <1>t, <2>1, <2>2, <2>3 DEF Changes!observer
  <1>2. CASE Changes!Connect \/ Changes!Break
    <2>1. /\ stream' # "up" /\ stream' \in {"down", "opening", "up"} /\ channel' = <<>>
               /\ lagged' = FALSE
          /\ UNCHANGED <<Changes!database, unpublished, Changes!observer, Changes!queries>>
          /\ events' = events \/ events' = <<>>
          /\ drops' \in 0..MaxDrops
      BY <1>2, <1>t DEF Changes!Connect, Changes!Break
    <2>2. \A N \in SUBSET Objects : Changes!Coming(N)' BY <2>1 DEF Changes!Coming
    <2>3. channel' \in Seq(SUBSET Objects) /\ Len(channel') <= Capacity
         /\ events' \in Seq(SUBSET Objects)
      <3>1. <<>> \in Seq(SUBSET Objects) /\ Len(<<>>) = 0 OBVIOUS
      <3>2. channel' \in Seq(SUBSET Objects) /\ Len(channel') = 0 BY <2>1, <3>1
      <3>3. events' \in Seq(SUBSET Objects) BY <1>t, <2>1, <3>1
      <3> QED BY <1>t, <3>2, <3>3
    <2> QED BY <1>p, <1>q, <1>t, <2>1, <2>2, <2>3 DEF Changes!observer
  <1>3. CASE Changes!Open \/ Changes!Forward
    <2>1. /\ UNCHANGED <<Changes!database, unpublished, drops, Changes!observer,
               Changes!queries>> /\ stream' = "up"
          /\ \/ events' = Append(events, Objects) /\ UNCHANGED channel
               /\ lagged' \in {lagged, FALSE}
             \/ /\ events' = Append(events, Head(channel)) /\ channel # <<>>
                  /\ channel' = Tail(channel)
                /\ UNCHANGED <<lagged, stream>>
      BY <1>3, <1>t DEF Changes!Open, Changes!Forward
    <2>2. CASE events' = Append(events, Objects) /\ UNCHANGED channel /\ lagged' \in {lagged, FALSE}
      <3>1. Len(events') \in 1..Len(events') /\ events'[Len(events')] = Objects
           /\ events' \in Seq(SUBSET Objects)
        BY <1>t, <2>2
      <3>2. \A N \in SUBSET Objects : Changes!Coming(N)' BY <3>1 DEF Changes!Coming
      <3> QED BY <1>p, <1>q, <1>t, <2>1, <2>2, <3>1, <3>2 DEF Changes!observer
    <2>3. CASE /\ events' = Append(events, Head(channel)) /\ channel # <<>>
                    /\ channel' = Tail(channel)
               /\ UNCHANGED <<lagged, stream>>
      <3>1. /\ events' \in Seq(SUBSET Objects) /\ channel' \in Seq(SUBSET Objects)
                 /\ Len(channel') <= Capacity
        BY <1>t, <2>3
      <3>2. /\ \A k \in 1..Len(events) : k \in 1..Len(events') /\ events'[k] = events[k]
            /\ Len(events') \in 1..Len(events') /\ events'[Len(events')] = channel[1]
            /\ \A k \in 1..Len(channel) : k = 1 \/ (k - 1 \in 1..Len(channel')
                 /\ channel'[k - 1] = channel[k])
        BY <1>t, <2>3
      <3>3. ASSUME NEW N \in SUBSET Objects, Changes!Coming(N) PROVE Changes!Coming(N)'
        <4>1. UNCHANGED <<stream, lagged, unpublished, pending>> BY <2>1, <2>3 DEF Changes!observer
        <4>2. CASE \E k \in 1..Len(channel) : N \subseteq channel[k]
          <5>1. PICK k \in 1..Len(channel) : N \subseteq channel[k] BY <4>2
          <5>2. CASE k = 1 BY <3>2, <5>1, <5>2 DEF Changes!Coming
          <5>3. CASE k # 1 BY <3>2, <5>1, <5>3 DEF Changes!Coming
          <5> QED BY <5>2, <5>3
        <4>3. CASE \E k \in 1..Len(events) : N \subseteq events[k]
          BY <3>2, <4>3 DEF Changes!Coming
        <4> QED BY <3>3, <4>1, <4>2, <4>3 DEF Changes!Coming
      <3> QED BY <1>p, <1>q, <1>t, <2>1, <2>3, <3>1, <3>3 DEF Changes!observer
    <2> QED BY <2>1, <2>2, <2>3
  <1>4. CASE Changes!refresh
    <2>1. /\ events # <<>> /\ events' = Tail(events)
          /\ pending' = (IF pending = None THEN {} ELSE pending) \cup Head(events)
          /\ stage' = IF stage = "idle" THEN "next" ELSE stage
          /\ UNCHANGED <<Changes!database, unpublished, channel, lagged, stream, drops, scope,
               prior, Changes!queries>>
      BY <1>4 DEF Changes!refresh, Changes!backend
    <2>2. events' \in Seq(SUBSET Objects) /\ Head(events) \in SUBSET Objects
         /\ Head(events) = events[1]
      BY <1>t, <2>1
    <2>3. pending' \in SUBSET Objects /\ Head(events) \subseteq pending' /\ (pending # None
         => pending \subseteq pending')
      <3>1. CASE pending = None BY <2>1, <2>2, <3>1
      <3>2. CASE pending # None
        <4>1. pending \in SUBSET Objects BY ONLY <1>u, <3>2
        <4>2. pending' = pending \cup Head(events) BY <2>1, <3>2
        <4> QED BY <2>2, <4>1, <4>2
      <3> QED BY <3>1, <3>2
    <2>4. pending' # None BY <1>p, <2>3
    <2>5. \A k \in 1..Len(events) : k = 1 \/ (k - 1 \in 1..Len(events')
         /\ events'[k - 1] = events[k])
      BY <1>t, <2>1
    <2>6. ASSUME NEW N \in SUBSET Objects, Changes!Coming(N) PROVE Changes!Coming(N)'
      <3>1. CASE \E k \in 1..Len(events) : N \subseteq events[k]
        <4>1. PICK k \in 1..Len(events) : N \subseteq events[k] BY <3>1
        <4>2. CASE k = 1 BY <2>2, <2>3, <2>4, <4>1, <4>2 DEF Changes!Coming
        <4>3. CASE k # 1 BY <2>5, <4>1, <4>3 DEF Changes!Coming
        <4> QED BY <4>2, <4>3
      <3>2. CASE pending # None /\ N \subseteq pending
        BY <2>3, <2>4, <3>2 DEF Changes!Coming
      <3> QED BY <2>1, <2>6, <3>1, <3>2 DEF Changes!Coming
    <2> QED BY <1>p, <1>q, <1>t, <2>1, <2>2, <2>3, <2>4, <2>6
  <1>5. CASE Changes!EndRefresh
    <2>1. /\ stage = "rest" /\ stage' = IF pending = None THEN "idle" ELSE "next"
          /\ UNCHANGED <<Changes!database, unpublished, channel, lagged, stream, drops, events,
               pending, scope, prior, Changes!queries>>
      BY <1>5 DEF Changes!EndRefresh, Changes!backend
    <2>2. \A N \in SUBSET Objects : Changes!Coming(N) => Changes!Coming(N)'
      BY <2>1 DEF Changes!Coming
    <2> QED BY <1>q, <1>t, <2>1, <2>2
  <1> QED BY <1>1, <1>2, <1>3, <1>4, <1>5

\* A commit changes what the queries it announces would read.
LEMMA WriteKeeps ==
  ASSUME Changes!QueriesAssumption, Changes!BoundsAssumption, Changes!ProjectEventsInv,
         NEW O \in SUBSET Objects, NEW a \in Changes!States, Changes!Write(O, a),
         a = analysis \/ O = {Tabs, Analysis}
  PROVE  Changes!ProjectEventsInv'
  <1>0. Changes!TypeOK /\ Changes!ChangesAreTold /\ Changes!OutputIsListed
    BY DEF Changes!ProjectEventsInv
  <1>c. /\ commits \in Nat /\ drops \in Nat /\ MaxCommits \in Nat
        /\ commits + drops < MaxCommits /\ commits' = commits + 1
    BY <1>0 DEF Changes!Write, Changes!TypeOK, Changes!BoundsAssumption
  <1>1. /\ commits \in Nat /\ commits < MaxCommits /\ commits' = commits + 1 /\ analysis' = a
        /\ version' = [q \in Queries |-> IF Names[q] \cap Changes!Reached(O) # {}
             THEN commits + 1 ELSE version[q]]
        /\ unpublished' = unpublished \cup {Changes!closure(O)}
        /\ UNCHANGED <<channel, lagged, stream, drops, events, pending, stage, scope, prior,
                       displayed, cache, invalid, fetch>>
        /\ MaxCommits \in Nat
    BY <1>0, <1>c DEF Changes!Write, Changes!observer, Changes!queries, Changes!TypeOK,
         Changes!BoundsAssumption
  <1>2. Changes!closure(O) = Changes!Reached(O) /\ Changes!closure(O) \in SUBSET Objects
       /\ O \subseteq Changes!closure(O)
    BY Announced
  <1>3. \A N \in SUBSET Objects : Changes!Coming(N) => Changes!Coming(N)' BY <1>1 DEF Changes!Coming
  <1>4. \A N \in SUBSET Objects : N \subseteq Changes!closure(O) => Changes!Coming(N)'
    BY <1>1 DEF Changes!Coming
  <1>5. Changes!TypeOK'
    <2>1. version' \in [Queries -> 0..MaxCommits]
      <3>1. version \in [Queries -> 0..MaxCommits] BY <1>0 DEF Changes!TypeOK
      <3>2. commits + 1 \in 0..MaxCommits BY <1>1
      <3> QED BY <1>1, <3>1, <3>2
    <2>2. commits' \in 0..MaxCommits BY <1>1
    <2>3. unpublished' \subseteq SUBSET Objects BY <1>0, <1>1, <1>2 DEF Changes!TypeOK
    <2> QED BY <1>0, <1>1, <2>1, <2>2, <2>3 DEF Changes!TypeOK
  <1>6. {Tabs, Analysis} \in SUBSET Objects BY DEF Changes!QueriesAssumption
  <1>7. analysis' # analysis => Changes!Coming({Tabs, Analysis})' BY <1>1, <1>2, <1>4, <1>6
  <1>8. \A q \in Queries : (Changes!Told(q) => Changes!Told(q)') /\ (Changes!Refreshing(q)
       => Changes!Refreshing(q)')
    BY <1>1, <1>3 DEF Changes!Told, Changes!Refreshing, Changes!QueriesAssumption
  <1>9. ASSUME NEW q \in Queries PROVE Changes!Current(q)' = Changes!Current(q) \/ Changes!Told(q)'
    <2>1. Names[q] \subseteq Objects /\ version[q] \in 0..MaxCommits
      BY <1>0 DEF Changes!QueriesAssumption, Changes!TypeOK
    <2>2. CASE Names[q] \cap Changes!Reached(O) # {}
      <3>1. PICK n \in Names[q] : n \in Changes!closure(O) BY <1>2, <2>2
      <3>2. Changes!Coming({n})' BY <1>4, <2>1, <3>1
      <3> QED BY <3>1, <3>2 DEF Changes!Told
    <2>3. CASE Names[q] \cap Changes!Reached(O) = {}
      <3>1. version'[q] = version[q] BY <1>1, <2>3
      <3>2. CASE a = analysis BY <1>1, <3>1, <3>2 DEF Changes!Current
      <3>3. CASE O = {Tabs, Analysis} /\ Kind[q] \in {"tabs", "output"}
        <4>1. Names[q] \cap O # {} BY <3>3 DEF Changes!QueriesAssumption
        <4> QED BY <1>2, <2>3, <4>1
      <3>4. CASE Kind[q] \notin {"tabs", "output"} BY <3>1, <3>4 DEF Changes!Current
      <3> QED BY <3>2, <3>3, <3>4
    <2> QED BY <2>2, <2>3
  <1>10. Changes!ChangesAreTold'
    <2>1. stage' = "idle" => pending' = None BY <1>0, <1>1 DEF Changes!ChangesAreTold
    <2> SUFFICES ASSUME NEW q \in Queries
                 PROVE  /\ fetch'[q] = Changes!Answer(None) => Kind[q] = "output"
                        /\ \A x \in Changes!Value \cup {None} : fetch'[q] = Changes!Answer(x)
                             /\ x # Changes!Current(q)' => Changes!Told(q)'
                        /\ cache'[q] \notin {None, Changes!Current(q)'}
                             /\ Changes!Current(q)' # None =>
                             Changes!Told(q)' \/ fetch'[q] # Changes!Idle \/ Changes!Refreshing(q)'
                             \/ (q \notin displayed' /\ q \in invalid')
      BY <2>1 DEF Changes!ChangesAreTold
    <2>2. CASE Changes!Told(q)' BY <1>0, <1>1, <2>2 DEF Changes!ChangesAreTold
    <2>3. CASE ~Changes!Told(q)'
      <3>1. Changes!Current(q)' = Changes!Current(q) /\ ~Changes!Told(q) BY <1>8, <1>9, <2>3
      <3> QED BY <1>0, <1>1, <1>8, <3>1 DEF Changes!ChangesAreTold
    <2> QED BY <2>2, <2>3
  <1>11. Changes!OutputIsListed'
    <2>1. Changes!Listed' = Changes!Listed BY <1>1 DEF Changes!Listed
    <2>2. CASE Changes!Coming({Tabs, Analysis})'
      <3>1. Changes!ToldOfAnalysis' BY <2>2 DEF Changes!ToldOfAnalysis
      <3> QED BY <1>0, <1>1, <2>1, <2>2, <3>1 DEF Changes!OutputIsListed
    <2>3. CASE ~Changes!Coming({Tabs, Analysis})'
      <3>1. analysis' = analysis /\ ~Changes!Coming({Tabs, Analysis}) BY <1>3, <1>6, <1>7, <2>3
      <3>2. Changes!ToldOfAnalysis => Changes!ToldOfAnalysis'
        BY <1>1, <3>1 DEF Changes!ToldOfAnalysis
      <3> QED BY <1>0, <1>1, <2>1, <3>1, <3>2 DEF Changes!OutputIsListed
    <2> QED BY <2>2, <2>3
  <1> QED BY <1>5, <1>10, <1>11, QuietIsCurrent DEF Changes!ProjectEventsInv

LEMMA DatabaseKeeps ==
  ASSUME Changes!QueriesAssumption, Changes!BoundsAssumption, Changes!ProjectEventsInv,
         (\E o \in Objects : Changes!commit(o))
         \/ Changes!FinishRun \/ Changes!Clear \/ Changes!DeleteTab
  PROVE  Changes!ProjectEventsInv'
  <1>1. analysis \in Changes!States BY DEF Changes!ProjectEventsInv, Changes!TypeOK
  <1>2. {Tabs, Analysis} \in SUBSET Objects BY DEF Changes!QueriesAssumption
  <1>3. ASSUME NEW o \in Objects, Changes!commit(o) PROVE Changes!ProjectEventsInv'
    <2>1. Changes!Write({o}, analysis) /\ {o} \in SUBSET Objects BY <1>3 DEF Changes!commit
    <2> QED BY <1>1, <2>1, WriteKeeps
  <1>4. CASE Changes!FinishRun \/ Changes!Clear \/ Changes!DeleteTab
    <2>1. PICK a \in Changes!States : Changes!Write({Tabs, Analysis}, a)
      BY <1>4 DEF Changes!FinishRun, Changes!Clear, Changes!DeleteTab, Changes!States
    <2> QED BY <1>2, <2>1, WriteKeeps
  <1> QED BY <1>3, <1>4

\* The observer takes a scope up: what was read before it is dropped.
LEMMA TakeKeeps ==
  ASSUME Changes!QueriesAssumption, Changes!BoundsAssumption, Changes!ProjectEventsInv,
       Changes!TakeNext
  PROVE  Changes!ProjectEventsInv'
  <1>0. Changes!TypeOK /\ Changes!ChangesAreTold /\ Changes!OutputIsListed
    BY DEF Changes!ProjectEventsInv
  <1> DEFINE before == [q \in Queries |-> IF Changes!affectedQuery(q, pending)
       THEN Changes!Idle ELSE fetch[q]]
             hit == {q \in Changes!InStage("tabs") : Changes!affectedQuery(q, pending)}
             again == {q \in hit : q \in displayed \/ cache[q] # None}
  <1>1. /\ stage = "next" /\ pending # None /\ scope' = pending /\ pending' = None
             /\ prior' = Changes!Listed /\ stage' = "tabs"
        /\ UNCHANGED <<version, analysis, commits, unpublished, channel, lagged, stream, drops,
             events, displayed, cache>>
        /\ invalid' = invalid \cup hit
        /\ fetch' = [q \in Queries |-> IF q \in again THEN Changes!Sent ELSE before[q]]
    BY DEF Changes!TakeNext, Changes!Invalidate, Changes!database, Changes!backend
  <1>2. hit \subseteq Queries /\ \A q \in Queries : q \in hit <=> Kind[q] = "tabs"
       /\ Names[q] \cap pending # {}
    BY DEF Changes!InStage, Changes!affectedQuery
  <1>3. \A q \in Queries :
          /\ (Kind[q] = "tabs" /\ Names[q] \cap pending # {}
               /\ (q \in displayed \/ cache[q] # None)) => fetch'[q] = Changes!Sent
          /\ ~(Kind[q] = "tabs" /\ (q \in displayed \/ cache[q] # None))
               /\ Names[q] \cap pending # {} => fetch'[q] = Changes!Idle
          /\ Names[q] \cap pending = {} => fetch'[q] = fetch[q]
    BY <1>1, <1>2 DEF Changes!affectedQuery
  <1> HIDE DEF before, hit, again
  <1>t. /\ cache \in [Queries -> Changes!Value \cup {None}] /\ pending \in SUBSET Objects
        /\ fetch \in [Queries -> {Changes!Idle, Changes!Sent}
             \cup {Changes!Answer(v) : v \in Changes!Value \cup {None}}]
        /\ displayed \subseteq Queries /\ invalid \subseteq Queries
    <2>1. pending \in SUBSET Objects BY <1>0, <1>1, PendingScope
    <2> QED BY <1>0, <2>1 DEF Changes!TypeOK
  <1>4. Changes!TypeOK'
    <2>1. fetch' \in [Queries -> {Changes!Idle, Changes!Sent}
         \cup {Changes!Answer(v) : v \in Changes!Value \cup {None}}]
      BY <1>1, <1>t DEF before
    <2>2. prior' \subseteq Changes!States
      <3>1. \A x \in Changes!Value : x.a \in Changes!States BY DEF Changes!Value
      <3>2. \A v \in Changes!Listed : v \in Changes!States
        <4> SUFFICES ASSUME NEW t \in Changes!TabList,
             cache[t] # None PROVE cache[t].a \in Changes!States
          BY Listing
        <4>1. t \in Queries BY Listing
        <4> QED BY <1>t, <3>1, <4>1
      <3> QED BY <1>1, <3>2
    <2>3. invalid' \subseteq Queries BY <1>1, <1>2, <1>t
    <2>4. scope' \subseteq Objects /\ pending' = None /\ stage' = "tabs" BY <1>1, <1>t
    <2>5. /\ version \in [Queries -> 0..MaxCommits] /\ analysis \in Changes!States
               /\ commits \in 0..MaxCommits
          /\ unpublished \subseteq SUBSET Objects
          /\ channel \in Seq(SUBSET Objects) /\ Len(channel) <= Capacity
          /\ lagged \in BOOLEAN /\ stream \in {"down", "opening", "up"} /\ drops \in 0..MaxDrops
          /\ events \in Seq(SUBSET Objects)
      BY <1>0 DEF Changes!TypeOK
    <2> QED BY ONLY <1>1, <1>t, <2>1, <2>2, <2>3, <2>4, <2>5 DEF Changes!TypeOK
  <1>5. \A N \in SUBSET Objects : Changes!Coming(N) => Changes!Coming(N)' \/ N \subseteq pending
    BY <1>1 DEF Changes!Coming
  <1>6. {Tabs, Analysis} \in SUBSET Objects BY DEF Changes!QueriesAssumption
  <1>7. ASSUME NEW q \in Queries PROVE Changes!Told(q)
       => Changes!Told(q)' \/ Names[q] \cap pending # {}
    <2>1. Names[q] \subseteq Objects BY DEF Changes!QueriesAssumption
    <2> SUFFICES ASSUME NEW n \in Names[q],
         Changes!Coming({n}) PROVE Changes!Told(q)' \/ n \in pending
      BY DEF Changes!Told
    <2>2. {n} \in SUBSET Objects BY <2>1
    <2> QED BY <1>5, <2>2 DEF Changes!Told
  <1>8. ASSUME NEW q \in Queries PROVE Changes!Current(q)' = Changes!Current(q)
       /\ ~Changes!Refreshing(q)
                                       /\ (Names[q] \cap pending # {} /\ Kind[q] # "tabs"
                                            => Changes!Refreshing(q)')
    BY <1>1 DEF Changes!Current, Changes!Refreshing, Changes!affectedQuery
  <1>9. Changes!ChangesAreTold'
    <2> SUFFICES ASSUME NEW q \in Queries
                 PROVE  /\ fetch'[q] = Changes!Answer(None) => Kind[q] = "output"
                        /\ \A x \in Changes!Value \cup {None} : fetch'[q] = Changes!Answer(x)
                             /\ x # Changes!Current(q)' => Changes!Told(q)'
                        /\ cache'[q] \notin {None, Changes!Current(q)'}
                             /\ Changes!Current(q)' # None =>
                             Changes!Told(q)' \/ fetch'[q] # Changes!Idle \/ Changes!Refreshing(q)'
                             \/ (q \notin displayed' /\ q \in invalid')
      BY <1>1 DEF Changes!ChangesAreTold
    <2>1. CASE Names[q] \cap pending # {}
      <3>1. fetch'[q] \in {Changes!Idle, Changes!Sent} BY <1>3, <2>1
      <3>2. Kind[q] = "tabs" /\ cache[q] # None => fetch'[q] = Changes!Sent BY <1>3, <2>1
      <3> QED BY <1>1, <1>8, <2>1, <3>1, <3>2, Reads
    <2>2. CASE Names[q] \cap pending = {}
      <3>1. fetch'[q] = fetch[q] /\ (Changes!Told(q) => Changes!Told(q)') BY <1>3, <1>7, <2>2
      <3>2. q \in invalid => q \in invalid' BY <1>1
      <3> QED BY <1>0, <1>1, <1>8, <3>1, <3>2 DEF Changes!ChangesAreTold
    <2> QED BY <2>1, <2>2
  <1>10. Changes!OutputIsListed'
    <2>1. Changes!Listed' = Changes!Listed BY <1>1 DEF Changes!Listed
    <2>2. ~Changes!ToldOfAnalysis \/ Changes!Coming({Tabs, Analysis})
      BY <1>1 DEF Changes!ToldOfAnalysis
    <2>3. Changes!ToldOfAnalysis => Changes!ToldOfAnalysis'
      BY <1>1, <1>5, <1>6, <2>2 DEF Changes!ToldOfAnalysis
    <2>4. ASSUME NEW q \in Changes!Outputs
          PROVE  /\ cache'[q] # None \/ fetch'[q] # Changes!Idle => Changes!Listed' # {}
                 /\ analysis' = "empty" /\ (cache'[q] # None \/ fetch'[q] \notin {Changes!Idle,
                      Changes!Sent, Changes!Answer(None)}) =>
                      Changes!ToldOfAnalysis'
      <3>1. q \in Queries /\ Kind[q] = "output" BY <2>4, Listing
      <3>2. fetch'[q] = Changes!Idle \/ fetch'[q] = fetch[q] BY <1>3, <3>1
      <3> QED BY <1>0, <1>1, <2>1, <2>3, <3>2 DEF Changes!OutputIsListed
    <2>5. ASSUME NEW t \in Changes!TabList
          PROVE  /\ cache'[t] # None /\ cache'[t].a # analysis' =>
                      Changes!Coming({Tabs, Analysis})' \/ (Changes!ToldOfAnalysis'
                           /\ fetch'[t] # Changes!Idle)
                 /\ \A x \in Changes!Value : fetch'[t] = Changes!Answer(x) /\ x.a # analysis'
                      => Changes!Coming({Tabs, Analysis})'
      <3>1. t \in Queries /\ Kind[t] = "tabs" /\ Tabs \in Names[t]
        BY <2>5, Listing DEF Changes!QueriesAssumption
      <3>2. CASE {Tabs, Analysis} \subseteq pending
        <4>1. Names[t] \cap pending # {} BY <3>1, <3>2
        <4>2. cache[t] # None => fetch'[t] = Changes!Sent BY <1>3, <3>1, <4>1
        <4>3. fetch'[t] \in {Changes!Idle, Changes!Sent} BY <1>3, <3>1, <4>1
        <4>4. Changes!ToldOfAnalysis' BY <1>1, <3>2 DEF Changes!ToldOfAnalysis
        <4> QED BY <1>1, <4>2, <4>3, <4>4, Reads
      <3>3. CASE ~({Tabs, Analysis} \subseteq pending)
        <4>1. Changes!Coming({Tabs, Analysis}) => Changes!Coming({Tabs, Analysis})'
          BY <1>5, <1>6, <3>3
        <4>2. fetch'[t] \in {Changes!Idle, Changes!Sent, fetch[t]} BY <1>3, <3>1
        <4> QED BY <1>0, <1>1, <2>2, <2>5, <4>1, <4>2, Reads DEF Changes!OutputIsListed
      <3> QED BY <3>2, <3>3
    <2>6. displayed' \cap Changes!Outputs # {} => Changes!Listed' = {"output"}
      BY <1>0, <1>1, <2>1 DEF Changes!OutputIsListed
    <2> QED BY <2>4, <2>5, <2>6 DEF Changes!OutputIsListed
  <1> QED BY <1>4, <1>9, <1>10, QuietIsCurrent DEF Changes!ProjectEventsInv

\* The refresh moves on: what the next stage affects is read again, and output
\* that has been cleared leaves the cache.
LEMMA StageKeeps ==
  ASSUME Changes!QueriesAssumption, Changes!BoundsAssumption, Changes!ProjectEventsInv,
       Changes!NextStage
  PROVE  Changes!ProjectEventsInv'
  <1>0. Changes!TypeOK /\ Changes!ChangesAreTold /\ Changes!OutputIsListed
    BY DEF Changes!ProjectEventsInv
  <1> DEFINE k == Changes!After(stage)
             removed == IF stage = "tabs" THEN Changes!Ghosts ELSE {}
             hit == {q \in Changes!InStage(k) : Changes!affectedQuery(q, scope)}
             again == {q \in hit : q \in displayed \/ (k = "tabs" /\ cache[q] # None)}
  <1>1. /\ stage \in {"tabs", "schema", "manifest"} /\ stage' = k
        /\ \A q \in Changes!InStage(stage) : Changes!affectedQuery(q, scope)
             => fetch[q] = Changes!Idle
        /\ cache' = [q \in Queries |-> IF q \in removed THEN None ELSE cache[q]]
        /\ invalid' = (invalid \ removed) \cup hit
        /\ fetch' = [q \in Queries |-> IF q \in again THEN Changes!Sent
                                         ELSE [p \in Queries |-> IF p \in removed
                                              THEN Changes!Idle ELSE fetch[p]][q]]
        /\ UNCHANGED <<version, analysis, commits, unpublished, channel, lagged, stream, drops,
             events,
                       pending, scope, prior, displayed>>
    BY DEF Changes!NextStage, Changes!Settled, Changes!Invalidate, Changes!database, Changes!backend
  <1>2. /\ k \in {"schema", "manifest", "rest"} /\ (stage = "tabs" => k = "schema")
        /\ (stage = "schema" => k = "manifest") /\ (stage = "manifest" => k = "rest")
    BY <1>1 DEF Changes!After
  <1>3. \A q \in Queries : q \in hit <=> (Kind[q] = k \/ (k = "rest" /\ Kind[q] = "output"))
       /\ Names[q] \cap scope # {}
    BY DEF Changes!InStage, Changes!affectedQuery
  <1>4. \A q \in Queries : q \in removed => Kind[q] = "output" /\ stage = "tabs"
    BY Listing DEF Changes!Ghosts
  <1>5. \A q \in Queries :
          /\ q \in hit /\ q \in displayed => fetch'[q] = Changes!Sent
          /\ q \in removed => fetch'[q] = Changes!Idle /\ cache'[q] = None
          /\ q \notin removed => cache'[q] = cache[q] /\ (q \in invalid => q \in invalid')
          /\ q \notin removed => fetch'[q] = fetch[q] \/ (fetch'[q] = Changes!Sent
               /\ q \in displayed /\ q \in hit)
          /\ q \in hit => q \in invalid'
    <2> SUFFICES ASSUME NEW q \in Queries
                 PROVE  /\ q \in hit /\ q \in displayed => fetch'[q] = Changes!Sent
                        /\ q \in removed => fetch'[q] = Changes!Idle /\ cache'[q] = None
                        /\ q \notin removed => cache'[q] = cache[q] /\ (q \in invalid
                             => q \in invalid')
                        /\ q \notin removed => fetch'[q] = fetch[q] \/ (fetch'[q] = Changes!Sent
                             /\ q \in displayed /\ q \in hit)
                        /\ q \in hit => q \in invalid'
      OBVIOUS
    <2>1. q \in again <=> q \in hit /\ q \in displayed BY <1>2
    <2>2. fetch'[q] = IF q \in again THEN Changes!Sent ELSE IF q \in removed THEN Changes!Idle
         ELSE fetch[q]
      BY <1>1
    <2>3. cache'[q] = IF q \in removed THEN None ELSE cache[q] BY <1>1
    <2>4. ~(q \in removed /\ q \in hit) BY <1>2, <1>3, <1>4
    <2> HIDE DEF again, hit, removed, k
    <2> QED BY <1>1, <2>1, <2>2, <2>3, <2>4
  <1>t. /\ cache \in [Queries -> Changes!Value \cup {None}]
        /\ fetch \in [Queries -> {Changes!Idle, Changes!Sent}
             \cup {Changes!Answer(v) : v \in Changes!Value \cup {None}}]
        /\ displayed \subseteq Queries /\ invalid \subseteq Queries
    BY <1>0 DEF Changes!TypeOK
  <1>6. Changes!TypeOK'
    <2>1. fetch' \in [Queries -> {Changes!Idle, Changes!Sent}
         \cup {Changes!Answer(v) : v \in Changes!Value \cup {None}}]
      <3>1. DOMAIN fetch' = Queries /\ fetch' = [q \in Queries |-> fetch'[q]] BY <1>1
      <3>2. \A q \in Queries : fetch'[q] \in {fetch[q], Changes!Idle, Changes!Sent} BY <1>5
      <3> QED BY <1>t, <3>1, <3>2
    <2>2. cache' \in [Queries -> Changes!Value \cup {None}] BY <1>1, <1>t
    <2>3. invalid' \subseteq Queries
      <3>1. hit \subseteq Queries BY DEF Changes!InStage
      <3> QED BY <1>1, <1>t, <3>1
    <2>4. stage' \in {"schema", "manifest", "rest"} BY <1>1, <1>2
    <2>5. /\ version \in [Queries -> 0..MaxCommits] /\ analysis \in Changes!States
               /\ commits \in 0..MaxCommits
          /\ unpublished \subseteq SUBSET Objects
          /\ channel \in Seq(SUBSET Objects) /\ Len(channel) <= Capacity
          /\ lagged \in BOOLEAN /\ stream \in {"down", "opening", "up"} /\ drops \in 0..MaxDrops
          /\ events \in Seq(SUBSET Objects)
          /\ pending \in (SUBSET Objects) \cup {None} /\ scope \subseteq Objects
               /\ prior \subseteq Changes!States
      BY <1>0 DEF Changes!TypeOK
    <2>6. /\ UNCHANGED <<version, analysis, commits, unpublished, channel, lagged, stream, drops>>
          /\ UNCHANGED <<events, pending, scope, prior, displayed>>
      BY <1>1
    <2> QED BY ONLY <1>t, <2>1, <2>2, <2>3, <2>4, <2>5, <2>6 DEF Changes!TypeOK
  <1> HIDE DEF k, removed, hit, again
  <1>7. \A N : Changes!Coming(N) <=> Changes!Coming(N)' BY <1>1 DEF Changes!Coming
  <1>8. \A q \in Queries : (Changes!Told(q) => Changes!Told(q)')
       /\ Changes!Current(q)' = Changes!Current(q)
    BY <1>1, <1>7 DEF Changes!Told, Changes!Current
  <1>9. \A q \in Queries : Changes!Refreshing(q) => Changes!Refreshing(q)' \/ q \in hit
    BY <1>1, <1>2, <1>3 DEF Changes!Refreshing, Changes!affectedQuery, Changes!QueriesAssumption
  <1>10. Changes!ChangesAreTold'
    <2> SUFFICES ASSUME NEW q \in Queries
                 PROVE  /\ fetch'[q] = Changes!Answer(None) => Kind[q] = "output"
                        /\ \A x \in Changes!Value \cup {None} : fetch'[q] = Changes!Answer(x)
                             /\ x # Changes!Current(q)' => Changes!Told(q)'
                        /\ cache'[q] \notin {None, Changes!Current(q)'}
                             /\ Changes!Current(q)' # None =>
                             Changes!Told(q)' \/ fetch'[q] # Changes!Idle \/ Changes!Refreshing(q)'
                             \/ (q \notin displayed' /\ q \in invalid')
      BY <1>1, <1>2 DEF Changes!ChangesAreTold
    <2>1. CASE q \in removed BY <1>5, <2>1, Reads
    <2>2. CASE q \notin removed
      <3>1. cache'[q] = cache[q] /\ (q \in invalid => q \in invalid') /\ displayed' = displayed
        BY <1>1, <1>5, <2>2
      <3>2. CASE fetch'[q] = Changes!Sent /\ q \in hit BY <3>2, Reads
      <3>3. CASE fetch'[q] = fetch[q]
        <4>1. q \in hit => fetch'[q] = Changes!Sent \/ (q \notin displayed' /\ q \in invalid')
          BY <1>5, <3>1
        <4> QED BY <1>0, <1>8, <1>9, <3>1, <3>3, <4>1, Reads DEF Changes!ChangesAreTold
      <3> QED BY <1>5, <2>2, <3>2, <3>3
    <2> QED BY <2>1, <2>2
  <1>11. Changes!OutputIsListed'
    <2>1. \A t \in Changes!TabList : cache'[t] = cache[t]
         /\ (fetch'[t] = fetch[t] \/ fetch'[t] = Changes!Sent)
      BY <1>4, <1>5, Listing
    <2>2. Changes!Listed' = Changes!Listed BY <2>1 DEF Changes!Listed
    <2>3. displayed' \cap Changes!Outputs # {} => Changes!Listed' = {"output"}
      BY <1>0, <1>1, <2>2 DEF Changes!OutputIsListed
    <2>4. ASSUME stage = "tabs", {Tabs,
         Analysis} \subseteq scope PROVE \A t \in Changes!TabList : fetch[t] = Changes!Idle
      <3> SUFFICES ASSUME NEW t \in Changes!TabList PROVE fetch[t] = Changes!Idle OBVIOUS
      <3>1. t \in Queries /\ Kind[t] = "tabs" /\ Tabs \in Names[t]
        BY Listing DEF Changes!QueriesAssumption
      <3>2. t \in Changes!InStage(stage) /\ Changes!affectedQuery(t, scope)
        BY <2>4, <3>1 DEF Changes!InStage, Changes!affectedQuery
      <3> QED BY <1>1, <3>2
    <2>5. ASSUME NEW t \in Changes!TabList, cache[t] # None,
         cache[t].a # analysis PROVE Changes!Coming({Tabs, Analysis})'
      <3>1. CASE Changes!Coming({Tabs, Analysis}) BY <1>7, <3>1
      <3>2. CASE ~Changes!Coming({Tabs, Analysis})
        <4>1. Changes!ToldOfAnalysis /\ fetch[t] # Changes!Idle
          BY <1>0, <2>5, <3>2 DEF Changes!OutputIsListed
        <4> QED BY <2>4, <3>2, <4>1 DEF Changes!ToldOfAnalysis
      <3> QED BY <3>1, <3>2
    <2>6. ASSUME NEW t \in Changes!TabList, NEW x \in Changes!Value,
         fetch'[t] = Changes!Answer(x), x.a # analysis'
          PROVE  Changes!Coming({Tabs, Analysis})'
      <3>1. fetch[t] = Changes!Answer(x) BY <2>1, <2>6, Reads
      <3>2. x.a # analysis BY <1>1, <2>6
      <3>3. Changes!Coming({Tabs, Analysis}) BY <1>0, <3>1, <3>2 DEF Changes!OutputIsListed
      <3> QED BY <1>7, <3>3
    <2>7. ASSUME NEW q \in Changes!Outputs,
         cache'[q] # None \/ fetch'[q] # Changes!Idle PROVE Changes!Listed' # {}
      <3>1. q \in Queries BY Listing
      <3>2. q \notin removed BY <1>5, <2>7, <3>1
      <3>3. CASE q \in displayed
        <4>1. Changes!Listed = {"output"} BY <1>0, <3>3 DEF Changes!OutputIsListed
        <4> QED BY <2>2, <4>1
      <3>4. CASE q \notin displayed
        BY <1>0, <1>5, <2>2, <2>7, <3>1, <3>2, <3>4 DEF Changes!OutputIsListed
      <3> QED BY <3>3, <3>4
    <2>8. ASSUME NEW q \in Changes!Outputs, analysis' = "empty",
         cache'[q] # None \/ fetch'[q] \notin {Changes!Idle, Changes!Sent, Changes!Answer(None)}
          PROVE  Changes!ToldOfAnalysis'
      <3>1. q \in Queries BY Listing
      <3>2. q \notin removed /\ cache'[q] = cache[q] /\ (fetch'[q] \notin {Changes!Idle,
           Changes!Sent, Changes!Answer(None)} => fetch'[q] = fetch[q])
        BY <1>5, <2>8, <3>1
      <3>3. Changes!ToldOfAnalysis BY <1>0, <1>1, <2>8, <3>2 DEF Changes!OutputIsListed
      <3>4. CASE Changes!Coming({Tabs, Analysis}) BY <1>7, <3>4 DEF Changes!ToldOfAnalysis
      <3>5. CASE ~Changes!Coming({Tabs, Analysis})
        <4>1. stage = "tabs" BY <3>3, <3>5 DEF Changes!ToldOfAnalysis
        <4>2. \A t \in Changes!TabList : cache[t] # None => cache[t].a = "empty"
          BY <1>1, <1>7, <2>5, <2>8, <3>5
        <4>3. Changes!Listed # {}
          <5>1. cache[q] # None \/ fetch[q] # Changes!Idle BY <2>8, <3>2
          <5> QED BY <1>0, <5>1 DEF Changes!OutputIsListed
        <4>4. "empty" \in Changes!Listed BY <4>2, <4>3, Listing
        <4>5. q \in removed BY <2>8, <4>1, <4>4 DEF removed, Changes!Ghosts
        <4> QED BY <3>2, <4>5
      <3> QED BY <3>4, <3>5
    <2> QED BY <1>1, <2>1, <2>3, <2>5, <2>6, <2>7, <2>8 DEF Changes!OutputIsListed
  <1> QED BY <1>6, <1>10, <1>11, QuietIsCurrent DEF Changes!ProjectEventsInv

\* Views come and go, and the backend reads.
LEMMA ViewsKeep ==
  ASSUME Changes!QueriesAssumption, Changes!BoundsAssumption, Changes!ProjectEventsInv,
       NEW q \in Queries,
         Changes!Mount(q) \/ Changes!Unmount(q) \/ Changes!Read(q)
  PROVE  Changes!ProjectEventsInv'
  <1>0. Changes!TypeOK /\ Changes!ChangesAreTold /\ Changes!OutputIsListed
    BY DEF Changes!ProjectEventsInv
  <1>t. /\ cache \in [Queries -> Changes!Value \cup {None}]
        /\ fetch \in [Queries -> {Changes!Idle, Changes!Sent}
             \cup {Changes!Answer(v) : v \in Changes!Value \cup {None}}]
        /\ displayed \subseteq Queries /\ invalid \subseteq Queries
    BY <1>0 DEF Changes!TypeOK
  <1>1. /\ UNCHANGED <<version, analysis, commits, unpublished, channel, lagged, stream, drops,
             events>>
        /\ UNCHANGED <<pending, stage, scope, prior, cache, invalid>>
    BY DEF Changes!Mount, Changes!Unmount, Changes!Read, Changes!database, Changes!backend,
         Changes!observer
  <1>2. /\ \A p \in Queries \ {q} : fetch'[p] = fetch[p] /\ (p \in displayed' <=> p \in displayed)
        /\ fetch' \in [Queries -> {Changes!Idle, Changes!Sent}
             \cup {Changes!Answer(v) : v \in Changes!Value \cup {None}}]
        /\ displayed' \subseteq Queries
        /\ \/ fetch'[q] = fetch[q] /\ (q \in displayed' => q \in displayed)
           \/ fetch[q] = Changes!Sent /\ fetch'[q] = Changes!Answer(Changes!Current(q))
                /\ displayed' = displayed
           \/ /\ q \in displayed' /\ (q \in Changes!Outputs => Changes!Listed = {"output"})
              /\ fetch'[q] = fetch[q] \/ fetch'[q] = Changes!Sent
              /\ cache[q] = None \/ q \in invalid => fetch'[q] # Changes!Idle
    <2>1. CASE Changes!Mount(q)
      <3>1. fetch' = fetch \/ fetch' = [fetch EXCEPT ![q] = IF fetch[q] = Changes!Idle
           THEN Changes!Sent ELSE fetch[q]]
        BY <2>1 DEF Changes!Mount
      <3>2. displayed' = displayed \cup {q} /\ (q \in Changes!Outputs
           => Changes!Listed = {"output"})
            /\ (cache[q] = None \/ q \in invalid => fetch'[q] # Changes!Idle)
        BY <2>1 DEF Changes!Mount
      <3> QED BY <1>t, <3>1, <3>2
    <2>2. CASE Changes!Unmount(q) BY <1>t, <2>2 DEF Changes!Unmount
    <2>3. CASE Changes!Read(q)
      <3>1. Changes!Current(q) \in Changes!Value \cup {None} BY <1>0, Answers
      <3> QED BY <1>t, <2>3, <3>1 DEF Changes!Read
    <2> QED BY <2>1, <2>2, <2>3
  <1>3. Changes!TypeOK' BY <1>0, <1>1, <1>2 DEF Changes!TypeOK
  <1>4. \A N : Changes!Coming(N) <=> Changes!Coming(N)' BY <1>1 DEF Changes!Coming
  <1>5. \A p \in Queries : (Changes!Told(p) => Changes!Told(p)')
       /\ Changes!Current(p)' = Changes!Current(p) /\ (Changes!Refreshing(p)
       => Changes!Refreshing(p)')
    BY <1>1, <1>4 DEF Changes!Told, Changes!Current, Changes!Refreshing, Changes!affectedQuery
  <1>6. Changes!ChangesAreTold'
    <2> SUFFICES ASSUME NEW p \in Queries
                 PROVE  /\ fetch'[p] = Changes!Answer(None) => Kind[p] = "output"
                        /\ \A x \in Changes!Value \cup {None} : fetch'[p] = Changes!Answer(x)
                             /\ x # Changes!Current(p)' => Changes!Told(p)'
                        /\ cache'[p] \notin {None, Changes!Current(p)'}
                             /\ Changes!Current(p)' # None =>
                             Changes!Told(p)' \/ fetch'[p] # Changes!Idle \/ Changes!Refreshing(p)'
                             \/ (p \notin displayed' /\ p \in invalid')
      BY <1>0, <1>1 DEF Changes!ChangesAreTold
    <2>1. CASE p # q
      <3>1. fetch'[p] = fetch[p] /\ (p \in displayed' <=> p \in displayed) BY <1>2, <2>1
      <3> QED BY <1>0, <1>1, <1>5, <3>1 DEF Changes!ChangesAreTold
    <2>2. CASE p = q
      <3>0. Kind[q] # "output" => Changes!Current(q) # None
        BY <1>0, Answers DEF Changes!QueriesAssumption
      <3>1. CASE fetch'[q] = fetch[q] /\ (q \in displayed' => q \in displayed)
        BY <1>0, <1>1, <1>5, <2>2, <3>1 DEF Changes!ChangesAreTold
      <3>2. CASE fetch'[q] = Changes!Answer(Changes!Current(q))
        BY <1>5, <2>2, <3>0, <3>2, Reads
      <3>3. CASE /\ fetch'[q] = fetch[q] \/ fetch'[q] = Changes!Sent
                 /\ cache[q] = None \/ q \in invalid => fetch'[q] # Changes!Idle
        BY <1>0, <1>1, <1>5, <2>2, <3>3, Reads DEF Changes!ChangesAreTold
      <3> QED BY <1>2, <3>1, <3>2, <3>3
    <2> QED BY <2>1, <2>2
  <1>7. Changes!OutputIsListed'
    <2>1. Changes!Listed' = Changes!Listed BY <1>1 DEF Changes!Listed
    <2>2. Changes!ToldOfAnalysis <=> Changes!ToldOfAnalysis'
      BY <1>1, <1>4 DEF Changes!ToldOfAnalysis
    <2>3. displayed' \cap Changes!Outputs # {} => Changes!Listed' = {"output"}
      <3> SUFFICES ASSUME NEW p \in displayed',
           p \in Changes!Outputs PROVE Changes!Listed = {"output"}
        BY <2>1
      <3>1. CASE p \in displayed BY <1>0, <3>1 DEF Changes!OutputIsListed
      <3>2. CASE p \notin displayed BY <1>2, <3>2
      <3> QED BY <3>1, <3>2
    <2>4. ASSUME NEW p \in Changes!Outputs
          PROVE  /\ cache'[p] # None \/ fetch'[p] # Changes!Idle => Changes!Listed' # {}
                 /\ analysis' = "empty" /\ (cache'[p] # None \/ fetch'[p] \notin {Changes!Idle,
                      Changes!Sent, Changes!Answer(None)}) =>
                      Changes!ToldOfAnalysis'
      <3>1. p \in Queries /\ Kind[p] = "output" BY Listing
      <3>2. analysis = "empty" => Changes!Current(p) = None BY <1>0, <3>1, Answers
      <3>3. CASE fetch'[p] = fetch[p] BY <1>0, <1>1, <2>1, <2>2, <3>3 DEF Changes!OutputIsListed
      <3>4. CASE p = q /\ fetch[q] = Changes!Sent /\ fetch'[q] = Changes!Answer(Changes!Current(q))
        BY <1>0, <1>1, <2>1, <2>2, <3>2, <3>4, Reads DEF Changes!OutputIsListed
      <3>5. CASE p = q /\ Changes!Listed = {"output"} /\ fetch'[q] = Changes!Sent
        BY <1>0, <1>1, <2>1, <2>2, <3>5 DEF Changes!OutputIsListed
      <3> QED BY <1>2, <3>1, <3>3, <3>4, <3>5
    <2>5. ASSUME NEW t \in Changes!TabList
          PROVE  /\ cache'[t] # None /\ cache'[t].a # analysis' =>
                      Changes!Coming({Tabs, Analysis})' \/ (Changes!ToldOfAnalysis'
                           /\ fetch'[t] # Changes!Idle)
                 /\ \A x \in Changes!Value : fetch'[t] = Changes!Answer(x) /\ x.a # analysis'
                      => Changes!Coming({Tabs, Analysis})'
      <3>1. t \in Queries /\ Kind[t] = "tabs" BY Listing
      <3>2. Changes!Current(t).a = analysis BY <1>0, <3>1, Answers
      <3>3. CASE fetch'[t] = fetch[t] BY <1>0, <1>1, <1>4, <2>2, <3>3 DEF Changes!OutputIsListed
      <3>4. CASE t = q /\ fetch'[t] = Changes!Answer(Changes!Current(t)) /\ fetch[t] # Changes!Idle
        BY <1>0, <1>1, <1>4, <2>2, <3>2, <3>4, Reads DEF Changes!OutputIsListed
      <3>5. CASE fetch'[t] = Changes!Sent
        BY <1>0, <1>1, <1>4, <2>2, <3>5, Reads DEF Changes!OutputIsListed
      <3> QED BY <1>2, <3>1, <3>3, <3>4, <3>5, Reads
    <2> QED BY <2>3, <2>4, <2>5 DEF Changes!OutputIsListed
  <1> QED BY <1>3, <1>6, <1>7, QuietIsCurrent DEF Changes!ProjectEventsInv

\* An answer arrives: one from before a change has been announced since.
LEMMA DeliverKeeps ==
  ASSUME Changes!QueriesAssumption, Changes!BoundsAssumption, Changes!ProjectEventsInv,
       NEW q \in Queries, Changes!Deliver(q)
  PROVE  Changes!ProjectEventsInv'
  <1>0. Changes!TypeOK /\ Changes!ChangesAreTold /\ Changes!OutputIsListed
    BY DEF Changes!ProjectEventsInv
  <1>t. /\ cache \in [Queries -> Changes!Value \cup {None}]
        /\ fetch \in [Queries -> {Changes!Idle, Changes!Sent}
             \cup {Changes!Answer(v) : v \in Changes!Value \cup {None}}]
        /\ displayed \subseteq Queries /\ invalid \subseteq Queries
    BY <1>0 DEF Changes!TypeOK
  <1>1. PICK x \in Changes!Value \cup {None} : fetch[q] = Changes!Answer(x)
    <2>1. fetch[q] \in {Changes!Answer(v) : v \in Changes!Value \cup {None}}
      BY <1>t DEF Changes!Deliver
    <2> QED BY <2>1
  <1>2. /\ UNCHANGED <<version, analysis, commits, unpublished, channel, lagged, stream, drops,
             events>>
        /\ UNCHANGED <<pending, stage, scope, prior>>
        /\ fetch' = [fetch EXCEPT ![q] = Changes!Idle]
        /\ cache' = [cache EXCEPT ![q] = IF x = None THEN cache[q] ELSE x]
        /\ invalid' = IF x = None THEN invalid \cup {q} ELSE invalid \ {q}
        /\ displayed' = IF q \in Changes!TabList /\ x.a # "output"
             THEN displayed \ Changes!Outputs ELSE displayed
    BY <1>1, Reads DEF Changes!Deliver, Changes!database, Changes!backend, Changes!observer
  <1>3. Kind[q] # "output" => x \in Changes!Value
    BY <1>0, <1>1 DEF Changes!ChangesAreTold
  <1>4. Changes!TypeOK'
    <2>1. cache' \in [Queries -> Changes!Value \cup {None}] BY <1>2, <1>t
    <2>2. fetch' \in [Queries -> {Changes!Idle, Changes!Sent}
         \cup {Changes!Answer(v) : v \in Changes!Value \cup {None}}]
      BY <1>2, <1>t
    <2>3. displayed' \subseteq Queries /\ invalid' \subseteq Queries BY <1>2, <1>t
    <2> QED BY <1>0, <1>2, <2>1, <2>2, <2>3 DEF Changes!TypeOK
  <1>5. \A N : Changes!Coming(N) <=> Changes!Coming(N)' BY <1>2 DEF Changes!Coming
  <1>6. \A p \in Queries : (Changes!Told(p) => Changes!Told(p)')
       /\ Changes!Current(p)' = Changes!Current(p) /\ (Changes!Refreshing(p)
       => Changes!Refreshing(p)')
    BY <1>2, <1>5 DEF Changes!Told, Changes!Current, Changes!Refreshing, Changes!affectedQuery
  <1>7. Changes!ToldOfAnalysis <=> Changes!ToldOfAnalysis' BY <1>2, <1>5 DEF Changes!ToldOfAnalysis
  <1>8. /\ \A p \in Queries \ {q} : /\ cache'[p] = cache[p] /\ fetch'[p] = fetch[p]
                                    /\ p \in invalid' <=> p \in invalid
                                    /\ p \in displayed' => p \in displayed
        /\ fetch'[q] = Changes!Idle /\ (x # None => cache'[q] = x) /\ (x = None
             => cache'[q] = cache[q] /\ q \in invalid')
    BY <1>2, <1>t
  <1>9. Changes!ChangesAreTold'
    <2> SUFFICES ASSUME NEW p \in Queries
                 PROVE  /\ fetch'[p] = Changes!Answer(None) => Kind[p] = "output"
                        /\ \A y \in Changes!Value \cup {None} : fetch'[p] = Changes!Answer(y)
                             /\ y # Changes!Current(p)' => Changes!Told(p)'
                        /\ cache'[p] \notin {None, Changes!Current(p)'}
                             /\ Changes!Current(p)' # None =>
                             Changes!Told(p)' \/ fetch'[p] # Changes!Idle \/ Changes!Refreshing(p)'
                             \/ (p \notin displayed' /\ p \in invalid')
      BY <1>0, <1>2 DEF Changes!ChangesAreTold
    <2>1. CASE p # q
      <3>1. /\ cache'[p] = cache[p] /\ fetch'[p] = fetch[p] /\ (p \in invalid => p \in invalid')
            /\ p \notin displayed => p \notin displayed'
        BY <1>8, <2>1
      <3> QED BY <1>0, <1>6, <3>1 DEF Changes!ChangesAreTold
    <2>2. CASE p = q
      <3>1. x # Changes!Current(q) => Changes!Told(q) BY <1>0, <1>1 DEF Changes!ChangesAreTold
      <3>2. fetch'[q] = Changes!Idle BY <1>8
      <3>3. cache'[q] # None /\ cache'[q] # Changes!Current(q) /\ Changes!Current(q) # None
           => x # Changes!Current(q)
        BY <1>8
      <3> QED BY <1>6, <2>2, <3>1, <3>2, <3>3, Reads
    <2> QED BY <2>1, <2>2
  <1>10. Changes!OutputIsListed'
    <2>1. ASSUME q \notin Changes!TabList PROVE Changes!OutputIsListed'
      <3>1. \A t \in Changes!TabList : cache'[t] = cache[t] /\ fetch'[t] = fetch[t]
        BY <1>8, <2>1, Listing
      <3>2. Changes!Listed' = Changes!Listed BY <3>1 DEF Changes!Listed
      <3>3. displayed' = displayed BY <1>2, <2>1
      <3>4. ASSUME NEW p \in Changes!Outputs
            PROVE  /\ cache'[p] # None \/ fetch'[p] # Changes!Idle => Changes!Listed' # {}
                   /\ analysis' = "empty" /\ (cache'[p] # None \/ fetch'[p] \notin {Changes!Idle,
                        Changes!Sent, Changes!Answer(None)}) =>
                        Changes!ToldOfAnalysis'
        <4>1. CASE p # q
          <5>1. cache'[p] = cache[p] /\ fetch'[p] = fetch[p] BY <1>8, <4>1, Listing
          <5> QED BY <1>0, <1>2, <1>7, <3>2, <5>1 DEF Changes!OutputIsListed
        <4>2. CASE p = q
          <5>1. fetch[q] # Changes!Idle BY <1>1, Reads
          <5>2. Changes!Listed' # {} BY <1>0, <3>2, <4>2, <5>1 DEF Changes!OutputIsListed
          <5>3. CASE x = None
            <6>1. cache'[q] = cache[q] /\ fetch'[q] = Changes!Idle BY <1>8, <5>3
            <6> QED BY <1>0, <1>2, <1>7, <4>2, <5>2, <6>1 DEF Changes!OutputIsListed
          <5>4. CASE x # None
            <6>1. fetch[q] \notin {Changes!Idle, Changes!Sent, Changes!Answer(None)}
              BY <1>1, <5>4, Reads
            <6> QED BY <1>0, <1>2, <1>7, <4>2, <5>2, <6>1 DEF Changes!OutputIsListed
          <5> QED BY <5>3, <5>4
        <4> QED BY <4>1, <4>2
      <3> QED BY <1>0, <1>2, <1>5, <1>7, <3>1, <3>2, <3>3, <3>4 DEF Changes!OutputIsListed
    <2>2. ASSUME q \in Changes!TabList PROVE Changes!OutputIsListed'
      <3>0. q \in Queries /\ Kind[q] = "tabs" /\ x \in Changes!Value /\ x # None
        BY <1>3, <2>2, Listing DEF Changes!QueriesAssumption
      <3>1. cache'[q] = x /\ fetch'[q] = Changes!Idle BY <1>8, <3>0
      <3>2. \A t \in Changes!TabList \ {q} : cache'[t] = cache[t] /\ fetch'[t] = fetch[t]
        BY <1>8, Listing
      <3>3. x.a \in Changes!Listed' BY <2>2, <3>0, <3>1, ListingNext
      <3>4. \A v : v \in Changes!Listed' => v = x.a \/ v \in Changes!Listed
        BY <3>1, <3>2, Listing, ListingNext
      <3>5. displayed' \cap Changes!Outputs # {} => Changes!Listed' = {"output"}
        <4>1. CASE x.a # "output" BY <1>2, <2>2, <4>1
        <4>2. CASE x.a = "output"
          <5>1. displayed' = displayed BY <1>2, <4>2
          <5> QED BY <1>0, <3>3, <3>4, <4>2, <5>1 DEF Changes!OutputIsListed
        <4> QED BY <4>1, <4>2
      <3>6. ASSUME NEW p \in Changes!Outputs
            PROVE  /\ cache'[p] # None \/ fetch'[p] # Changes!Idle => Changes!Listed' # {}
                   /\ analysis' = "empty" /\ (cache'[p] # None \/ fetch'[p] \notin {Changes!Idle,
                        Changes!Sent, Changes!Answer(None)}) =>
                        Changes!ToldOfAnalysis'
        <4>1. p # q /\ p \in Queries BY <3>0, Listing
        <4>2. cache'[p] = cache[p] /\ fetch'[p] = fetch[p] BY <1>8, <4>1
        <4> QED BY <1>0, <1>2, <1>7, <3>3, <4>2 DEF Changes!OutputIsListed
      <3>7. ASSUME NEW t \in Changes!TabList
            PROVE  /\ cache'[t] # None /\ cache'[t].a # analysis' =>
                        Changes!Coming({Tabs, Analysis})' \/ (Changes!ToldOfAnalysis'
                             /\ fetch'[t] # Changes!Idle)
                   /\ \A y \in Changes!Value : fetch'[t] = Changes!Answer(y) /\ y.a # analysis'
                        => Changes!Coming({Tabs, Analysis})'
        <4>1. CASE t # q
          <5>1. cache'[t] = cache[t] /\ fetch'[t] = fetch[t] BY <3>2, <4>1
          <5> QED BY <1>0, <1>2, <1>5, <1>7, <5>1 DEF Changes!OutputIsListed
        <4>2. CASE t = q
          <5>1. x.a # analysis => Changes!Coming({Tabs, Analysis})
            BY <1>0, <1>1, <2>2, <3>0 DEF Changes!OutputIsListed
          <5> QED BY <1>2, <1>5, <3>1, <4>2, <5>1, Reads
        <4> QED BY <4>1, <4>2
      <3> QED BY <3>5, <3>6, <3>7 DEF Changes!OutputIsListed
    <2> QED BY <2>1, <2>2
  <1> QED BY <1>4, <1>9, <1>10, QuietIsCurrent DEF Changes!ProjectEventsInv

LEMMA ChangesInit ==
  ASSUME Changes!QueriesAssumption, Changes!BoundsAssumption, Changes!Init
  PROVE  Changes!ProjectEventsInv
  <1>1. /\ stream = "down" /\ pending = None /\ stage = "idle" /\ displayed = {}
        /\ cache = [q \in Queries |-> None] /\ fetch = [q \in Queries |-> Changes!Idle]
    BY DEF Changes!Init
  <1>2. Changes!TypeOK
    <2>1. version \in [Queries -> 0..MaxCommits] /\ commits \in 0..MaxCommits
         /\ drops \in 0..MaxDrops
      BY DEF Changes!Init, Changes!BoundsAssumption
    <2>2. channel \in Seq(SUBSET Objects) /\ Len(channel) <= Capacity
         /\ events \in Seq(SUBSET Objects)
      BY DEF Changes!Init, Changes!BoundsAssumption
    <2>3. analysis \in Changes!States /\ scope \subseteq Objects /\ prior \subseteq Changes!States
          /\ unpublished \subseteq SUBSET Objects /\ invalid \subseteq Queries
      BY DEF Changes!Init, Changes!States
    <2>4. lagged \in BOOLEAN BY DEF Changes!Init
    <2> QED BY <1>1, <2>1, <2>2, <2>3, <2>4 DEF Changes!TypeOK
  <1>3. Changes!ChangesAreTold BY <1>1, Reads DEF Changes!ChangesAreTold
  <1>4. Changes!OutputIsListed BY <1>1, Listing, Reads DEF Changes!OutputIsListed
  <1>5. Changes!ShownIsCurrent /\ Changes!HiddenIsMarked
    BY <1>1 DEF Changes!ShownIsCurrent, Changes!HiddenIsMarked, Changes!Quiet
  <1> QED BY <1>2, <1>3, <1>4, <1>5 DEF Changes!ProjectEventsInv

LEMMA ChangesNext ==
  ASSUME Changes!QueriesAssumption, Changes!BoundsAssumption, Changes!ProjectEventsInv, Changes!Next
  PROVE  Changes!ProjectEventsInv'
  <1>1. CASE (\E s \in unpublished : Changes!publish(s)) \/ Changes!Connect \/ Changes!Open
             \/ Changes!Forward \/ Changes!Break \/ Changes!refresh \/ Changes!EndRefresh
    BY <1>1, PathKeeps
  <1>2. CASE (\E o \in Objects : Changes!commit(o))
             \/ Changes!FinishRun \/ Changes!Clear \/ Changes!DeleteTab
    BY <1>2, DatabaseKeeps
  <1>3. CASE Changes!TakeNext BY <1>3, TakeKeeps
  <1>4. CASE Changes!NextStage BY <1>4, StageKeeps
  <1>5. ASSUME NEW q \in Queries,
       Changes!Mount(q) \/ Changes!Unmount(q) \/ Changes!Read(q) \/ Changes!Deliver(q)
        PROVE  Changes!ProjectEventsInv'
    BY <1>5, ViewsKeep, DeliverKeeps
  <1> QED BY <1>1, <1>2, <1>3, <1>4, <1>5 DEF Changes!Next

LEMMA ChangesStutter ==
  ASSUME Changes!ProjectEventsInv, UNCHANGED changes
  PROVE  Changes!ProjectEventsInv'
  <1>1. /\ UNCHANGED <<version, analysis, commits, unpublished, channel, lagged, stream, drops>>
        /\ UNCHANGED <<events, pending, stage, scope, prior, displayed, cache, invalid, fetch>>
    BY DEF changes
  <1>2. Changes!TypeOK' BY <1>1 DEF Changes!ProjectEventsInv, Changes!TypeOK
  <1>3. /\ \A N : Changes!Coming(N)' <=> Changes!Coming(N)
        /\ Changes!Listed' = Changes!Listed
        /\ \A q : Changes!Current(q)' = Changes!Current(q)
        /\ \A q : Changes!Refreshing(q)' <=> Changes!Refreshing(q)
    BY <1>1 DEF Changes!Coming, Changes!Listed, Changes!Current, Changes!Refreshing
  <1>4. /\ \A q : Changes!Told(q)' <=> Changes!Told(q)
        /\ Changes!ToldOfAnalysis' <=> Changes!ToldOfAnalysis
    BY <1>1, <1>3 DEF Changes!Told, Changes!ToldOfAnalysis
  <1>5. Changes!ChangesAreTold'
    BY <1>1, <1>3, <1>4 DEF Changes!ProjectEventsInv, Changes!ChangesAreTold
  <1>6. Changes!OutputIsListed'
    BY <1>1, <1>3, <1>4 DEF Changes!ProjectEventsInv, Changes!OutputIsListed
  <1>7. Changes!ShownIsCurrent' /\ Changes!HiddenIsMarked'
    BY <1>1, <1>3 DEF Changes!ProjectEventsInv, Changes!ShownIsCurrent, Changes!HiddenIsMarked,
       Changes!Quiet
  <1> QED BY <1>2, <1>5, <1>6, <1>7 DEF Changes!ProjectEventsInv

\* Whatever is committed, lost with a connection, pushed out of the channel or
\* collected during a refresh: when all of it has been worked off, every view
\* shows what the project holds, and what no view shows is current or marked.
THEOREM ViewsStayCurrent == Spec => []ViewsAreCurrent
  <1>0. Changes!QueriesAssumption /\ Changes!BoundsAssumption BY SessionsAssumption
  <1>1. ASSUME Init PROVE ViewsAreCurrent
    BY <1>0, <1>1, ChangesInit DEF Init, ViewsAreCurrent
  <1>2. ASSUME ViewsAreCurrent, [Next]_vars PROVE ViewsAreCurrent'
    <2>0. part' = part BY <1>2 DEF Next, vars
    <2>1. ASSUME part = "changes" PROVE Changes!ProjectEventsInv'
      <3>0. Changes!ProjectEventsInv BY <1>2, <2>1 DEF ViewsAreCurrent
      <3>1. Changes!Next \/ UNCHANGED changes BY <1>2, <2>1 DEF Next, vars
      <3>2. CASE UNCHANGED changes BY <3>0, <3>2, ChangesStutter
      <3>3. CASE Changes!Next BY <1>0, <3>0, <3>3, ChangesNext
      <3> QED BY <3>1, <3>2, <3>3
    <2> QED BY <2>0, <2>1 DEF ViewsAreCurrent
  <1> QED BY <1>1, <1>2, PTL DEF Spec

(* ----------------------------- Cell editing ----------------------------- *)

\* A completion is a record of a session.
LEMMA CompletionsTyped ==
  ASSUME Cell!TypeOK
  PROVE  \A i \in DOMAIN completed : completed[i] \in Cell!Completion
       /\ completed[i].id \in Sessions
  <1>1. completed \in Seq(Cell!Completion) BY DEF Cell!TypeOK
  <1>2. \A i \in DOMAIN completed : completed[i] \in Cell!Completion BY <1>1
  <1>3. \A x \in Cell!Completion : x.id \in Sessions BY DEF Cell!Completion
  <1> QED BY <1>2, <1>3

\* A step in which an editor sends nothing and hears nothing.
LEMMA ScreenKeeps ==
  ASSUME Cell!CellEditInv, UNCHANGED <<call, sent, finished, Cell!net, Cell!server>>,
         draft' \in [Sessions -> SUBSET Edits], asking' \in [Sessions -> BOOLEAN],
         navigating' \in BOOLEAN,
         \/ view' = view
         \/ \E s \in Sessions : view[s] = "starting" /\ view' = [view EXCEPT ![s] = "dropped"]
  PROVE  Cell!CellEditInv'
  <1>0. /\ Cell!TypeOK /\ Cell!RequestsFit /\ Cell!CallsFit /\ Cell!RepliesFit
             /\ Cell!CompletionsTrue /\ Cell!DiscardedIsOver
        /\ Cell!AppliedOnce /\ Cell!ToldTheTruth /\ Cell!TableHeldByLiveSession
    BY DEF Cell!CellEditInv
  <1>1. /\ UNCHANGED <<call, sent, finished, inbox, replies, sessions, completed, applied>>
        /\ \A s \in Sessions : Cell!busy(s)' <=> Cell!busy(s)
    BY DEF Cell!net, Cell!server, Cell!busy
  <1>2. /\ view' \in [Sessions -> {"none", "starting", "open", "gone", "dropped"}]
        /\ \A s \in Sessions : view'[s] = view[s] \/ (view[s] = "starting" /\ view'[s] = "dropped")
    <2>1. view \in [Sessions -> {"none", "starting", "open", "gone", "dropped"}]
      BY <1>0 DEF Cell!TypeOK
    <2>2. CASE view' = view BY <2>1, <2>2
    <2>3. CASE view' # view
      <3>1. PICK s \in Sessions : view[s] = "starting" /\ view' = [view EXCEPT ![s] = "dropped"]
        BY <2>3
      <3> QED BY <2>1, <3>1
    <2> QED BY <2>2, <2>3
  <1>3. Cell!TypeOK'
    <2>1. asking' \in [Sessions -> BOOLEAN] /\ navigating' \in BOOLEAN OBVIOUS
    <2> QED BY <1>0, <1>1, <1>2, <2>1, Zenon DEF Cell!TypeOK
  <1>4. Cell!RequestsFit'
    <2>1. \A r \in inbox : r.id \in Sessions BY <1>0 DEF Cell!TypeOK, Cell!Request
    <2> QED BY <1>0, <1>1, <1>2, <2>1 DEF Cell!RequestsFit
  <1>5. Cell!CallsFit' BY <1>0, <1>1, <1>2 DEF Cell!CallsFit
  <1>6. Cell!RepliesFit'
    <2>1. \A r \in replies : r.id \in Sessions BY <1>0 DEF Cell!TypeOK, Cell!Reply
    <2> QED BY <1>0, <1>1, <2>1 DEF Cell!RepliesFit
  <1>7. Cell!CompletionsTrue'
    <2>1. \A i \in DOMAIN completed : completed[i].id \in Sessions BY <1>0, CompletionsTyped
    <2> QED BY <1>0, <1>1, <1>2, <2>1 DEF Cell!CompletionsTrue
  <1>8. Cell!DiscardedIsOver' /\ Cell!AppliedOnce' /\ Cell!ToldTheTruth'
       /\ Cell!TableHeldByLiveSession'
    BY <1>0, <1>1 DEF Cell!DiscardedIsOver, Cell!AppliedOnce, Cell!ToldTheTruth,
         Cell!TableHeldByLiveSession
  <1> QED BY <1>3, <1>4, <1>5, <1>6, <1>7, <1>8 DEF Cell!CellEditInv

\* An editor sends a request.
LEMMA SendKeeps ==
  ASSUME Cell!SessionsAssumption, Cell!KeptAssumption, Cell!CellEditInv, NEW s \in Sessions,
         NEW o \in {"begin", "save", "cancel"}, NEW b \in SUBSET Edits,
         Cell!Send(s, o, b), ~Cell!busy(s), UNCHANGED <<draft, finished, replies, Cell!server>>,
         asking' \in [Sessions -> BOOLEAN], navigating' \in BOOLEAN,
         \/ o = "begin" /\ b = {} /\ view[s] = "none" /\ view' = [view EXCEPT ![s] = "starting"]
         \/ o # "begin" /\ view[s] = "open" /\ view' = view
  PROVE  Cell!CellEditInv'
  <1>0. /\ Cell!TypeOK /\ Cell!RequestsFit /\ Cell!CallsFit /\ Cell!RepliesFit
             /\ Cell!CompletionsTrue /\ Cell!DiscardedIsOver
        /\ Cell!AppliedOnce /\ Cell!ToldTheTruth /\ Cell!TableHeldByLiveSession
    BY DEF Cell!CellEditInv
  <1> DEFINE asked == [id |-> s, n |-> sent[s] + 1, op |-> o, body |-> b]
  <1>1. /\ UNCHANGED <<draft, finished, replies, sessions, completed, applied>>
        /\ sent[s] < MaxCalls /\ sent' = [sent EXCEPT ![s] = @ + 1]
        /\ inbox' = inbox \cup {asked} /\ call' = [call EXCEPT ![s] = asked]
    BY DEF Cell!Send, Cell!server
  <1>2. /\ asked \in Cell!Request /\ asked.id = s /\ asked.op = o /\ asked.body = b
        /\ asked.n = sent[s] + 1 /\ asked # NoCall
    <2>1. sent[s] \in 0..MaxCalls /\ MaxCalls \in Nat BY <1>0 DEF Cell!TypeOK, Cell!KeptAssumption
    <2>2. sent[s] + 1 \in 1..MaxCalls BY <1>1, <2>1
    <2>3. asked \in Cell!Request BY <2>2 DEF Cell!Request
    <2> QED BY <2>3 DEF Cell!KeptAssumption
  <1> HIDE DEF asked
  <1>3. /\ view' \in [Sessions -> {"none", "starting", "open", "gone", "dropped"}]
        /\ \A p \in Sessions : p # s => view'[p] = view[p]
        /\ view'[s] = IF o = "begin" THEN "starting" ELSE "open"
        /\ view[s] = IF o = "begin" THEN "none" ELSE "open"
    <2>1. view \in [Sessions -> {"none", "starting", "open", "gone", "dropped"}]
      BY <1>0 DEF Cell!TypeOK
    <2>2. CASE o = "begin" /\ view[s] = "none" /\ view' = [view EXCEPT ![s] = "starting"]
      BY <2>1, <2>2
    <2>3. CASE o # "begin" /\ view[s] = "open" /\ view' = view BY <2>1, <2>3
    <2> QED BY <2>2, <2>3
  <1>4. /\ call' \in [Sessions -> Cell!Request \cup {NoCall}] /\ sent' \in [Sessions -> 0..MaxCalls]
        /\ call'[s] = asked /\ sent'[s] = sent[s] + 1
        /\ \A p \in Sessions : p # s => call'[p] = call[p] /\ sent'[p] = sent[p]
    <2>1. call \in [Sessions -> Cell!Request \cup {NoCall}] /\ sent \in [Sessions -> 0..MaxCalls]
      BY <1>0 DEF Cell!TypeOK
    <2>2. sent[s] + 1 \in 0..MaxCalls BY <1>1, <2>1 DEF Cell!KeptAssumption
    <2> QED BY <1>1, <1>2, <2>1, <2>2
  <1>5. Cell!TypeOK'
    <2>1. asking' \in [Sessions -> BOOLEAN] /\ navigating' \in BOOLEAN OBVIOUS
    <2>2. inbox' \subseteq Cell!Request BY <1>0, <1>1, <1>2 DEF Cell!TypeOK
    <2> QED BY <1>0, <1>1, <1>3, <1>4, <2>1, <2>2, Zenon DEF Cell!TypeOK
  <1>6. Cell!RequestsFit'
    <2>1. \A r \in inbox : r.id \in Sessions BY <1>0 DEF Cell!TypeOK, Cell!Request
    <2>2. o = "begin" => s \notin sessions /\ applied[s] = <<>> /\ sent[s] = 0
      BY <1>0, <1>3 DEF Cell!CallsFit
    <2> SUFFICES ASSUME NEW r \in inbox'
                 PROVE  IF r.op = "begin"
                        THEN /\ r.n = 1 /\ r.body = {} /\ view'[r.id] \in {"starting", "dropped"}
                             /\ r.id \notin sessions /\ applied[r.id] = <<>>
                        ELSE view'[r.id] \in {"open", "gone"}
      BY <1>1 DEF Cell!RequestsFit
    <2>3. CASE r = asked BY <1>2, <1>3, <2>2, <2>3
    <2>4. CASE r # asked
      <3>1. r \in inbox BY <1>1, <2>4
      <3>2. CASE r.id = s BY <1>0, <1>3, <3>1, <3>2 DEF Cell!RequestsFit
      <3>3. CASE r.id # s BY <1>0, <1>3, <2>1, <3>1, <3>3 DEF Cell!RequestsFit
      <3> QED BY <3>2, <3>3
    <2> QED BY <2>3, <2>4
  <1>7. Cell!CallsFit'
    <2> SUFFICES ASSUME NEW p \in Sessions
                 PROVE  /\ view'[p] = "none" => sent'[p] = 0 /\ ~Cell!busy(p)' /\ p \notin sessions
                                                /\ applied[p] = <<>>
                        /\ view'[p] = "starting" => Cell!busy(p)'
                        /\ view'[p] = "gone" => ~Cell!busy(p)'
                        /\ Cell!busy(p)' => call'[p].id = p /\ (call'[p].op = "begin"
                             <=> view'[p] # "open")
                        /\ Cell!busy(p)' /\ call'[p].op = "begin" => call'[p].n = 1
                             /\ call'[p].body = {}
                        /\ finished[p] # "no" => view'[p] = "gone"
      BY <1>1 DEF Cell!CallsFit
    <2>1. CASE p = s
      <3>1. finished[s] = "no" /\ (o = "begin" => sent[s] = 0) BY <1>0, <1>3 DEF Cell!CallsFit
      <3>2. Cell!busy(s)' BY <1>2, <1>4 DEF Cell!busy
      <3>3. o = "begin" => asked.n = 1 /\ asked.body = {} BY <1>2, <3>1
      <3>4. view'[s] # "none" /\ view'[s] # "gone" /\ (o = "begin" <=> view'[s] # "open") BY <1>3
      <3> QED BY <1>1, <1>2, <1>4, <2>1, <3>1, <3>2, <3>3, <3>4
    <2>2. CASE p # s
      <3>1. (Cell!busy(p)' <=> Cell!busy(p)) /\ view'[p] = view[p] /\ sent'[p] = sent[p]
           /\ call'[p] = call[p]
        BY <1>3, <1>4, <2>2 DEF Cell!busy
      <3> QED BY <1>0, <3>1 DEF Cell!CallsFit
    <2> QED BY <2>1, <2>2
  <1>8. Cell!RepliesFit'
    <2>1. ASSUME NEW r \in replies
          PROVE  /\ Cell!busy(r.id)' /\ call'[r.id] \notin inbox'
                 /\ r.ok /\ call'[r.id].op = "save" => applied[r.id] # <<>>
                 /\ r.ok /\ call'[r.id].op = "cancel" => applied[r.id] = <<>>
                      /\ r.id \notin sessions
      <3>1. r.id \in Sessions BY <1>0 DEF Cell!TypeOK, Cell!Reply
      <3>2. r.id # s BY <1>0 DEF Cell!RepliesFit
      <3>3. call'[r.id] = call[r.id] /\ call[r.id].id = r.id /\ Cell!busy(r.id)
        BY <1>0, <1>4, <3>1, <3>2 DEF Cell!RepliesFit, Cell!CallsFit
      <3>4. call'[r.id] \notin inbox' BY <1>0, <1>1, <1>2, <3>2, <3>3 DEF Cell!RepliesFit
      <3> QED BY <1>0, <3>3, <3>4 DEF Cell!RepliesFit, Cell!busy
    <2> QED BY <1>0, <1>1, <2>1 DEF Cell!RepliesFit
  <1>9. Cell!CompletionsTrue'
    <2>1. \A i \in DOMAIN completed : completed[i].id \in Sessions BY <1>0, CompletionsTyped
    <2>2. \A p \in Sessions : view[p] \in {"open", "gone"} => view'[p] = view[p]
      BY <1>3
    <2> QED BY <1>0, <1>1, <2>1, <2>2 DEF Cell!CompletionsTrue
  <1>10. Cell!DiscardedIsOver' /\ Cell!AppliedOnce' /\ Cell!ToldTheTruth'
       /\ Cell!TableHeldByLiveSession'
    BY <1>0, <1>1 DEF Cell!DiscardedIsOver, Cell!AppliedOnce, Cell!ToldTheTruth,
         Cell!TableHeldByLiveSession
  <1> QED BY <1>5, <1>6, <1>7, <1>8, <1>9, <1>10 DEF Cell!CellEditInv

\* An editor hears of the request it waits for: it failed, its session has begun,
\* or it is over.
LEMMA HearKeeps ==
  ASSUME Cell!CellEditInv, NEW s \in Sessions, Cell!busy(s),
         call' = [call EXCEPT ![s] = NoCall], inbox' \subseteq inbox, replies' \subseteq replies,
         \A r \in replies' : r.id # s, UNCHANGED <<draft, sent, Cell!server>>,
         asking' \in [Sessions -> BOOLEAN], navigating' \in BOOLEAN,
         \/ /\ view' = [view EXCEPT ![s] = IF @ = "starting" THEN "dropped" ELSE @]
            /\ finished' = finished
         \/ /\ call[s].op = "begin" /\ call[s] \notin inbox /\ finished' = finished
            /\ view' = [view EXCEPT ![s] = IF @ = "starting" THEN "open" ELSE @]
         \/ /\ call[s].op # "begin" /\ view' = [view EXCEPT ![s] = "gone"]
            /\ finished' = [finished EXCEPT ![s] = IF call[s].op = "save" THEN "saved"
                 ELSE "discarded"]
            /\ call[s].op = "save" => applied[s] # <<>>
            /\ call[s].op = "cancel" => applied[s] = <<>> /\ s \notin sessions
  PROVE  Cell!CellEditInv'
  <1>0. /\ Cell!TypeOK /\ Cell!RequestsFit /\ Cell!CallsFit /\ Cell!RepliesFit
             /\ Cell!CompletionsTrue /\ Cell!DiscardedIsOver
        /\ Cell!AppliedOnce /\ Cell!ToldTheTruth /\ Cell!TableHeldByLiveSession
    BY DEF Cell!CellEditInv
  <1>1. UNCHANGED <<draft, sent, sessions, completed, applied>> BY DEF Cell!server
  <1>2. /\ view \in [Sessions -> {"none", "starting", "open", "gone", "dropped"}]
        /\ finished \in [Sessions -> {"no", "saved", "discarded"}]
        /\ call \in [Sessions -> Cell!Request \cup {NoCall}]
    BY <1>0 DEF Cell!TypeOK
  <1>3. /\ call[s] \in Cell!Request /\ call[s].op \in {"begin", "save", "cancel"} /\ call[s].id = s
        /\ call[s].op = "begin" <=> view[s] # "open"
        /\ view[s] \in {"starting", "open", "dropped"}
        /\ call[s].op = "begin" => call[s].n = 1 /\ call[s].body = {}
    <2>1. call[s] \in Cell!Request BY <1>2 DEF Cell!busy
    <2>2. call[s].op \in {"begin", "save", "cancel"} BY <2>1 DEF Cell!Request
    <2> QED BY <1>0, <1>2, <2>1, <2>2 DEF Cell!CallsFit
  <1>4. /\ view' \in [Sessions -> {"none", "starting", "open", "gone", "dropped"}]
        /\ finished' \in [Sessions -> {"no", "saved", "discarded"}]
        /\ call' \in [Sessions -> Cell!Request \cup {NoCall}]
        /\ \A p \in Sessions : p # s => view'[p] = view[p] /\ finished'[p] = finished[p]
             /\ call'[p] = call[p]
        /\ call'[s] = NoCall
    BY <1>2
  <1>5. \/ finished'[s] = finished[s] /\ view[s] = "starting" /\ view'[s] = "dropped"
        \/ finished'[s] = finished[s] /\ view[s] # "starting" /\ view'[s] = view[s]
        \/ /\ finished'[s] = finished[s] /\ view[s] = "starting" /\ view'[s] = "open"
           /\ call[s].op = "begin" /\ call[s] \notin inbox
        \/ /\ finished'[s] = IF call[s].op = "save" THEN "saved" ELSE "discarded"
           /\ view[s] = "open" /\ view'[s] = "gone"
           /\ call[s].op = "save" => applied[s] # <<>>
           /\ call[s].op = "cancel" => applied[s] = <<>> /\ s \notin sessions
    BY <1>2, <1>3
  <1>6. Cell!TypeOK'
    <2>1. asking' \in [Sessions -> BOOLEAN] /\ navigating' \in BOOLEAN OBVIOUS
    <2>2. inbox' \subseteq Cell!Request /\ replies' \subseteq Cell!Reply BY <1>0 DEF Cell!TypeOK
    <2> QED BY <1>0, <1>1, <1>4, <2>1, <2>2, Zenon DEF Cell!TypeOK
  <1>7. Cell!RequestsFit'
    <2> SUFFICES ASSUME NEW r \in inbox'
                 PROVE  IF r.op = "begin"
                        THEN /\ r.n = 1 /\ r.body = {} /\ view'[r.id] \in {"starting", "dropped"}
                             /\ r.id \notin sessions /\ applied[r.id] = <<>>
                        ELSE view'[r.id] \in {"open", "gone"}
      BY <1>1 DEF Cell!RequestsFit
    <2>1. r \in inbox /\ r \in Cell!Request /\ r.id \in Sessions
      BY <1>0 DEF Cell!TypeOK, Cell!Request
    <2>2. CASE r.id # s BY <1>0, <1>4, <2>1, <2>2 DEF Cell!RequestsFit
    <2>3. CASE r.id = s /\ r.op # "begin"
      <3>1. view[s] \in {"open", "gone"} BY <1>0, <2>1, <2>3 DEF Cell!RequestsFit
      <3> QED BY <1>5, <2>3, <3>1
    <2>4. CASE r.id = s /\ r.op = "begin"
      <3>1. r.n = 1 /\ r.body = {} /\ view[s] \in {"starting", "dropped"} /\ s \notin sessions
           /\ applied[s] = <<>>
        BY <1>0, <2>1, <2>4 DEF Cell!RequestsFit
      <3>2. call[s].op = "begin" => call[s] = r
        <4>1. \A x \in Cell!Request : x = [id |-> x.id, n |-> x.n, op |-> x.op, body |-> x.body]
          BY DEF Cell!Request
        <4>2. call[s] = [id |-> s, n |-> call[s].n, op |-> call[s].op, body |-> call[s].body]
          BY <1>3, <4>1
        <4>3. r = [id |-> s, n |-> 1, op |-> "begin", body |-> {}]
          BY ONLY <2>1, <2>4, <3>1, <4>1
        <4> QED BY <1>3, <4>2, <4>3
      <3>3. view'[s] \in {"starting", "dropped"} BY <1>5, <2>1, <3>1, <3>2
      <3> QED BY <2>4, <3>1, <3>3
    <2> QED BY <2>2, <2>3, <2>4
  <1>8. Cell!CallsFit'
    <2> SUFFICES ASSUME NEW p \in Sessions
                 PROVE  /\ view'[p] = "none" => sent'[p] = 0 /\ ~Cell!busy(p)' /\ p \notin sessions
                                                /\ applied[p] = <<>>
                        /\ view'[p] = "starting" => Cell!busy(p)'
                        /\ view'[p] = "gone" => ~Cell!busy(p)'
                        /\ Cell!busy(p)' => call'[p].id = p /\ (call'[p].op = "begin"
                             <=> view'[p] # "open")
                        /\ Cell!busy(p)' /\ call'[p].op = "begin" => call'[p].n = 1
                             /\ call'[p].body = {}
                        /\ finished'[p] # "no" => view'[p] = "gone"
      BY <1>1 DEF Cell!CallsFit
    <2>1. CASE p = s
      <3>1. ~Cell!busy(s)' /\ view'[s] \notin {"none", "starting"} BY <1>3, <1>4, <1>5 DEF Cell!busy
      <3>2. finished[s] = "no" BY <1>0, <1>3 DEF Cell!CallsFit
      <3> QED BY <1>5, <2>1, <3>1, <3>2
    <2>2. CASE p # s
      <3>1. /\ Cell!busy(p)' <=> Cell!busy(p)
            /\ view'[p] = view[p] /\ sent'[p] = sent[p] /\ call'[p] = call[p]
                 /\ finished'[p] = finished[p]
        BY <1>1, <1>4, <2>2 DEF Cell!busy
      <3> QED BY <1>0, <3>1 DEF Cell!CallsFit
    <2> QED BY <2>1, <2>2
  <1>9. Cell!RepliesFit'
    <2>1. ASSUME NEW r \in replies'
          PROVE  /\ Cell!busy(r.id)' /\ call'[r.id] \notin inbox'
                 /\ r.ok /\ call'[r.id].op = "save" => applied[r.id] # <<>>
                 /\ r.ok /\ call'[r.id].op = "cancel" => applied[r.id] = <<>>
                      /\ r.id \notin sessions
      <3>1. r \in replies /\ r.id \in Sessions /\ r.id # s BY <1>0 DEF Cell!TypeOK, Cell!Reply
      <3>2. call'[r.id] = call[r.id] BY <1>4, <3>1
      <3> QED BY <1>0, <3>1, <3>2 DEF Cell!RepliesFit, Cell!busy
    <2> QED BY <1>0, <1>1, <2>1 DEF Cell!RepliesFit
  <1>10. Cell!CompletionsTrue'
    <2>1. \A i \in DOMAIN completed : completed[i].id \in Sessions BY <1>0, CompletionsTyped
    <2>2. \A p \in Sessions : view[p] \in {"open", "gone"} => view'[p] \in {"open", "gone"}
      BY <1>4, <1>5
    <2> QED BY <1>0, <1>1, <2>1, <2>2 DEF Cell!CompletionsTrue
  <1>11. Cell!DiscardedIsOver' /\ Cell!ToldTheTruth'
    <2> SUFFICES ASSUME NEW p \in Sessions
                 PROVE  /\ finished'[p] = "discarded" => p \notin sessions /\ applied[p] = <<>>
                        /\ finished'[p] = "saved" => applied[p] # <<>>
      BY <1>1 DEF Cell!DiscardedIsOver, Cell!ToldTheTruth
    <2>1. CASE finished'[p] = finished[p] BY <1>0, <2>1 DEF Cell!DiscardedIsOver, Cell!ToldTheTruth
    <2>2. CASE finished'[p] # finished[p]
      <3>1. p = s BY <1>4, <2>2
      <3> QED BY <1>3, <1>5, <2>2, <3>1
    <2> QED BY <2>1, <2>2
  <1>12. Cell!AppliedOnce' BY <1>0, <1>1 DEF Cell!AppliedOnce
  <1>13. Cell!TableHeldByLiveSession'
    <2> SUFFICES ASSUME NEW p \in sessions PROVE finished'[p] = "no"
      BY <1>0, <1>1 DEF Cell!TableHeldByLiveSession
    <2>1. p \in Sessions /\ applied[p] = <<>> BY <1>0 DEF Cell!TypeOK, Cell!TableHeldByLiveSession
    <2>2. finished'[p] # "saved" /\ finished'[p] # "discarded"
      BY <1>1, <1>11, <2>1 DEF Cell!DiscardedIsOver, Cell!ToldTheTruth
    <2> QED BY <1>4, <2>1, <2>2
  <1> QED BY <1>6, <1>7, <1>8, <1>9, <1>10, <1>11, <1>12, <1>13 DEF Cell!CellEditInv

\* The window goes: every open editor sends its release.
LEMMA PagehideKeeps ==
  ASSUME Cell!SessionsAssumption, Cell!KeptAssumption, Cell!CellEditInv, Cell!pagehide
  PROVE  Cell!CellEditInv'
  <1>0. /\ Cell!TypeOK /\ Cell!RequestsFit /\ Cell!CallsFit /\ Cell!RepliesFit
             /\ Cell!CompletionsTrue /\ Cell!DiscardedIsOver
        /\ Cell!AppliedOnce /\ Cell!ToldTheTruth /\ Cell!TableHeldByLiveSession
    BY DEF Cell!CellEditInv
  <1>1. /\ UNCHANGED <<draft, finished, sessions, completed, applied>>
        /\ \A s \in Cell!Unfinished : sent[s] < MaxCalls
        /\ view' = [s \in Sessions |-> IF view[s] \in {"open", "gone"} THEN "gone" ELSE "dropped"]
        /\ inbox' = inbox \cup {Cell!Release(s) : s \in Cell!Unfinished}
        /\ sent' = [s \in Sessions |-> IF s \in Cell!Unfinished THEN sent[s] + 1 ELSE sent[s]]
        /\ call' = [s \in Sessions |-> NoCall] /\ replies' = {}
        /\ asking' = [s \in Sessions |-> FALSE] /\ navigating' = FALSE
    BY DEF Cell!pagehide, Cell!server
  <1>2. /\ view' \in [Sessions -> {"none", "starting", "open", "gone", "dropped"}]
        /\ \A s \in Sessions : view'[s] = IF view[s] \in {"open", "gone"} THEN "gone" ELSE "dropped"
        /\ \A s \in Sessions : call'[s] = NoCall
        /\ call' \in [Sessions -> Cell!Request \cup {NoCall}] /\ asking' \in [Sessions -> BOOLEAN]
        /\ navigating' \in BOOLEAN /\ replies' \subseteq Cell!Reply
    BY <1>1
  <1>3. sent' \in [Sessions -> 0..MaxCalls]
       /\ \A s \in Cell!Unfinished : sent[s] + 1 \in 1..MaxCalls
    <2>1. sent \in [Sessions -> 0..MaxCalls] /\ MaxCalls \in Nat
      BY <1>0 DEF Cell!TypeOK, Cell!KeptAssumption
    <2>2. \A s \in Cell!Unfinished : s \in Sessions BY DEF Cell!Unfinished
    <2>3. \A s \in Cell!Unfinished : sent[s] + 1 \in 1..MaxCalls BY <1>1, <2>1, <2>2
    <2>4. \A s \in Cell!Unfinished : sent[s] + 1 \in 0..MaxCalls BY <2>1, <2>3
    <2> QED BY <1>1, <2>1, <2>3, <2>4
  <1>4. \A r \in inbox' : r \in inbox \/ (r \in Cell!Request /\ r.op = "cancel"
       /\ view[r.id] = "open")
    <2> SUFFICES ASSUME NEW s \in Cell!Unfinished
                 PROVE  Cell!Release(s) \in Cell!Request /\ Cell!Release(s).op = "cancel"
                      /\ view[Cell!Release(s).id] = "open"
      BY <1>1
    <2>1. s \in Sessions /\ view[s] = "open" BY DEF Cell!Unfinished, Cell!Mounted
    <2>2. sent[s] + 1 \in 1..MaxCalls BY <1>3
    <2> QED BY <2>1, <2>2 DEF Cell!Release, Cell!Request
  <1>5. Cell!TypeOK'
    <2>1. inbox' \subseteq Cell!Request BY <1>0, <1>4 DEF Cell!TypeOK
    <2> QED BY <1>0, <1>1, <1>2, <1>3, <2>1, Zenon DEF Cell!TypeOK
  <1>6. Cell!RequestsFit'
    <2> SUFFICES ASSUME NEW r \in inbox'
                 PROVE  IF r.op = "begin"
                        THEN /\ r.n = 1 /\ r.body = {} /\ view'[r.id] \in {"starting", "dropped"}
                             /\ r.id \notin sessions /\ applied[r.id] = <<>>
                        ELSE view'[r.id] \in {"open", "gone"}
      BY <1>1 DEF Cell!RequestsFit
    <2>1. r.id \in Sessions BY <1>5 DEF Cell!TypeOK, Cell!Request
    <2>2. CASE r \in inbox BY <1>0, <1>2, <2>1, <2>2 DEF Cell!RequestsFit
    <2>3. CASE r \notin inbox BY <1>2, <1>4, <2>1, <2>3
    <2> QED BY <2>2, <2>3
  <1>7. Cell!CallsFit'
    <2> SUFFICES ASSUME NEW s \in Sessions
                 PROVE  ~Cell!busy(s)' /\ view'[s] \in {"gone", "dropped"}
                        /\ (finished'[s] # "no" => view'[s] = "gone")
      BY <1>1 DEF Cell!CallsFit
    <2>1. ~Cell!busy(s)' BY <1>2 DEF Cell!busy
    <2> QED BY <1>0, <1>1, <1>2, <2>1 DEF Cell!CallsFit
  <1>8. Cell!RepliesFit' BY <1>1 DEF Cell!RepliesFit
  <1>9. Cell!CompletionsTrue'
    <2>1. \A i \in DOMAIN completed : completed[i].id \in Sessions BY <1>0, CompletionsTyped
    <2> QED BY <1>0, <1>1, <1>2, <2>1 DEF Cell!CompletionsTrue
  <1>10. Cell!DiscardedIsOver' /\ Cell!AppliedOnce' /\ Cell!ToldTheTruth'
       /\ Cell!TableHeldByLiveSession'
    BY <1>0, <1>1 DEF Cell!DiscardedIsOver, Cell!AppliedOnce, Cell!ToldTheTruth,
         Cell!TableHeldByLiveSession
  <1> QED BY <1>5, <1>6, <1>7, <1>8, <1>9, <1>10 DEF Cell!CellEditInv

\* What a new completion leaves: the earlier ones, less the oldest when there were
\* enough, and the new one.
LEMMA CompleteAdds ==
  ASSUME Cell!KeptAssumption, Cell!TypeOK, NEW s \in Sessions, NEW saved \in BOOLEAN,
       Cell!complete(s, saved)
  PROVE  /\ completed' \in Seq(Cell!Completion) /\ Len(completed') <= Kept
         /\ \A i \in DOMAIN completed' :
              \/ completed'[i] = [id |-> s, saved |-> saved]
              \/ \E j \in DOMAIN completed : completed'[i] = completed[j]
  <1> DEFINE entry == [id |-> s, saved |-> saved]
  <1>1. /\ completed \in Seq(Cell!Completion) /\ Len(completed) <= Kept /\ Kept \in Nat \ {0}
        /\ entry \in Cell!Completion
    BY DEF Cell!TypeOK, Cell!KeptAssumption, Cell!Completion
  <1>2. completed' = IF Len(Append(completed, entry)) > Kept THEN Tail(Append(completed, entry))
                     ELSE Append(completed, entry)
    BY DEF Cell!complete
  <1> HIDE DEF entry
  <1> DEFINE all == Append(completed, entry)
  <1>3. /\ all \in Seq(Cell!Completion) /\ Len(all) = Len(completed) + 1 /\ Len(completed) \in Nat
        /\ \A i \in 1..Len(completed) : all[i] = completed[i]
        /\ all[Len(completed) + 1] = entry
    BY <1>1
  <1> HIDE DEF all
  <1>4. /\ Tail(all) \in Seq(Cell!Completion) /\ Len(Tail(all)) = Len(completed)
        /\ \A i \in 1..Len(completed) : Tail(all)[i] = all[i + 1]
    BY <1>3
  <1>5. \A i \in 1..(Len(completed) + 1) :
          all[i] = entry \/ \E j \in DOMAIN completed : all[i] = completed[j]
    <2> SUFFICES ASSUME NEW i \in 1..(Len(completed) + 1)
                 PROVE  all[i] = entry \/ \E j \in DOMAIN completed : all[i] = completed[j]
      OBVIOUS
    <2>1. CASE i = Len(completed) + 1 BY <1>3, <2>1
    <2>2. CASE i # Len(completed) + 1
      <3>1. i \in 1..Len(completed) BY <1>3, <2>2
      <3>2. i \in DOMAIN completed BY <1>1, <3>1
      <3> QED BY <1>3, <3>1, <3>2
    <2> QED BY <2>1, <2>2
  <1>6. CASE Len(all) > Kept
    <2>1. completed' = Tail(all) BY <1>2, <1>6 DEF all
    <2>2. Len(completed') <= Kept BY <1>1, <1>4, <2>1
    <2>3. ASSUME NEW i \in DOMAIN completed'
          PROVE  completed'[i] = entry \/ \E j \in DOMAIN completed : completed'[i] = completed[j]
      <3>1. i \in 1..Len(completed) BY <1>4, <2>1
      <3>2. i + 1 \in 1..(Len(completed) + 1) BY <1>3, <3>1
      <3>3. completed'[i] = all[i + 1] BY <1>4, <2>1, <3>1
      <3> QED BY <1>5, <3>2, <3>3
    <2> QED BY <1>4, <2>1, <2>2, <2>3 DEF entry
  <1>7. CASE ~(Len(all) > Kept)
    <2>1. completed' = all BY <1>2, <1>7 DEF all
    <2>2. Len(completed') <= Kept BY <1>1, <1>3, <1>7, <2>1
    <2>3. DOMAIN completed' = 1..(Len(completed) + 1) BY <1>3, <2>1
    <2>4. \A i \in DOMAIN completed' :
            completed'[i] = entry \/ \E j \in DOMAIN completed : completed'[i] = completed[j]
      BY <1>5, <2>1, <2>3
    <2> QED BY <1>3, <2>1, <2>2, <2>4 DEF entry
  <1> QED BY <1>6, <1>7

\* What the server may do with a request.
LEMMA Handled ==
  ASSUME Cell!CellEditInv, Cell!Handle
  PROVE  \E r \in inbox, ok \in BOOLEAN :
           /\ Cell!Reply_(r, ok) /\ UNCHANGED Cell!editor
           /\ \/ /\ UNCHANGED Cell!server
                 /\ ok => r.op # "begin"
                 /\ ok /\ r.op = "save" => applied[r.id] # <<>>
                 /\ ok /\ r.op = "cancel" => applied[r.id] = <<>> /\ r.id \notin sessions
              \/ /\ r.op = "begin" /\ \A o \in sessions : TableOf[o] # TableOf[r.id]
                 /\ sessions' = sessions \cup {r.id} /\ UNCHANGED <<completed, applied>>
              \/ /\ r.op = "save" /\ r.id \in sessions /\ sessions' = sessions \ {r.id}
                 /\ applied' = [applied EXCEPT ![r.id] = Append(@, r.body)]
                      /\ Cell!complete(r.id, TRUE)
              \/ /\ r.op = "cancel" /\ r.id \in sessions /\ sessions' = sessions \ {r.id}
                 /\ applied' = applied /\ Cell!complete(r.id, FALSE)
  <1>1. PICK r \in inbox :
          Cell!begin_cell_edit(r) \/ Cell!save_cell_edit(r) \/ Cell!cancel_cell_edit(r)
    BY DEF Cell!Handle
  <1>2. Cell!CompletionsTrue BY DEF Cell!CellEditInv
  <1>3. Cell!Recorded(r.id, TRUE) => applied[r.id] # <<>>
    BY <1>2 DEF Cell!CompletionsTrue, Cell!Recorded
  <1>4. Cell!Recorded(r.id, FALSE) => applied[r.id] = <<>> /\ r.id \notin sessions
    BY <1>2 DEF Cell!CompletionsTrue, Cell!Recorded
  <1>5. CASE Cell!begin_cell_edit(r)
    <2>1. CASE \E o \in sessions : TableOf[o] = TableOf[r.id]
      <3>1. Cell!Reply_(r, FALSE) /\ UNCHANGED Cell!server /\ UNCHANGED Cell!editor
        BY <1>5, <2>1 DEF Cell!begin_cell_edit, Cell!server
      <3> QED BY <3>1
    <2>2. CASE ~\E o \in sessions : TableOf[o] = TableOf[r.id]
      <3>1. /\ Cell!Reply_(r, TRUE) /\ UNCHANGED Cell!editor /\ r.op = "begin"
            /\ sessions' = sessions \cup {r.id} /\ UNCHANGED <<completed, applied>>
        BY <1>5, <2>2 DEF Cell!begin_cell_edit
      <3> QED BY <2>2, <3>1
    <2> QED BY <2>1, <2>2
  <1>6. CASE Cell!save_cell_edit(r)
    <2>1. r.op = "save" /\ UNCHANGED Cell!editor BY <1>6 DEF Cell!save_cell_edit
    <2>2. CASE Cell!Recorded(r.id, TRUE)
      <3>1. Cell!Reply_(r, TRUE) /\ UNCHANGED Cell!server BY <1>6, <2>2 DEF Cell!save_cell_edit
      <3> QED BY <1>3, <2>1, <2>2, <3>1
    <2>3. CASE ~Cell!Recorded(r.id, TRUE) /\ (r.id \notin sessions \/ r.body \cap Invalid # {})
      <3>1. Cell!Reply_(r, FALSE) /\ UNCHANGED Cell!server BY <1>6, <2>3 DEF Cell!save_cell_edit
      <3> QED BY <2>1, <3>1
    <2>4. CASE ~Cell!Recorded(r.id, TRUE) /\ ~(r.id \notin sessions \/ r.body \cap Invalid # {})
      <3>1. /\ Cell!Reply_(r, TRUE) /\ r.id \in sessions /\ sessions' = sessions \ {r.id}
            /\ applied' = [applied EXCEPT ![r.id] = Append(@, r.body)] /\ Cell!complete(r.id, TRUE)
        BY <1>6, <2>4 DEF Cell!save_cell_edit
      <3> QED BY <2>1, <3>1
    <2> QED BY <2>2, <2>3, <2>4
  <1>7. CASE Cell!cancel_cell_edit(r)
    <2>1. r.op = "cancel" /\ UNCHANGED Cell!editor BY <1>7 DEF Cell!cancel_cell_edit
    <2>2. CASE Cell!Recorded(r.id, FALSE)
      <3>1. Cell!Reply_(r, TRUE) /\ UNCHANGED Cell!server BY <1>7, <2>2 DEF Cell!cancel_cell_edit
      <3> QED BY <1>4, <2>1, <2>2, <3>1
    <2>3. CASE ~Cell!Recorded(r.id, FALSE) /\ r.id \notin sessions
      <3>1. Cell!Reply_(r, FALSE) /\ UNCHANGED Cell!server BY <1>7, <2>3 DEF Cell!cancel_cell_edit
      <3> QED BY <2>1, <3>1
    <2>4. CASE ~Cell!Recorded(r.id, FALSE) /\ r.id \in sessions
      <3>1. /\ Cell!Reply_(r, TRUE) /\ sessions' = sessions \ {r.id}
            /\ applied' = applied /\ Cell!complete(r.id, FALSE)
        BY <1>7, <2>4 DEF Cell!cancel_cell_edit
      <3> QED BY <2>1, <2>4, <3>1
    <2> QED BY <2>2, <2>3, <2>4
  <1> QED BY <1>1, <1>5, <1>6, <1>7

\* The backend handles a request.
LEMMA HandleKeeps ==
  ASSUME Cell!KeptAssumption, Cell!CellEditInv, Cell!Handle
  PROVE  Cell!CellEditInv'
  <1>0. /\ Cell!TypeOK /\ Cell!RequestsFit /\ Cell!CallsFit /\ Cell!RepliesFit
             /\ Cell!CompletionsTrue /\ Cell!DiscardedIsOver
        /\ Cell!AppliedOnce /\ Cell!ToldTheTruth /\ Cell!TableHeldByLiveSession
    BY DEF Cell!CellEditInv
  <1>1. PICK r \in inbox, ok \in BOOLEAN :
          /\ Cell!Reply_(r, ok) /\ UNCHANGED Cell!editor
          /\ \/ /\ UNCHANGED Cell!server
                /\ ok => r.op # "begin"
                /\ ok /\ r.op = "save" => applied[r.id] # <<>>
                /\ ok /\ r.op = "cancel" => applied[r.id] = <<>> /\ r.id \notin sessions
             \/ /\ r.op = "begin" /\ \A o \in sessions : TableOf[o] # TableOf[r.id]
                /\ sessions' = sessions \cup {r.id} /\ UNCHANGED <<completed, applied>>
             \/ /\ r.op = "save" /\ r.id \in sessions /\ sessions' = sessions \ {r.id}
                /\ applied' = [applied EXCEPT ![r.id] = Append(@, r.body)]
                     /\ Cell!complete(r.id, TRUE)
             \/ /\ r.op = "cancel" /\ r.id \in sessions /\ sessions' = sessions \ {r.id}
                /\ applied' = applied /\ Cell!complete(r.id, FALSE)
    BY Handled
  <1> DEFINE s == r.id
  <1>2. /\ UNCHANGED <<view, draft, call, sent, finished, asking, navigating>>
        /\ inbox' = inbox \ {r}
        /\ replies' = IF call[s] = r THEN replies \cup {[id |-> s, n |-> r.n, ok |-> ok]}
             ELSE replies
        /\ \A p \in Sessions : Cell!busy(p)' <=> Cell!busy(p)
    BY <1>1 DEF Cell!editor, Cell!Reply_, Cell!busy
  <1>3. /\ r \in Cell!Request /\ s \in Sessions /\ r.n \in 1..MaxCalls /\ r.body \in SUBSET Edits
        /\ r.op \in {"begin", "save", "cancel"}
        /\ r.op = "begin" => /\ r.n = 1 /\ r.body = {} /\ view[s] \in {"starting", "dropped"}
                             /\ s \notin sessions /\ applied[s] = <<>>
        /\ r.op # "begin" => view[s] \in {"open", "gone"}
    <2>1. r \in Cell!Request BY <1>0 DEF Cell!TypeOK
    <2> QED BY <1>0, <2>1 DEF Cell!Request, Cell!RequestsFit
  <1>4. /\ sessions \subseteq Sessions /\ applied \in [Sessions -> Seq(SUBSET Edits)]
        /\ completed \in Seq(Cell!Completion) /\ Len(completed) <= Kept
    BY <1>0 DEF Cell!TypeOK
  <1>5. s \in sessions => applied[s] = <<>> /\ finished[s] = "no"
    BY <1>0 DEF Cell!TableHeldByLiveSession
  <1> HIDE DEF s
  <1> DEFINE Begun   == /\ r.op = "begin" /\ \A o \in sessions : TableOf[o] # TableOf[s]
                        /\ sessions' = sessions \cup {s} /\ UNCHANGED <<completed, applied>>
             Ended   == /\ r.op # "begin" /\ s \in sessions /\ sessions' = sessions \ {s}
                        /\ applied' \in [Sessions -> Seq(SUBSET Edits)]
                        /\ \A p \in Sessions : p # s => applied'[p] = applied[p]
                        /\ Len(applied'[s]) <= 1
                        /\ applied'[s] # <<>> <=> r.op = "save"
                        /\ completed' \in Seq(Cell!Completion) /\ Len(completed') <= Kept
                        /\ \A i \in DOMAIN completed' :
                             \/ completed'[i] = [id |-> s, saved |-> r.op = "save"]
                             \/ \E j \in DOMAIN completed : completed'[i] = completed[j]
             Refused == UNCHANGED <<sessions, completed, applied>>
  <1>6. Begun \/ Ended \/ Refused
    <2>1. CASE UNCHANGED Cell!server BY <2>1 DEF Cell!server
    <2>2. CASE /\ r.op = "begin" /\ \A o \in sessions : TableOf[o] # TableOf[r.id]
               /\ sessions' = sessions \cup {r.id} /\ UNCHANGED <<completed, applied>>
      BY <2>2 DEF s
    <2>3. CASE /\ r.op = "save" /\ r.id \in sessions /\ sessions' = sessions \ {r.id}
               /\ applied' = [applied EXCEPT ![r.id] = Append(@, r.body)]
                    /\ Cell!complete(r.id, TRUE)
      <3>1. /\ r.op = "save" /\ s \in sessions /\ sessions' = sessions \ {s}
                 /\ Cell!complete(s, TRUE)
            /\ applied' = [applied EXCEPT ![s] = Append(@, r.body)]
        BY <2>3 DEF s
      <3>2. applied[s] = <<>> /\ Append(applied[s], r.body) \in Seq(SUBSET Edits)
        BY <1>3, <1>4, <1>5, <3>1
      <3>3. Append(applied[s], r.body) = <<r.body>> /\ Len(<<r.body>>) = 1 /\ <<r.body>> # <<>>
        BY <1>3, <3>2
      <3>4. /\ applied' \in [Sessions -> Seq(SUBSET Edits)] /\ applied'[s] = <<r.body>>
            /\ \A p \in Sessions : p # s => applied'[p] = applied[p]
        BY <1>3, <1>4, <3>1, <3>2, <3>3
      <3>5. Len(applied'[s]) <= 1 /\ applied'[s] # <<>> BY <3>3, <3>4
      <3>6. /\ completed' \in Seq(Cell!Completion) /\ Len(completed') <= Kept
            /\ \A i \in DOMAIN completed' :
                 \/ completed'[i] = [id |-> s, saved |-> TRUE]
                 \/ \E j \in DOMAIN completed : completed'[i] = completed[j]
        BY <1>0, <1>3, <3>1, CompleteAdds
      <3>7. (r.op = "save") = TRUE BY <3>1
      <3> QED BY <3>1, <3>4, <3>5, <3>6, <3>7
    <2>4. CASE /\ r.op = "cancel" /\ r.id \in sessions /\ sessions' = sessions \ {r.id}
               /\ applied' = applied /\ Cell!complete(r.id, FALSE)
      <3>1. /\ r.op = "cancel" /\ s \in sessions /\ sessions' = sessions \ {s}
                 /\ Cell!complete(s, FALSE)
            /\ applied' = applied
        BY <2>4 DEF s
      <3>2. applied[s] = <<>> /\ Len(applied[s]) <= 1 BY <1>5, <3>1
      <3>3. /\ completed' \in Seq(Cell!Completion) /\ Len(completed') <= Kept
            /\ \A i \in DOMAIN completed' :
                 \/ completed'[i] = [id |-> s, saved |-> FALSE]
                 \/ \E j \in DOMAIN completed : completed'[i] = completed[j]
        BY <1>0, <1>3, <3>1, CompleteAdds
      <3>4. (r.op = "save") = FALSE BY <3>1
      <3> QED BY <1>4, <3>1, <3>2, <3>3, <3>4
    <2> QED BY <1>1, <2>1, <2>2, <2>3, <2>4
  <1> HIDE DEF Begun, Ended, Refused
  <1>7. \A p \in Sessions : p # s => applied'[p] = applied[p] /\ (p \in sessions'
       <=> p \in sessions)
    BY <1>6 DEF Begun, Ended, Refused
  <1>8. Cell!TypeOK'
    <2>1. /\ sessions' \subseteq Sessions /\ applied' \in [Sessions -> Seq(SUBSET Edits)]
          /\ completed' \in Seq(Cell!Completion) /\ Len(completed') <= Kept
      BY <1>3, <1>4, <1>6 DEF Begun, Ended, Refused
    <2>2. replies' \subseteq Cell!Reply BY <1>0, <1>2, <1>3 DEF Cell!TypeOK, Cell!Reply
    <2>3. inbox' \subseteq Cell!Request BY <1>0, <1>2 DEF Cell!TypeOK
    <2> QED BY <1>0, <1>2, <2>1, <2>2, <2>3, Zenon DEF Cell!TypeOK
  <1>9. Cell!RequestsFit'
    <2> SUFFICES ASSUME NEW q \in inbox', q.op = "begin"
                 PROVE  q.id \notin sessions' /\ applied'[q.id] = <<>>
      BY <1>0, <1>2 DEF Cell!RequestsFit
    <2>1. /\ q \in inbox /\ q # r /\ q \in Cell!Request /\ q.id \in Sessions
          /\ q.n = 1 /\ q.body = {} /\ view[q.id] \in {"starting", "dropped"}
          /\ q.id \notin sessions /\ applied[q.id] = <<>>
      BY <1>0, <1>2 DEF Cell!RequestsFit, Cell!TypeOK, Cell!Request
    <2>2. CASE q.id # s BY <1>7, <2>1, <2>2
    <2>3. CASE q.id = s
      <3>1. r.op = "begin" BY <1>3, <2>1, <2>3
      <3>2. \A x \in Cell!Request : x = [id |-> x.id, n |-> x.n, op |-> x.op, body |-> x.body]
        BY DEF Cell!Request
      <3>3. q = [id |-> s, n |-> 1, op |-> "begin", body |-> {}] BY <2>1, <2>3, <3>2
      <3>4. r = [id |-> s, n |-> 1, op |-> "begin", body |-> {}] BY <1>3, <3>1, <3>2 DEF s
      <3> QED BY <2>1, <3>3, <3>4
    <2> QED BY <2>2, <2>3
  <1>10. Cell!CallsFit'
    <2> SUFFICES ASSUME NEW p \in Sessions, view[p] = "none"
                 PROVE  p \notin sessions' /\ applied'[p] = <<>>
      BY <1>0, <1>2 DEF Cell!CallsFit
    <2>1. p # s BY <1>3
    <2> QED BY <1>0, <1>7, <2>1 DEF Cell!CallsFit
  <1>11. Cell!RepliesFit'
    <2>1. ASSUME NEW o \in replies
          PROVE  /\ o.id \in Sessions /\ Cell!busy(o.id)' /\ call'[o.id] \notin inbox'
                 /\ o.ok /\ call'[o.id].op = "save" => applied'[o.id] # <<>>
                 /\ o.ok /\ call'[o.id].op = "cancel" => applied'[o.id] = <<>>
                      /\ o.id \notin sessions'
      <3>1. /\ o.id \in Sessions /\ Cell!busy(o.id) /\ call[o.id] \notin inbox
            /\ o.ok /\ call[o.id].op = "save" => applied[o.id] # <<>>
            /\ o.ok /\ call[o.id].op = "cancel" => applied[o.id] = <<>> /\ o.id \notin sessions
        BY <1>0 DEF Cell!RepliesFit, Cell!TypeOK, Cell!Reply
      <3>2. call[o.id].op = "begin" <=> view[o.id] # "open" BY <1>0, <3>1 DEF Cell!CallsFit
      <3>3. CASE o.id # s BY <1>2, <1>7, <3>1, <3>3
      <3>4. CASE o.id = s /\ Begun
        <4>1. call[o.id].op = "begin" BY <1>3, <3>2, <3>4 DEF Begun
        <4> QED BY <1>2, <3>1, <4>1
      <3>5. CASE o.id = s /\ Ended
        <4>1. /\ s \in sessions /\ s \notin sessions' /\ applied[s] = <<>>
          BY <1>5, <3>5 DEF Ended
        <4>2. ~(o.ok /\ call[o.id].op = "save") /\ ~(o.ok /\ call[o.id].op = "cancel")
          BY <3>1, <3>5, <4>1
        <4> QED BY <1>2, <3>1, <4>2
      <3>6. CASE Refused BY <1>2, <3>1, <3>6 DEF Refused
      <3> QED BY <1>6, <3>3, <3>4, <3>5, <3>6
    <2>2. CASE call[s] = r
      <3> DEFINE answer == [id |-> s, n |-> r.n, ok |-> ok]
      <3>1. \A o \in replies : o.id # s
        BY <1>0, <2>2 DEF Cell!RepliesFit
      <3>2. Cell!busy(s)' /\ call'[s] \notin inbox'
        BY <1>2, <1>3, <2>2 DEF Cell!busy, Cell!KeptAssumption
      <3>3. ok /\ r.op = "save" => applied'[s] # <<>>
        <4>1. CASE Ended BY <4>1 DEF Ended
        <4>2. CASE ~Ended BY <1>1, <1>6, <4>2 DEF Ended, Begun, Refused, s
        <4> QED BY <4>1, <4>2
      <3>4. ok /\ r.op = "cancel" => applied'[s] = <<>> /\ s \notin sessions'
        <4>1. CASE Ended BY <4>1 DEF Ended
        <4>2. CASE ~Ended BY <1>1, <1>6, <4>2 DEF Ended, Begun, Refused, s
        <4> QED BY <4>1, <4>2
      <3>5. /\ answer.id = s /\ answer.ok = ok /\ call'[s] = r
            /\ replies' = replies \cup {answer}
        BY <1>2, <2>2
      <3> HIDE DEF answer
      <3>6. ASSUME NEW o \in replies'
            PROVE  /\ Cell!busy(o.id)' /\ call'[o.id] \notin inbox'
                   /\ o.ok /\ call'[o.id].op = "save" => applied'[o.id] # <<>>
                   /\ o.ok /\ call'[o.id].op = "cancel" => applied'[o.id] = <<>>
                        /\ o.id \notin sessions'
        <4>1. CASE o \in replies BY <2>1, <4>1
        <4>2. CASE o = answer BY <3>2, <3>3, <3>4, <3>5, <4>2
        <4> QED BY <3>5, <4>1, <4>2
      <3>7. \A o, p \in replies' : o.id = p.id => o = p
        BY <1>0, <3>1, <3>5 DEF Cell!RepliesFit
      <3> QED BY <3>6, <3>7 DEF Cell!RepliesFit
    <2>3. CASE call[s] # r
      <3>1. replies' = replies BY <1>2, <2>3
      <3> QED BY <1>0, <2>1, <3>1 DEF Cell!RepliesFit
    <2> QED BY <2>2, <2>3
  <1>12. Cell!CompletionsTrue'
    <2>1. ASSUME NEW j \in DOMAIN completed
          PROVE  /\ completed[j].id \in Sessions /\ view'[completed[j].id] \in {"open", "gone"}
                 /\ completed[j].id \notin sessions'
                 /\ completed[j].saved <=> applied'[completed[j].id] # <<>>
      <3>1. /\ completed[j].id \in Sessions /\ view[completed[j].id] \in {"open", "gone"}
            /\ completed[j].id \notin sessions
            /\ completed[j].saved <=> applied[completed[j].id] # <<>>
        BY <1>0, CompletionsTyped DEF Cell!CompletionsTrue
      <3>2. CASE completed[j].id # s BY <1>2, <1>7, <3>1, <3>2
      <3>3. CASE completed[j].id = s
        <4>1. ~Begun /\ ~Ended BY <1>3, <3>1, <3>3 DEF Begun, Ended
        <4> QED BY <1>2, <1>6, <3>1, <4>1 DEF Refused
      <3> QED BY <3>2, <3>3
    <2>2. CASE Ended
      <3> SUFFICES ASSUME NEW i \in DOMAIN completed'
                   PROVE  /\ view'[completed'[i].id] \in {"open", "gone"}
                               /\ completed'[i].id \notin sessions'
                          /\ completed'[i].saved <=> applied'[completed'[i].id] # <<>>
        BY DEF Cell!CompletionsTrue
      <3>1. CASE completed'[i] = [id |-> s, saved |-> r.op = "save"]
        <4>1. completed'[i].id = s /\ completed'[i].saved = (r.op = "save") BY <3>1
        <4> QED BY <1>2, <1>3, <2>2, <4>1 DEF Ended
      <3>2. CASE \E j \in DOMAIN completed : completed'[i] = completed[j]
        BY <2>1, <3>2
      <3> QED BY <2>2, <3>1, <3>2 DEF Ended
    <2>3. CASE ~Ended
      <3>1. completed' = completed BY <1>6, <2>3 DEF Begun, Refused
      <3> QED BY <2>1, <3>1 DEF Cell!CompletionsTrue
    <2> QED BY <2>2, <2>3
  <1>13. Cell!DiscardedIsOver'
    <2> SUFFICES ASSUME NEW p \in Sessions, finished[p] = "discarded" PROVE p \notin sessions'
      BY <1>2 DEF Cell!DiscardedIsOver
    <2>1. p \notin sessions /\ view[p] = "gone" BY <1>0 DEF Cell!DiscardedIsOver, Cell!CallsFit
    <2>2. CASE p # s BY <1>7, <2>1, <2>2
    <2>3. CASE p = s
      <3>1. ~Begun BY <1>3, <2>1, <2>3 DEF Begun
      <3> QED BY <1>6, <2>1, <2>3, <3>1 DEF Ended, Refused
    <2> QED BY <2>2, <2>3
  <1>14. Cell!AppliedOnce' /\ Cell!ToldTheTruth'
    <2> SUFFICES ASSUME NEW p \in Sessions
                 PROVE  /\ Len(applied'[p]) <= 1
                        /\ finished[p] = "saved" => applied'[p] # <<>>
                        /\ finished[p] = "discarded" => applied'[p] = <<>>
      BY <1>2 DEF Cell!AppliedOnce, Cell!ToldTheTruth
    <2>1. CASE applied'[p] = applied[p] BY <1>0, <2>1 DEF Cell!AppliedOnce, Cell!ToldTheTruth
    <2>2. CASE applied'[p] # applied[p]
      <3>1. p = s BY <1>7, <2>2
      <3>2. Ended BY <1>6, <2>2 DEF Begun, Refused
      <3> QED BY <1>5, <3>1, <3>2 DEF Ended
    <2> QED BY <2>1, <2>2
  <1>15. Cell!TableHeldByLiveSession'
    <2>1. CASE Begun
      <3>1. finished[s] = "no" /\ applied[s] = <<>>
        BY <1>0, <1>3, <2>1 DEF Begun, Cell!CallsFit
      <3>2. /\ sessions' = sessions \cup {s} /\ applied' = applied
            /\ \A o \in sessions : TableOf[o] # TableOf[s]
        BY <2>1 DEF Begun
      <3>3. \A p \in sessions' : applied'[p] = <<>> /\ finished'[p] = "no"
        BY <1>0, <1>2, <3>1, <3>2 DEF Cell!TableHeldByLiveSession
      <3>4. \A p, o \in sessions' : TableOf[p] = TableOf[o] => p = o
        BY <1>0, <3>2 DEF Cell!TableHeldByLiveSession
      <3> QED BY <3>3, <3>4 DEF Cell!TableHeldByLiveSession
    <2>2. CASE ~Begun
      <3>1. sessions' \subseteq sessions BY <1>6, <2>2 DEF Ended, Refused
      <3>2. \A p \in sessions' : p \in sessions /\ applied'[p] = applied[p]
        BY <1>4, <1>6, <1>7, <2>2, <3>1 DEF Ended, Refused
      <3> QED BY <1>0, <1>2, <3>1, <3>2 DEF Cell!TableHeldByLiveSession
    <2> QED BY <2>1, <2>2
  <1> QED BY <1>8, <1>9, <1>10, <1>11, <1>12, <1>13, <1>14, <1>15 DEF Cell!CellEditInv

\* The editor's screen without a request: what ScreenKeeps asks for.
LEMMA ScreenSteps ==
  ASSUME Cell!CellEditInv, NEW s \in Sessions,
         \/ \E e \in Edits : Cell!Edit(s, e)
         \/ Cell!Stay(s)
         \/ Cell!NavigateUnguarded(s)
         \/ Cell!requestCancel(s) /\ s \in Dialogs /\ Cell!modified(s)
         \/ Cell!navigate(s) /\ Cell!modified(s)
  PROVE  Cell!CellEditInv'
  <1>1. /\ draft \in [Sessions -> SUBSET Edits] /\ asking \in [Sessions -> BOOLEAN]
        /\ navigating \in BOOLEAN
    BY DEF Cell!CellEditInv, Cell!TypeOK
  <1>2. CASE \E e \in Edits : Cell!Edit(s, e)
    <2>1. PICK e \in Edits : Cell!Edit(s, e) BY <1>2
    <2>2. draft' = [draft EXCEPT ![s] = IF e \in @ THEN @ \ {e} ELSE @ \cup {e}]
      BY <2>1 DEF Cell!Edit
    <2>3. draft' \in [Sessions -> SUBSET Edits] BY <1>1, <2>2
    <2>4. UNCHANGED <<view, call, sent, finished, asking, navigating, Cell!net, Cell!server>>
      BY <2>1 DEF Cell!Edit
    <2>5. asking' \in [Sessions -> BOOLEAN] /\ navigating' \in BOOLEAN BY <1>1, <2>4
    <2> QED BY <2>3, <2>4, <2>5, ScreenKeeps
  <1>3. CASE Cell!Stay(s)
    <2>1. UNCHANGED <<view, draft, call, sent, finished, Cell!net, Cell!server>>
      BY <1>3 DEF Cell!Stay
    <2>2. asking' \in [Sessions -> BOOLEAN] BY <1>1, <1>3 DEF Cell!Stay
    <2>3. navigating' \in BOOLEAN
      <3>1. navigating' = (navigating /\ s \in Dialogs) BY <1>3 DEF Cell!Stay
      <3> QED BY <3>1, Zenon
    <2> QED BY <1>1, <2>1, <2>2, <2>3, ScreenKeeps
  <1>4. CASE Cell!NavigateUnguarded(s)
    <2>1. /\ view[s] = "starting" /\ view' = [view EXCEPT ![s] = "dropped"]
          /\ UNCHANGED <<draft, call, sent, finished, asking, navigating, Cell!net, Cell!server>>
      BY <1>4 DEF Cell!NavigateUnguarded
    <2>2. asking' \in [Sessions -> BOOLEAN] /\ navigating' \in BOOLEAN BY <1>1, <2>1
    <2> QED BY <1>1, <2>1, <2>2, ScreenKeeps
  <1>5. CASE Cell!requestCancel(s) /\ s \in Dialogs /\ Cell!modified(s)
    <2>1. /\ asking' = [asking EXCEPT ![s] = TRUE]
          /\ UNCHANGED <<view, draft, call, sent, finished, navigating, inbox, replies,
               Cell!server>>
      BY <1>5 DEF Cell!requestCancel
    <2>2. asking' \in [Sessions -> BOOLEAN] /\ navigating' \in BOOLEAN BY <1>1, <2>1
    <2> QED BY <1>1, <2>1, <2>2, ScreenKeeps DEF Cell!net
  <1>6. CASE Cell!navigate(s) /\ Cell!modified(s)
    <2>1. /\ asking' = [asking EXCEPT ![s] = TRUE] /\ navigating' = TRUE
          /\ UNCHANGED <<view, draft, call, sent, finished, inbox, replies, Cell!server>>
      BY <1>6 DEF Cell!navigate
    <2>2. asking' \in [Sessions -> BOOLEAN] /\ navigating' \in BOOLEAN BY <1>1, <2>1
    <2> QED BY <1>1, <2>1, <2>2, ScreenKeeps DEF Cell!net
  <1> QED BY <1>2, <1>3, <1>4, <1>5, <1>6

\* The steps that send a request: what SendKeeps asks for.
LEMMA SendSteps ==
  ASSUME Cell!SessionsAssumption, Cell!KeptAssumption, Cell!CellEditInv, NEW s \in Sessions,
         \/ Cell!editTable(s)
         \/ Cell!Save(s)
         \/ Cell!Discard(s)
         \/ Cell!requestCancel(s) /\ ~(s \in Dialogs /\ Cell!modified(s))
         \/ Cell!navigate(s) /\ ~Cell!modified(s)
  PROVE  Cell!CellEditInv'
  <1>1. /\ draft \in [Sessions -> SUBSET Edits] /\ asking \in [Sessions -> BOOLEAN]
        /\ navigating \in BOOLEAN /\ draft[s] \in SUBSET Edits /\ {} \in SUBSET Edits
    BY DEF Cell!CellEditInv, Cell!TypeOK
  <1>2. CASE Cell!editTable(s)
    <2>1. /\ view[s] = "none" /\ view' = [view EXCEPT ![s] = "starting"]
               /\ Cell!Send(s, "begin", {})
          /\ UNCHANGED <<draft, finished, asking, navigating, replies, Cell!server>>
      BY <1>2 DEF Cell!editTable
    <2>2. ~Cell!busy(s) BY <2>1 DEF Cell!CellEditInv, Cell!CallsFit
    <2>3. asking' \in [Sessions -> BOOLEAN] /\ navigating' \in BOOLEAN BY <1>1, <2>1
    <2> QED BY <1>1, <2>1, <2>2, <2>3, SendKeeps
  <1>3. CASE Cell!Save(s)
    <2>1. /\ view[s] = "open" /\ ~Cell!busy(s) /\ Cell!Send(s, "save", draft[s])
          /\ UNCHANGED <<view, draft, finished, asking, navigating, replies, Cell!server>>
      BY <1>3 DEF Cell!Save, Cell!Mounted
    <2>2. asking' \in [Sessions -> BOOLEAN] /\ navigating' \in BOOLEAN BY <1>1, <2>1
    <2> QED BY <1>1, <2>1, <2>2, SendKeeps
  <1>4. CASE Cell!Discard(s)
    <2>1. /\ view[s] = "open" /\ ~Cell!busy(s) /\ Cell!Send(s, "cancel", {})
          /\ UNCHANGED <<view, draft, finished, navigating, replies, Cell!server>>
      BY <1>4 DEF Cell!Discard, Cell!Mounted
    <2>2. asking' \in [Sessions -> BOOLEAN]
      <3>1. asking' = [asking EXCEPT ![s] = s \notin Dialogs] /\ (s \notin Dialogs) \in BOOLEAN
        BY <1>4, Zenon DEF Cell!Discard
      <3> QED BY <1>1, <3>1, Zenon
    <2>3. navigating' \in BOOLEAN BY <1>1, <2>1
    <2> QED BY <1>1, <2>1, <2>2, <2>3, SendKeeps
  <1>5. CASE Cell!requestCancel(s) /\ ~(s \in Dialogs /\ Cell!modified(s))
    <2>1. /\ view[s] = "open" /\ ~Cell!busy(s) /\ Cell!Send(s, "cancel", {})
          /\ UNCHANGED <<view, draft, finished, asking, navigating, replies, Cell!server>>
      BY <1>5 DEF Cell!requestCancel, Cell!Mounted
    <2>2. asking' \in [Sessions -> BOOLEAN] /\ navigating' \in BOOLEAN BY <1>1, <2>1
    <2> QED BY <1>1, <2>1, <2>2, SendKeeps
  <1>6. CASE Cell!navigate(s) /\ ~Cell!modified(s)
    <2>1. /\ view[s] = "open" /\ ~Cell!busy(s) /\ Cell!Send(s, "cancel", {}) /\ navigating' = TRUE
          /\ UNCHANGED <<view, draft, finished, asking, replies, Cell!server>>
      BY <1>6 DEF Cell!navigate, Cell!Mounted
    <2>2. asking' \in [Sessions -> BOOLEAN] /\ navigating' \in BOOLEAN BY <1>1, <2>1
    <2> QED BY <1>1, <2>1, <2>2, SendKeeps
  <1> QED BY <1>2, <1>3, <1>4, <1>5, <1>6

\* The steps in which the editor hears of its request: what HearKeeps asks for.
LEMMA HearSteps ==
  ASSUME Cell!CellEditInv, NEW s \in Sessions, Cell!Answer(s) \/ Cell!ConnectionLost(s)
  PROVE  Cell!CellEditInv'
  <1>1. /\ asking \in [Sessions -> BOOLEAN] /\ navigating \in BOOLEAN /\ Cell!busy(s)
        /\ call' = [call EXCEPT ![s] = NoCall] /\ UNCHANGED <<draft, sent, Cell!server>>
    BY DEF Cell!CellEditInv, Cell!TypeOK, Cell!Answer, Cell!ConnectionLost
  <1>2. ASSUME Cell!Failed(s)
        PROVE  /\ view' = [view EXCEPT ![s] = IF @ = "starting" THEN "dropped" ELSE @]
               /\ finished' = finished /\ asking' \in [Sessions -> BOOLEAN]
                    /\ navigating' \in BOOLEAN
    <2>1. /\ navigating' = (navigating /\ (asking[s] \/ s \in Dialogs))
               /\ UNCHANGED <<finished, asking>>
          /\ view' = [view EXCEPT ![s] = IF @ = "starting" THEN "dropped" ELSE @]
      BY <1>2 DEF Cell!Failed
    <2>2. navigating' \in BOOLEAN BY <2>1, Zenon
    <2> QED BY <1>1, <2>1, <2>2
  <1>3. CASE Cell!ConnectionLost(s)
    <2>1. /\ inbox' \subseteq inbox /\ replies' = {r \in replies : r.id # s} /\ Cell!Failed(s)
      BY <1>3 DEF Cell!ConnectionLost
    <2>2. replies' \subseteq replies /\ \A r \in replies' : r.id # s BY <2>1
    <2> QED BY <1>1, <1>2, <2>1, <2>2, HearKeeps
  <1>4. CASE Cell!Answer(s)
    <2>1. PICK r \in replies : /\ r.id = s /\ IF r.ok THEN Cell!Succeeded(s) ELSE Cell!Failed(s)
                               /\ replies' = replies \ {r}
      BY <1>4 DEF Cell!Answer
    <2>2. inbox' = inbox BY <1>4 DEF Cell!Answer
    <2>3. Cell!RepliesFit BY DEF Cell!CellEditInv
    <2>4. replies' \subseteq replies /\ \A o \in replies' : o.id # s
      BY <2>1, <2>3 DEF Cell!RepliesFit
    <2>5. CASE ~r.ok BY <1>1, <1>2, <2>1, <2>2, <2>4, <2>5, HearKeeps
    <2>6. CASE r.ok /\ call[s].op = "begin"
      <3>1. /\ view' = [view EXCEPT ![s] = IF @ = "starting" THEN "open" ELSE @]
            /\ UNCHANGED <<finished, asking, navigating>>
        BY <2>1, <2>6 DEF Cell!Succeeded
      <3>2. call[s] \notin inbox BY <2>1, <2>3 DEF Cell!RepliesFit
      <3>3. asking' \in [Sessions -> BOOLEAN] /\ navigating' \in BOOLEAN BY <1>1, <3>1
      <3> QED BY <1>1, <2>2, <2>4, <2>6, <3>1, <3>2, <3>3, HearKeeps
    <2>7. CASE r.ok /\ call[s].op # "begin"
      <3>1. /\ view' = [view EXCEPT ![s] = "gone"] /\ asking' = [asking EXCEPT ![s] = FALSE]
            /\ finished' = [finished EXCEPT ![s] = IF call[s].op = "save" THEN "saved"
                 ELSE "discarded"]
            /\ navigating' = (navigating /\ s \in Dialogs)
        BY <2>1, <2>7 DEF Cell!Succeeded
      <3>2. asking' \in [Sessions -> BOOLEAN] BY <1>1, <3>1
      <3>3. navigating' \in BOOLEAN BY <3>1, Zenon
      <3>4. /\ call[s].op = "save" => applied[s] # <<>>
            /\ call[s].op = "cancel" => applied[s] = <<>> /\ s \notin sessions
        BY <2>1, <2>3, <2>7 DEF Cell!RepliesFit
      <3> QED BY <1>1, <2>2, <2>4, <2>7, <3>1, <3>2, <3>3, <3>4, HearKeeps
    <2> QED BY <2>5, <2>6, <2>7
  <1> QED BY <1>3, <1>4

LEMMA CellInit ==
  ASSUME Cell!KeptAssumption, Cell!Init
  PROVE  Cell!CellEditInv
  <1>1. Cell!TypeOK
    <2>1. <<>> \in Seq(Cell!Completion) /\ Len(<<>>) = 0 /\ <<>> \in Seq(SUBSET Edits) OBVIOUS
    <2>2. completed \in Seq(Cell!Completion) /\ Len(completed) <= Kept
      BY <2>1 DEF Cell!Init, Cell!KeptAssumption
    <2>3. sent \in [Sessions -> 0..MaxCalls]
      <3>1. 0 \in 0..MaxCalls BY DEF Cell!KeptAssumption
      <3> QED BY <3>1 DEF Cell!Init
    <2>4. applied \in [Sessions -> Seq(SUBSET Edits)] BY <2>1 DEF Cell!Init
    <2> QED BY <2>2, <2>3, <2>4 DEF Cell!Init, Cell!TypeOK
  <1>2. Cell!RequestsFit /\ Cell!RepliesFit BY DEF Cell!Init, Cell!RequestsFit, Cell!RepliesFit
  <1>3. Cell!CallsFit BY DEF Cell!Init, Cell!CallsFit, Cell!busy
  <1>4. Cell!CompletionsTrue
    <2>1. DOMAIN completed = {} BY DEF Cell!Init
    <2> QED BY <2>1 DEF Cell!CompletionsTrue
  <1>5. Cell!AppliedOnce
    <2>1. \A s \in Sessions : applied[s] = <<>> BY DEF Cell!Init
    <2>2. Len(<<>>) <= 1 OBVIOUS
    <2> QED BY <2>1, <2>2 DEF Cell!AppliedOnce
  <1>6. Cell!DiscardedIsOver /\ Cell!ToldTheTruth /\ Cell!TableHeldByLiveSession
    BY DEF Cell!Init, Cell!DiscardedIsOver, Cell!ToldTheTruth, Cell!TableHeldByLiveSession
  <1> QED BY <1>1, <1>2, <1>3, <1>4, <1>5, <1>6 DEF Cell!CellEditInv

LEMMA CellNext ==
  ASSUME Cell!SessionsAssumption, Cell!KeptAssumption, Cell!CellEditInv, Cell!Next
  PROVE  Cell!CellEditInv'
  <1>1. CASE Cell!pagehide BY <1>1, PagehideKeeps
  <1>2. CASE Cell!Handle BY <1>2, HandleKeeps
  <1>3. ASSUME NEW s \in Sessions,
               \/ Cell!editTable(s) \/ Cell!Save(s) \/ Cell!requestCancel(s)
               \/ Cell!Discard(s) \/ Cell!Stay(s) \/ Cell!navigate(s)
               \/ Cell!NavigateUnguarded(s) \/ Cell!Answer(s) \/ Cell!ConnectionLost(s)
               \/ \E e \in Edits : Cell!Edit(s, e)
        PROVE  Cell!CellEditInv'
    BY <1>3, ScreenSteps, SendSteps, HearSteps
  <1> QED BY <1>1, <1>2, <1>3 DEF Cell!Next

LEMMA CellStutters ==
  ASSUME Cell!CellEditInv, UNCHANGED Cell!vars
  PROVE  Cell!CellEditInv'
  <1>1. UNCHANGED <<call, sent, finished, Cell!net, Cell!server, draft, asking, navigating, view>>
    BY DEF Cell!vars, Cell!editor
  <1>2. draft' \in [Sessions -> SUBSET Edits] /\ asking' \in [Sessions -> BOOLEAN]
       /\ navigating' \in BOOLEAN
    BY <1>1 DEF Cell!CellEditInv, Cell!TypeOK
  <1> QED BY <1>1, <1>2, ScreenKeeps

\* Only an answer to its own request or the window's end closes an open editor.
LEMMA OpenEnds ==
  ASSUME Cell!CellEditInv, Cell!Next, NEW s \in Sessions, view[s] = "open", view'[s] # "open"
  PROVE  finished'[s] # "no" \/ Cell!pagehide
  <1>0. /\ view \in [Sessions -> {"none", "starting", "open", "gone", "dropped"}]
        /\ finished \in [Sessions -> {"no", "saved", "discarded"}]
        /\ call \in [Sessions -> Cell!Request \cup {NoCall}]
    BY DEF Cell!CellEditInv, Cell!TypeOK
  <1>1. ASSUME NEW p \in Sessions,
               \/ Cell!Save(p) \/ Cell!requestCancel(p) \/ Cell!Discard(p)
               \/ Cell!Stay(p) \/ Cell!navigate(p)
               \/ \E e \in Edits : Cell!Edit(p, e)
        PROVE  view' = view
    BY <1>1 DEF Cell!Save, Cell!requestCancel, Cell!Discard, Cell!Stay, Cell!navigate, Cell!Edit
  <1>2. ~Cell!Handle
    <2>1. SUFFICES ASSUME Cell!Handle PROVE FALSE OBVIOUS
    <2>2. UNCHANGED Cell!editor
      BY <2>1 DEF Cell!Handle, Cell!begin_cell_edit, Cell!save_cell_edit, Cell!cancel_cell_edit
    <2> QED BY <2>2 DEF Cell!editor
  <1>3. ASSUME NEW p \in Sessions, Cell!editTable(p) PROVE FALSE
    BY <1>0, <1>3 DEF Cell!editTable
  <1>4. ASSUME NEW p \in Sessions, Cell!NavigateUnguarded(p) PROVE FALSE
    BY <1>0, <1>4 DEF Cell!NavigateUnguarded
  <1>5. ASSUME NEW p \in Sessions, Cell!Failed(p) PROVE FALSE
    BY <1>0, <1>5 DEF Cell!Failed
  <1>6. ASSUME NEW p \in Sessions, Cell!ConnectionLost(p) PROVE FALSE
    BY <1>5, <1>6 DEF Cell!ConnectionLost
  <1>7. ASSUME NEW p \in Sessions, Cell!Answer(p) PROVE finished'[s] # "no"
    <2>1. Cell!Succeeded(p) BY <1>5, <1>7 DEF Cell!Answer
    <2>2. CASE call[p].op = "begin"
      <3>1. view' = [view EXCEPT ![p] = IF @ = "starting" THEN "open" ELSE @]
        BY <2>1, <2>2 DEF Cell!Succeeded
      <3> QED BY <1>0, <3>1
    <2>3. CASE call[p].op # "begin"
      <3>1. /\ view' = [view EXCEPT ![p] = "gone"]
            /\ finished' = [finished EXCEPT ![p] = IF call[p].op = "save" THEN "saved"
                 ELSE "discarded"]
        BY <2>1, <2>3 DEF Cell!Succeeded
      <3>2. p = s BY <1>0, <3>1
      <3> QED BY <1>0, <3>1, <3>2
    <2> QED BY <2>2, <2>3
  <1> QED BY <1>1, <1>2, <1>3, <1>4, <1>6, <1>7 DEF Cell!Next

\* Whatever is lost, repeated, overtaken or closed, a Save is applied once, an editor
\* says what happened and a table is held only for a live session; and an editor with
\* unsaved edits goes only by its own outcome or with its window.
THEOREM EditorStaysTruthful == Spec => EditorIsTruthful
  <1> DEFINE Truthful == part = "cell" => Cell!CellEditInv
  <1>0. Cell!SessionsAssumption /\ Cell!KeptAssumption BY SessionsAssumption
  <1>1. ASSUME Init PROVE Truthful
    BY <1>0, <1>1, CellInit DEF Init
  <1>2. ASSUME Truthful, [Next]_(vars) PROVE Truthful'
    <2>0. part' = part BY <1>2 DEF Next, vars
    <2>1. ASSUME part = "cell" PROVE Cell!CellEditInv'
      <3>0. Cell!CellEditInv BY <1>2, <2>1
      <3>1. Cell!Next \/ UNCHANGED cell BY <1>2, <2>1 DEF Next, vars
      <3>2. CASE UNCHANGED cell
        <4>1. UNCHANGED Cell!vars
          BY <3>2 DEF cell, Cell!vars, Cell!editor, Cell!net, Cell!server
        <4> QED BY <3>0, <4>1, CellStutters
      <3>3. CASE Cell!Next BY <1>0, <3>0, <3>3, CellNext
      <3> QED BY <3>1, <3>2, <3>3
    <2> QED BY <2>0, <2>1
  <1>3. ASSUME Truthful, [Next]_(vars)
        PROVE  [\A s \in Sessions :
                  view[s] = "open" /\ view'[s] # "open" /\ draft[s] # {}
                    => finished'[s] # "no" \/ Cell!pagehide]_(Cell!vars)
    <2>1. CASE part = "cell" /\ Cell!Next
      BY <1>3, <2>1, OpenEnds
    <2>2. CASE UNCHANGED cell
      BY <2>2 DEF cell, Cell!vars, Cell!editor, Cell!net, Cell!server
    <2> QED BY <1>3, <2>1, <2>2 DEF Next, vars
  <1>4. Spec => []Truthful
    BY <1>1, <1>2, PTL DEF Spec
  <1>5. Spec => Cell!NoSilentLoss
    BY <1>3, <1>4, PTL DEF Spec, Cell!NoSilentLoss
  <1> QED BY <1>4, <1>5, PTL DEF EditorIsTruthful
=============================================================================
