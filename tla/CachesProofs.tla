---------------------------- MODULE CachesProofs -----------------------------
(***************************************************************************)
(* Theorems about what a window keeps of a project, for any number of      *)
(* tables, analyses, tabs, settings and changes of them.                   *)
(***************************************************************************)
EXTENDS MCCaches, FiniteSetTheorems, WellFoundedInduction, TLAPS

(* --------------------------- settings of a tab -------------------------- *)

USE DEF Settings_!Idle, Settings_!Sent

(* Both properties of a settled tab follow from the rest.                   *)
LEMMA SettingsSettle ==
    ASSUME Settings_!TypeOK', Settings_!RequestsCounted', Settings_!LastRequest',
           Settings_!AnswerIsStored', Settings_!ReadsFollow', Settings_!ManualKept'
    PROVE  Settings_!TabSettingsInv'
  <1>1. Settings_!BurstKept'
    BY DEF Settings_!BurstKept, Settings_!Quiet, Settings_!LastRequest
  <1>2. Settings_!ShownIsStored'
    BY DEF Settings_!ShownIsStored, Settings_!Quiet, Settings_!ReadsFollow
  <1> QED BY <1>1, <1>2 DEF Settings_!TabSettingsInv

LEMMA SettingsInit ==
    ASSUME Settings_!KeysAssumption, Settings_!BoundsAssumption, Settings_!Init
    PROVE  Settings_!TabSettingsInv
  <1> USE DEF Settings_!KeysAssumption, Settings_!BoundsAssumption, Settings_!Init,
              Settings_!Entries
  <1>1. Settings_!TypeOK
    <2>1. failed \in BOOLEAN
      OBVIOUS
    <2> QED BY <2>1 DEF Settings_!TypeOK, Settings_!Settings
  <1>2. Settings_!RequestsCounted /\ Settings_!LastRequest /\ Settings_!AnswerIsStored
        /\ Settings_!ReadsFollow
    BY DEF Settings_!RequestsCounted, Settings_!LastRequest, Settings_!AnswerIsStored,
       Settings_!ReadsFollow
  <1>3. Settings_!BurstKept /\ Settings_!ManualKept /\ Settings_!ShownIsStored
    BY DEF Settings_!BurstKept, Settings_!ManualKept, Settings_!ShownIsStored
  <1> QED BY <1>1, <1>2, <1>3 DEF Settings_!TabSettingsInv

(* The window changes its settings, request by request.                     *)
LEMMA RequestsKeepSettings ==
    ASSUME Settings_!KeysAssumption, Settings_!BoundsAssumption, Settings_!TabSettingsInv,
           \/ \E k \in Keys : Settings_!change(k)
           \/ Settings_!Send \/ Settings_!update_analysis_tab \/ Settings_!Fail \/ Settings_!Saved
    PROVE  Settings_!TabSettingsInv'
  <1> USE DEF Settings_!KeysAssumption, Settings_!BoundsAssumption, Settings_!Entries,
              Settings_!window, Settings_!list, Settings_!project
  <1>0. Settings_!TypeOK /\ Settings_!RequestsCounted /\ Settings_!LastRequest
        /\ Settings_!AnswerIsStored /\ Settings_!ReadsFollow /\ Settings_!ManualKept
    BY DEF Settings_!TabSettingsInv
  <1>1. ASSUME NEW k \in Keys, Settings_!change(k) PROVE Settings_!TabSettingsInv'
    <2> DEFINE n == changes + 1
    <2>1. Settings_!latest \in Settings_!Settings
      BY <1>0 DEF Settings_!latest, Settings_!TypeOK
    <2> DEFINE s == [Settings_!latest EXCEPT ![k] = n]
    <2>2. /\ n \in 0..MaxChanges + MaxManual /\ queue' = Append(queue, s)
      BY <1>0, <1>1 DEF Settings_!change, Settings_!TypeOK
    <2>9. /\ s \in Settings_!Settings
          /\ s[k] = n /\ \A j \in Keys \ {k} : s[j] = Settings_!latest[j]
      BY <2>1, <2>2 DEF Settings_!Settings
    <2> HIDE DEF s
    <2>3. /\ n \in 1..MaxChanges /\ changes' = n
          /\ chosen' = [chosen EXCEPT ![k] = n]
          /\ since' = IF queue = <<>> THEN changes ELSE since
          /\ UNCHANGED <<stored, announced, manuals, cached, listRead, reads, phase, answer, failed>>
      BY <1>0, <1>1 DEF Settings_!change, Settings_!TypeOK
    <2>10. /\ chosen'[k] = n /\ \A j \in Keys \ {k} : chosen'[j] = chosen[j]
           /\ chosen' \in [Keys -> 0..MaxChanges]
      BY <1>0, <2>3 DEF Settings_!TypeOK
    <2>11. since' \in 0..changes /\ changes \in Nat
      BY <1>0, <2>3 DEF Settings_!TypeOK, Settings_!RequestsCounted
    <2>4. /\ queue \in Seq(Settings_!Settings) /\ Len(queue) \in Nat /\ Len(queue) <= changes
          /\ queue' \in Seq(Settings_!Settings) /\ queue' # <<>>
          /\ Len(queue') = Len(queue) + 1 /\ queue'[Len(queue')] = s
          /\ queue # <<>> => queue'[1] = queue[1]
      <3>1. queue \in Seq(Settings_!Settings) /\ Len(queue) \in Nat /\ Len(queue) <= changes
        BY <1>0 DEF Settings_!TypeOK, Settings_!RequestsCounted
      <3>2. /\ queue' \in Seq(Settings_!Settings) /\ Len(queue') = Len(queue) + 1
            /\ queue'[Len(queue) + 1] = s /\ \A i \in 1..Len(queue) : queue'[i] = queue[i]
        BY <2>2, <2>9, <3>1
      <3>3. queue # <<>> => Len(queue) >= 1
        BY <3>1
      <3>4. queue' # <<>>
        BY <3>1, <3>2
      <3> QED BY <3>1, <3>2, <3>3, <3>4
    <2>5. Settings_!TypeOK'
      <3>1. failed' \in BOOLEAN
        BY <1>0, <2>3 DEF Settings_!TypeOK
      <3> QED BY <1>0, <2>3, <2>4, <2>10, <2>11, <3>1 DEF Settings_!TypeOK
    <2>6. Settings_!RequestsCounted'
      <3>1. announced' + Len(queue') <= changes' + manuals' + (IF phase' = "answered" THEN 1 ELSE 0)
        <4>1. /\ announced \in Nat /\ manuals \in Nat /\ changes \in Nat
              /\ announced + Len(queue) <= changes + manuals + (IF phase = "answered" THEN 1 ELSE 0)
          BY <1>0 DEF Settings_!TypeOK, Settings_!RequestsCounted
        <4>2. changes' = changes + 1 /\ UNCHANGED <<announced, manuals, phase>>
          BY <2>3
        <4>3. Len(queue) \in Nat /\ Len(queue') = Len(queue) + 1
          BY <2>4
        <4> HIDE DEF n
        <4> QED BY ONLY <4>1, <4>2, <4>3
      <3>2. \A j \in Keys : chosen[j] \in Nat /\ chosen[j] <= changes
        BY <1>0 DEF Settings_!TypeOK, Settings_!RequestsCounted
      <3>3. Len(queue') <= changes' /\ since' <= changes' /\ \A j \in Keys : chosen'[j] <= changes'
        <4>1. changes' = changes + 1 /\ chosen'[k] = changes + 1
          BY <2>3, <2>10
        <4>2. \A j \in Keys : chosen'[j] <= changes + 1
          BY <2>10, <2>11, <3>2, <4>1
        <4> QED BY <2>4, <2>11, <4>1, <4>2
      <3> QED BY <3>1, <3>3 DEF Settings_!RequestsCounted
    <2>7. Settings_!LastRequest'
      <3>1. ASSUME ~failed', NEW j \in Keys, chosen'[j] > since'
            PROVE  chosen'[j] = s[j]
        <4>1. CASE j = k
          BY <2>9, <2>10, <4>1
        <4>2. CASE j # k /\ queue = <<>>
          <5>1. chosen[j] \in Nat /\ chosen[j] <= changes
            BY <1>0 DEF Settings_!TypeOK, Settings_!RequestsCounted
          <5> QED BY <2>3, <2>10, <2>11, <3>1, <4>2, <5>1
        <4>3. CASE j # k /\ queue # <<>>
          <5>1. chosen[j] > since /\ ~failed
            BY <2>3, <2>10, <3>1, <4>3
          <5>2. chosen[j] = queue[Len(queue)][j]
            BY <1>0, <4>3, <5>1 DEF Settings_!LastRequest
          <5> QED BY <2>9, <2>10, <4>3, <5>2 DEF Settings_!latest
        <4> QED BY <4>1, <4>2, <4>3
      <3> QED BY <2>4, <3>1 DEF Settings_!LastRequest
    <2>8. Settings_!AnswerIsStored' /\ Settings_!ReadsFollow' /\ Settings_!ManualKept'
      BY <1>0, <2>3, <2>4 DEF Settings_!TypeOK, Settings_!AnswerIsStored, Settings_!ReadsFollow,
         Settings_!ManualKept
    <2> QED BY <2>5, <2>6, <2>7, <2>8, SettingsSettle
  <1>2. CASE Settings_!Send
    <2>1. Settings_!TypeOK'
      BY <1>0, <1>2 DEF Settings_!Send, Settings_!TypeOK
    <2>2. Settings_!RequestsCounted' /\ Settings_!LastRequest' /\ Settings_!AnswerIsStored'
          /\ Settings_!ReadsFollow' /\ Settings_!ManualKept'
      BY <1>0, <1>2 DEF Settings_!Send, Settings_!TypeOK, Settings_!RequestsCounted,
         Settings_!LastRequest, Settings_!AnswerIsStored, Settings_!ReadsFollow,
         Settings_!ManualKept
    <2> QED BY <2>1, <2>2, SettingsSettle
  <1>3. CASE Settings_!update_analysis_tab
    <2>1. /\ queue # <<>> /\ queue[1] \in Settings_!Settings /\ Len(queue) \in Nat \ {0}
      BY <1>0, <1>3 DEF Settings_!update_analysis_tab, Settings_!TypeOK
    <2>2. /\ phase = "sent" /\ phase' = "answered" /\ announced' = announced + 1
          /\ stored' \in Settings_!Settings /\ answer' = stored'
          /\ stored'[Manual] = stored[Manual] /\ \A j \in Keys : stored'[j] = queue[1][j]
          /\ UNCHANGED <<manuals, cached, listRead, reads, queue, chosen, since, failed, changes>>
      BY <1>0, <1>3, <2>1 DEF Settings_!update_analysis_tab, Settings_!TypeOK, Settings_!Settings
    <2>3. announced' \in 0..MaxChanges + MaxManual
      BY <1>0, <2>1, <2>2, SMTT(20) DEF Settings_!TypeOK, Settings_!RequestsCounted
    <2>4. Settings_!TypeOK'
      <3>1. failed' \in BOOLEAN
        BY <1>0, <2>2 DEF Settings_!TypeOK
      <3> QED BY <1>0, <2>1, <2>2, <2>3, <3>1 DEF Settings_!TypeOK
    <2>5. Settings_!RequestsCounted' /\ Settings_!ManualKept'
      BY <1>0, <2>1, <2>2 DEF Settings_!TypeOK, Settings_!RequestsCounted, Settings_!ManualKept
    <2>6. Settings_!LastRequest' /\ Settings_!AnswerIsStored'
      BY <1>0, <2>1, <2>2 DEF Settings_!LastRequest, Settings_!AnswerIsStored
    <2>7. Settings_!ReadsFollow'
      BY <1>0, <2>2 DEF Settings_!TypeOK, Settings_!ReadsFollow
    <2> QED BY <2>4, <2>5, <2>6, <2>7, SettingsSettle
  <1>4. CASE Settings_!Fail
    <2>1. Settings_!TypeOK'
      BY <1>0, <1>4 DEF Settings_!Fail, Settings_!TypeOK
    <2>2. Settings_!RequestsCounted' /\ Settings_!LastRequest' /\ Settings_!AnswerIsStored'
          /\ Settings_!ReadsFollow' /\ Settings_!ManualKept'
      BY <1>0, <1>4 DEF Settings_!Fail, Settings_!TypeOK, Settings_!RequestsCounted,
         Settings_!LastRequest, Settings_!AnswerIsStored, Settings_!ReadsFollow,
         Settings_!ManualKept
    <2> QED BY <2>1, <2>2, SettingsSettle
  <1>5. CASE Settings_!Saved
    <2>1. Settings_!TypeOK'
      BY <1>0, <1>5 DEF Settings_!Saved, Settings_!TypeOK
    <2>2. Settings_!RequestsCounted' /\ Settings_!AnswerIsStored' /\ Settings_!ReadsFollow'
          /\ Settings_!ManualKept'
      BY <1>0, <1>5 DEF Settings_!Saved, Settings_!TypeOK, Settings_!RequestsCounted,
         Settings_!AnswerIsStored, Settings_!ReadsFollow, Settings_!ManualKept
    <2>3. Settings_!LastRequest'
      <3>1. /\ queue \in Seq(Settings_!Settings) /\ queue # <<>> /\ queue' = Tail(queue)
            /\ phase = "answered" /\ UNCHANGED <<stored, chosen, since, failed>>
        BY <1>0, <1>5 DEF Settings_!Saved, Settings_!TypeOK
      <3>2. CASE Len(queue) = 1
        BY <1>0, <3>1, <3>2 DEF Settings_!LastRequest, Settings_!AnswerIsStored
      <3>3. CASE Len(queue) > 1
        <4>1. queue' # <<>> /\ queue'[Len(queue')] = queue[Len(queue)]
          <5>1. queue' \in Seq(Settings_!Settings) /\ Len(queue') = Len(queue) - 1
            BY <3>1
          <5>2. queue'[Len(queue) - 1] = queue[Len(queue)]
            BY <3>1, <3>3
          <5> QED BY <3>3, <5>1, <5>2
        <4> QED BY <1>0, <3>1, <4>1 DEF Settings_!LastRequest
      <3>4. Len(queue) \in Nat \ {0}
        BY <3>1
      <3> QED BY <3>2, <3>3, <3>4
    <2> QED BY <2>1, <2>2, <2>3, SettingsSettle
  <1> QED BY <1>1, <1>2, <1>3, <1>4, <1>5

(* The project changes its own entry, and the list is read again.           *)
LEMMA ReadsKeepSettings ==
    ASSUME Settings_!KeysAssumption, Settings_!BoundsAssumption, Settings_!TabSettingsInv,
           \/ Settings_!StoreManual \/ Settings_!refreshProjectQueries \/ Settings_!Invalidate
           \/ Settings_!Read \/ Settings_!Deliver
    PROVE  Settings_!TabSettingsInv'
  <1> USE DEF Settings_!KeysAssumption, Settings_!BoundsAssumption, Settings_!Entries,
              Settings_!window, Settings_!list, Settings_!project, Settings_!requests
  <1>0. Settings_!TypeOK /\ Settings_!RequestsCounted /\ Settings_!LastRequest
        /\ Settings_!AnswerIsStored /\ Settings_!ReadsFollow /\ Settings_!ManualKept
    BY DEF Settings_!TabSettingsInv
  <1>1. UNCHANGED <<queue, phase, answer, chosen, since, failed, changes>>
    BY DEF Settings_!StoreManual, Settings_!refreshProjectQueries, Settings_!Invalidate,
       Settings_!Read, Settings_!Deliver
  <1>2. CASE Settings_!StoreManual
    <2>1. Settings_!TypeOK'
      <3>1. failed' \in BOOLEAN
        BY <1>0, <1>1 DEF Settings_!TypeOK
      <3>2. announced' \in 0..MaxChanges + MaxManual /\ manuals' \in 0..MaxManual
        <4>1. /\ announced \in Nat /\ manuals \in Nat /\ changes \in Nat /\ Len(queue) \in Nat
              /\ changes <= MaxChanges /\ MaxChanges \in Nat /\ MaxManual \in Nat
          BY <1>0 DEF Settings_!TypeOK
        <4>2. manuals < MaxManual /\ manuals' = manuals + 1 /\ announced' = announced + 1
          BY <1>2 DEF Settings_!StoreManual
        <4>3. announced <= changes + manuals
          <5>1. phase = "answered" => Len(queue) >= 1
            BY <1>0, <4>1 DEF Settings_!TypeOK
          <5>2. announced + Len(queue) <= changes + manuals + (IF phase = "answered" THEN 1 ELSE 0)
            BY <1>0 DEF Settings_!RequestsCounted
          <5> QED BY <4>1, <5>1, <5>2
        <4> QED BY <4>1, <4>2, <4>3
      <3>3. stored' \in Settings_!Settings
        BY <1>0, <1>2, SMTT(20)
           DEF Settings_!StoreManual, Settings_!TypeOK, Settings_!ManualKept, Settings_!Settings
      <3> QED BY <1>0, <1>1, <1>2, <3>1, <3>2, <3>3 DEF Settings_!StoreManual, Settings_!TypeOK
    <2>2. Settings_!RequestsCounted' /\ Settings_!ManualKept'
      BY <1>0, <1>1, <1>2 DEF Settings_!StoreManual, Settings_!TypeOK,
         Settings_!RequestsCounted, Settings_!ManualKept, Settings_!Settings
    <2>3. Settings_!LastRequest' /\ Settings_!AnswerIsStored' /\ Settings_!ReadsFollow'
      BY <1>0, <1>1, <1>2, SMTT(20) DEF Settings_!StoreManual, Settings_!TypeOK, Settings_!LastRequest,
         Settings_!AnswerIsStored, Settings_!ReadsFollow, Settings_!Settings
    <2> QED BY <2>1, <2>2, <2>3, SettingsSettle
  <1>3. CASE Settings_!refreshProjectQueries \/ Settings_!Invalidate \/ Settings_!Read
             \/ Settings_!Deliver
    <2>1. /\ stored' = stored /\ manuals' = manuals /\ announced' \in {0, announced}
          /\ reads' \in 0..MaxReads
          /\ cached' \in Settings_!Settings
          /\ listRead' \in {Settings_!Idle, Settings_!Sent}
                             \cup {<<"answer", s>> : s \in Settings_!Settings}
      BY <1>0, <1>3 DEF Settings_!refreshProjectQueries, Settings_!Invalidate, Settings_!Read,
         Settings_!Deliver, Settings_!TypeOK
    <2>2. Settings_!TypeOK'
      BY <1>0, <1>1, <2>1 DEF Settings_!TypeOK
    <2>3. Settings_!RequestsCounted' /\ Settings_!ManualKept'
      BY <1>0, <1>1, <2>1 DEF Settings_!TypeOK, Settings_!RequestsCounted, Settings_!ManualKept
    <2>4. Settings_!LastRequest' /\ Settings_!AnswerIsStored'
      BY <1>0, <1>1, <2>1 DEF Settings_!LastRequest, Settings_!AnswerIsStored
    <2>5. Settings_!ReadsFollow'
      <3>1. CASE Settings_!refreshProjectQueries \/ Settings_!Invalidate
        <4>1. listRead' = Settings_!Sent /\ Settings_!Sent # Settings_!Idle
          BY <3>1 DEF Settings_!refreshProjectQueries, Settings_!Invalidate
        <4> QED BY <4>1 DEF Settings_!ReadsFollow
      <3>2. CASE Settings_!Read
        BY <3>2 DEF Settings_!Read, Settings_!ReadsFollow
      <3>3. CASE Settings_!Deliver
        BY <1>0, <3>3 DEF Settings_!Deliver, Settings_!ReadsFollow
      <3> QED BY <1>3, <3>1, <3>2, <3>3
    <2> QED BY <2>2, <2>3, <2>4, <2>5, SettingsSettle
  <1> QED BY <1>2, <1>3

(* ---------------------------- names and renames ------------------------- *)

USE DEF Names_!Commits

(* A settled reference is up to date, because its history says what has     *)
(* been reconciled.                                                         *)
LEMMA NamesSettle ==
    ASSUME Names_!TypeOK', Names_!RenamesLead', Names_!RefsKnown', Names_!DraftFollows',
           Names_!MarkFollows'
    PROVE  Names_!RenamesInv'
  <1>1. ASSUME Names_!Settled', NEW ref \in ({draft, mark} \ {None})', ref.ordered
        PROVE  ref.at = (Names_!Commits)' + 1
    <2>1. receipts' = 1..Len(renames')
      <3>1. /\ Len(renames') \in Nat /\ waiting' = {} /\ next' = Len(renames') + 1
            /\ receipts' \cup waiting' \cup next'..Len(renames') = 1..Len(renames')
        BY <1>1 DEF Names_!Settled, Names_!TypeOK
      <3>2. next'..Len(renames') = {}
        BY <3>1
      <3> QED BY <3>1, <3>2
    <2>2. receipts' = 1..ref.at - 1
      BY <1>1 DEF Names_!Settled, Names_!RefsKnown
    <2>3. ref \in Names_!Ref' /\ Len(renames') \in Nat /\ ref.at <= Len(renames') + 1
      BY <1>1 DEF Names_!TypeOK, Names_!RefsKnown
    <2>4. ref.at \in Nat \ {0}
      BY <2>3 DEF Names_!Ref
    <2>5. ASSUME Len(renames') > 0 PROVE Len(renames') \in 1..ref.at - 1
      <3>1. Len(renames') \in 1..Len(renames')
        BY <2>3, <2>5
      <3> QED BY <2>1, <2>2, <3>1
    <2> QED BY <2>3, <2>4, <2>5
  <1>2. Names_!UpToDate'
    BY <1>1 DEF Names_!UpToDate
  <1> QED BY <1>2 DEF Names_!RenamesInv

(* A project starts with one catalogue and nothing chosen.                  *)
LEMMA NamesInit ==
    ASSUME Names_!CatalogueAssumption, Names_!BoundsAssumption, Names_!Init
    PROVE  Names_!RenamesInv
  <1> USE DEF Names_!BoundsAssumption
  <1>1. /\ catalogue \in Seq(Names_!Catalogue) /\ Len(catalogue) = 1
        /\ renames = <<>> /\ renames \in Seq(Names_!Rename) /\ Len(renames) = 0
    BY DEF Names_!Init, Names_!CatalogueAssumption
  <1>2. Names_!TypeOK
    <2>1. workspaceBase \in BOOLEAN
      BY DEF Names_!Init
    <2> QED BY <1>1, <2>1 DEF Names_!Init, Names_!TypeOK
  <1>3. Names_!RenamesLead /\ Names_!RefsKnown
    BY <1>1 DEF Names_!Init, Names_!RenamesLead, Names_!RefsKnown
  <1>4. Names_!DraftFollows /\ Names_!MarkFollows /\ Names_!UpToDate
    BY DEF Names_!Init, Names_!DraftFollows, Names_!MarkFollows, Names_!UpToDate
  <1> QED BY <1>2, <1>3, <1>4 DEF Names_!RenamesInv

(* What is known of a rename of the history: it leads from its catalogue to *)
(* the next, in which all names are still distinct.                         *)
LEMMA RenameLeads ==
    ASSUME Names_!TypeOK, Names_!RenamesLead, NEW k \in 1..Names_!Commits
    PROVE  \E t \in Tables :
             /\ renames[k].type \in {"table", "column"}
             /\ renames[k].source = catalogue[k][t].name
             /\ \A u \in Tables : catalogue[k][u].name = catalogue[k][t].name => u = t
             /\ \A u \in Tables \ {t} : catalogue[k + 1][u] = catalogue[k][u]
             /\ catalogue[k + 1][t] = [name |-> IF renames[k].type = "table" THEN renames[k].after
                                                ELSE catalogue[k][t].name,
                                       column |-> IF renames[k].type = "table"
                                                  THEN catalogue[k][t].column
                                                  ELSE renames[k].after]
             /\ renames[k].type = "column" => renames[k].before = catalogue[k][t].column
             /\ catalogue[k + 1][t].name \in Names /\ catalogue[k + 1][t].column \in Columns
  <1>1. /\ renames[k] \in Names_!Rename /\ catalogue[k] \in Names_!Catalogue
        /\ catalogue[k + 1] \in Names_!Catalogue
    BY DEF Names_!TypeOK
  <1>2. PICK t \in Tables : Names_!Leads(k, t)
    BY DEF Names_!RenamesLead
  <1>3. /\ renames[k].type \in {"table", "column"}
        /\ renames[k].source = catalogue[k][t].name
        /\ renames[k].type = "column" => renames[k].before = catalogue[k][t].column
        /\ catalogue[k + 1] = [catalogue[k] EXCEPT ![t] =
              [name |-> IF renames[k].type = "table" THEN renames[k].after
                        ELSE catalogue[k][t].name,
               column |-> IF renames[k].type = "table" THEN catalogue[k][t].column
                          ELSE renames[k].after]]
    BY <1>1, <1>2 DEF Names_!Leads, Names_!Rename
  <1>4. /\ catalogue[k] \in [Tables -> Names_!Entry] /\ catalogue[k + 1] \in [Tables -> Names_!Entry]
        /\ \A u \in Tables : catalogue[k][u].name = catalogue[k][t].name => u = t
    BY <1>1 DEF Names_!Catalogue
  <1>5. catalogue[k + 1][t].name \in Names /\ catalogue[k + 1][t].column \in Columns
    BY <1>4 DEF Names_!Entry
  <1> QED BY <1>3, <1>4, <1>5

(* A rename that is the next one for an ordered reference keeps its name    *)
(* true; another one takes its order away.                                  *)
LEMMA RenamesFollow ==
    ASSUME Names_!BoundsAssumption, Names_!TypeOK, Names_!RenamesLead,
           NEW k \in 1..Names_!Commits, k \notin receipts,
           NEW ref \in Names_!Ref, ref.at <= Names_!Commits + 1,
           NEW new \in {Names_!Track(Names_!renameInput(ref, renames[k]), k),
                        Names_!Track(Names_!renameMark(ref, renames[k]), k)}
    PROVE  /\ new \in Names_!Ref /\ new.at <= Names_!Commits + 1 /\ new.of = ref.of
           /\ new.ordered => ref.ordered /\ ref.at = k /\ new.at = k + 1
           /\ new.ordered /\ ref.name = catalogue[ref.at][ref.of].name
              => new.name = catalogue[new.at][new.of].name
           /\ /\ new.ordered /\ ref.name = catalogue[ref.at][ref.of].name
              /\ ref.column = catalogue[ref.at][ref.of].column
              /\ new = Names_!Track(Names_!renameInput(ref, renames[k]), k)
              => new.column = catalogue[new.at][new.of].column
  <1> DEFINE r == renames[k]
  <1>1. PICK t \in Tables :
             /\ r.type \in {"table", "column"}
             /\ r.source = catalogue[k][t].name
             /\ \A u \in Tables : catalogue[k][u].name = catalogue[k][t].name => u = t
             /\ \A u \in Tables \ {t} : catalogue[k + 1][u] = catalogue[k][u]
             /\ catalogue[k + 1][t] = [name |-> IF r.type = "table" THEN r.after
                                                ELSE catalogue[k][t].name,
                                       column |-> IF r.type = "table" THEN catalogue[k][t].column
                                                  ELSE r.after]
             /\ r.type = "column" => r.before = catalogue[k][t].column
             /\ catalogue[k + 1][t].name \in Names /\ catalogue[k + 1][t].column \in Columns
    BY RenameLeads, Zenon
  <1>2. r.type = "table" => r.after \in Names
    BY <1>1
  <1>3. r.type = "column" => r.after \in Columns
    BY <1>1
  <1>4. /\ ref.name \in Names /\ ref.column \in Columns /\ ref.of \in Tables
        /\ ref.at \in 1..MaxRenames + 1 /\ ref.fresh \in BOOLEAN /\ ref.ordered \in BOOLEAN
    BY DEF Names_!Ref
  <1>5. k \in Nat /\ k + 1 <= Names_!Commits + 1 /\ k + 1 \in 1..MaxRenames + 1
    BY DEF Names_!TypeOK, Names_!BoundsAssumption
  <1> HIDE DEF r
  <1>6. PICK mid \in Names_!Ref :
             /\ mid.at = ref.at /\ mid.of = ref.of /\ mid.ordered = ref.ordered
             /\ mid.name = IF r.type = "table" /\ ref.name = r.source THEN r.after ELSE ref.name
             /\ new = Names_!Track(Names_!renameInput(ref, r), k) =>
                  mid.column = IF r.type = "column" /\ ref.name = r.source /\ ref.column = r.before
                               THEN r.after ELSE ref.column
             /\ new = Names_!Track(mid, k)
    <2>1. CASE new = Names_!Track(Names_!renameInput(ref, r), k)
      <3>1. Names_!renameInput(ref, r) \in Names_!Ref
        BY <1>1, <1>2, <1>3 DEF Names_!renameInput, Names_!Ref
      <3> QED BY <1>1, <2>1, <3>1 DEF Names_!renameInput, Names_!Ref
    <2>2. CASE new # Names_!Track(Names_!renameInput(ref, r), k)
      <3>1. Names_!renameMark(ref, r) \in Names_!Ref
        BY <1>2 DEF Names_!renameMark, Names_!Ref
      <3>2. new = Names_!Track(Names_!renameMark(ref, r), k)
        BY <2>2 DEF r
      <3> QED BY <1>1, <2>2, <3>1, <3>2 DEF Names_!renameMark, Names_!Ref
    <2> QED BY <2>1, <2>2
  <1>7. CASE ref.at = k
    <2>1. /\ new \in Names_!Ref /\ new.at = k + 1 /\ new.of = ref.of /\ new.ordered = ref.ordered
          /\ new.name = mid.name /\ new.column = mid.column
      BY <1>5, <1>6, <1>7 DEF Names_!Track, Names_!Ref
    <2>2. CASE ref.of = t
      BY <1>1, <1>4, <1>5, <1>6, <1>7, <2>1, <2>2 DEF r
    <2>3. CASE ref.of # t
      BY <1>1, <1>4, <1>5, <1>6, <1>7, <2>1, <2>3 DEF r
    <2> QED BY <2>2, <2>3
  <1>8. CASE ref.at # k
    <2>1. new \in Names_!Ref /\ new.at = ref.at /\ new.of = ref.of /\ new.ordered = FALSE
      BY <1>6, <1>8 DEF Names_!Track, Names_!Ref
    <2> QED BY <1>4, <2>1
  <1> QED BY <1>7, <1>8

(* A rename is committed, by this window or another.                        *)
LEMMA CommitsKeepNames ==
    ASSUME Names_!BoundsAssumption, Names_!RenamesInv,
           \/ \E t \in Tables, n \in Names, here \in BOOLEAN : Names_!renameNode(t, n, here)
           \/ \E t \in Tables, c \in Columns, here \in BOOLEAN : Names_!changeColumn(t, c, here)
    PROVE  Names_!RenamesInv'
  <1> USE DEF Names_!BoundsAssumption
  <1> DEFINE c == Len(renames)
  <1> DEFINE now == catalogue[c + 1]
  <1>0. Names_!TypeOK /\ Names_!RenamesLead /\ Names_!RefsKnown /\ Names_!DraftFollows
        /\ Names_!MarkFollows
    BY DEF Names_!RenamesInv
  <1>1. /\ catalogue \in Seq(Names_!Catalogue) /\ Len(catalogue) = c + 1
        /\ renames \in Seq(Names_!Rename) /\ c \in Nat /\ now \in Names_!Catalogue
    BY <1>0 DEF Names_!TypeOK
  <1>2. PICK t \in Tables, change \in Names_!Rename, here \in BOOLEAN :
             /\ Names_!Commit(t, change, here)
             /\ change.source = now[t].name
             /\ change.before = IF change.type = "table" THEN now[t].name ELSE now[t].column
             /\ change.type = "table" => change.after \in Names /\ \A s \in Tables : now[s].name # change.after
             /\ change.type = "column" => change.after \in Columns
    <2>1. now \in [Tables -> Names_!Entry]
      BY <1>1 DEF Names_!Catalogue
    <2>2. ASSUME NEW t \in Tables, NEW n \in Names, NEW here \in BOOLEAN,
                 Names_!renameNode(t, n, here)
          PROVE  \E change \in Names_!Rename :
             /\ Names_!Commit(t, change, here)
             /\ change.source = now[t].name
             /\ change.before = IF change.type = "table" THEN now[t].name ELSE now[t].column
             /\ change.type = "table" => change.after \in Names /\ \A s \in Tables : now[s].name # change.after
             /\ change.type = "column" => change.after \in Columns
      <3> DEFINE ch == [type |-> "table", source |-> now[t].name, before |-> now[t].name, after |-> n]
      <3>1. ch \in Names_!Rename
        BY <2>1 DEF Names_!Rename, Names_!Entry
      <3>2. Names_!Commit(t, ch, here) /\ \A s \in Tables : now[s].name # n
        BY <2>2 DEF Names_!renameNode
      <3> QED BY <3>1, <3>2
    <2>3. ASSUME NEW t \in Tables, NEW n \in Columns, NEW here \in BOOLEAN,
                 Names_!changeColumn(t, n, here)
          PROVE  \E change \in Names_!Rename :
             /\ Names_!Commit(t, change, here)
             /\ change.source = now[t].name
             /\ change.before = IF change.type = "table" THEN now[t].name ELSE now[t].column
             /\ change.type = "table" => change.after \in Names /\ \A s \in Tables : now[s].name # change.after
             /\ change.type = "column" => change.after \in Columns
      <3> DEFINE ch == [type |-> "column", source |-> now[t].name, before |-> now[t].column, after |-> n]
      <3>1. ch \in Names_!Rename
        BY <2>1 DEF Names_!Rename, Names_!Entry
      <3>2. Names_!Commit(t, ch, here)
        BY <2>3 DEF Names_!changeColumn
      <3> QED BY <3>1, <3>2
    <2> QED BY <2>2, <2>3
  <1> DEFINE new == [now EXCEPT ![t] =
                       [name |-> IF change.type = "table" THEN change.after ELSE now[t].name,
                        column |-> IF change.type = "table" THEN now[t].column ELSE change.after]]
  <1>3. /\ c < MaxRenames /\ renames' = Append(renames, change)
        /\ catalogue' = Append(catalogue, new)
        /\ waiting' = (IF here THEN waiting \cup {c + 1} ELSE waiting)
        /\ UNCHANGED <<next, receipts, graph, workspaceBase, draft, mark, picks, visits>>
    <2>1. now \in [Tables -> Names_!Entry] /\ change.type \in {"table", "column"}
      BY <1>1 DEF Names_!Catalogue, Names_!Rename
    <2>2. now[t] \in Names_!Entry
      BY <2>1
    <2>3. [now EXCEPT ![t] = IF change.type = "table" THEN [now[t] EXCEPT !.name = change.after]
                             ELSE [now[t] EXCEPT !.column = change.after]] = new
      <3>1. (IF change.type = "table" THEN [now[t] EXCEPT !.name = change.after]
             ELSE [now[t] EXCEPT !.column = change.after])
            = [name |-> IF change.type = "table" THEN change.after ELSE now[t].name,
               column |-> IF change.type = "table" THEN now[t].column ELSE change.after]
        BY <2>2 DEF Names_!Entry
      <3> QED BY <3>1
    <2> QED BY <1>2, <2>3 DEF Names_!Commit
  <1>4. new \in Names_!Catalogue
    <2>1. now \in [Tables -> Names_!Entry] /\ change.type \in {"table", "column"}
          /\ \A s, u \in Tables : now[s].name = now[u].name => s = u
      BY <1>1 DEF Names_!Catalogue, Names_!Rename
    <2>2. new \in [Tables -> Names_!Entry]
      BY <1>2, <2>1 DEF Names_!Entry
    <2>3. \A s, u \in Tables : new[s].name = new[u].name => s = u
      BY <1>2, <2>1
    <2> QED BY <2>2, <2>3 DEF Names_!Catalogue
  <1> HIDE DEF now, new, c
  <1>5. /\ catalogue' \in Seq(Names_!Catalogue) /\ Len(catalogue') = c + 2
        /\ renames' \in Seq(Names_!Rename) /\ Len(renames') = c + 1
        /\ \A i \in 1..c + 1 : catalogue'[i] = catalogue[i]
        /\ catalogue'[c + 2] = new /\ renames'[c + 1] = change
        /\ \A i \in 1..c : renames'[i] = renames[i]
    BY <1>1, <1>3, <1>4 DEF c
  <1>6. Names_!TypeOK'
    <2>1. workspaceBase' \in BOOLEAN
      BY <1>0, <1>3 DEF Names_!TypeOK
    <2>2. c + 1 <= MaxRenames
      BY <1>1, <1>3
    <2>3. /\ waiting' \subseteq 1..c + 1 /\ next' \in 1..c + 2 /\ receipts' \subseteq 1..c + 1
          /\ graph' \in 1..c + 2
      <3>1. /\ waiting \subseteq 1..c /\ next \in 1..c + 1 /\ receipts \subseteq 1..c
            /\ graph \in 1..c + 1
        BY <1>0 DEF Names_!TypeOK, c
      <3>2. 1..c \subseteq 1..c + 1 /\ 1..c + 1 \subseteq 1..c + 2 /\ c + 1 \in 1..c + 1
        BY <1>1
      <3> QED BY <1>3, <3>1, <3>2
    <2>4. /\ draft' \in Names_!Ref \cup {None} /\ mark' \in Names_!Ref \cup {None}
          /\ picks' \in 0..MaxPicks /\ visits' \in 0..MaxVisits
      BY <1>0, <1>3 DEF Names_!TypeOK
    <2>5. (workspaceBase => receipts \cup waiting' \cup next..(c + 1) = 1..c + 1) \/ visits > 0
      <3>1. next \in 1..c + 1
        BY <1>0 DEF Names_!TypeOK, c
      <3>2. 1..c + 1 = (1..c) \cup {c + 1} /\ next..(c + 1) = (next..c) \cup {c + 1}
        BY <1>1, <3>1
      <3>3. (workspaceBase => receipts \cup waiting \cup next..c = 1..c) \/ visits > 0
        BY <1>0 DEF Names_!TypeOK, c
      <3>4. waiting' = waiting \/ waiting' = waiting \cup {c + 1}
        BY <1>3
      <3> QED BY <3>2, <3>3, <3>4
    <2>6. /\ Len(renames') = c + 1 /\ Len(renames') + 1 = c + 2
      BY <1>1, <1>5
    <2> QED BY <1>3, <1>5, <2>1, <2>2, <2>3, <2>4, <2>5, <2>6 DEF Names_!TypeOK
  <1>7. Names_!RenamesLead'
    <2>1. ASSUME NEW u \in Tables, NEW i \in 1..c, Names_!Leads(i, u)
          PROVE  Names_!Leads(i, u)'
      <3>1. i \in 1..c + 1 /\ i + 1 \in 1..c + 1
        BY <1>1
      <3>2. catalogue'[i] = catalogue[i] /\ catalogue'[i + 1] = catalogue[i + 1]
            /\ renames'[i] = renames[i]
        BY <1>5, <3>1
      <3> QED BY <2>1, <3>2 DEF Names_!Leads
    <2>2. ASSUME NEW i \in Nat, i = c + 1
          PROVE  Names_!Leads(i, t)'
      <3>1. renames'[i] = change /\ catalogue'[i] = now /\ catalogue'[i + 1] = new
        <4>1. c + 1 \in 1..c + 1 /\ i + 1 = c + 2
          BY <1>1, <2>2
        <4> QED BY <1>5, <2>2, <4>1 DEF now
      <3>2. catalogue'[i + 1] = [catalogue'[i] EXCEPT ![t] =
              [name |-> IF renames'[i].type = "table" THEN renames'[i].after
                        ELSE catalogue'[i][t].name,
               column |-> IF renames'[i].type = "table" THEN catalogue'[i][t].column
                          ELSE renames'[i].after]]
        BY <3>1 DEF new
      <3>3. /\ renames'[i].source = catalogue'[i][t].name
            /\ renames'[i].before = IF renames'[i].type = "table" THEN catalogue'[i][t].name
                                    ELSE catalogue'[i][t].column
        BY <1>2, <3>1
      <3> QED BY <3>2, <3>3, Zenon DEF Names_!Leads
    <2>3. \A i \in 1..c + 1 : i \in 1..c \/ i = c + 1
      BY <1>1
    <2>4. ASSUME NEW i \in 1..c + 1
          PROVE  \E u \in Tables : Names_!Leads(i, u)'
      <3>1. CASE i = c + 1
        BY <1>1, <2>2, <3>1
      <3>2. CASE i \in 1..c
        <4>1. PICK u \in Tables : Names_!Leads(i, u)
          BY <1>0, <3>2 DEF Names_!RenamesLead, c
        <4> QED BY <2>1, <3>2, <4>1
      <3> QED BY <2>3, <3>1, <3>2
    <2>5. Len(renames') = c + 1
      BY <1>5
    <2> QED BY <2>4, <2>5 DEF Names_!RenamesLead
  <1>8. Names_!RefsKnown'
    <2>1. \A ref \in {draft, mark} \ {None} : ref.at \in Nat /\ ref.at <= c + 1
      BY <1>0 DEF Names_!TypeOK, Names_!Ref, Names_!RefsKnown, c
    <2> QED BY <1>0, <1>1, <1>3, <1>5, <2>1 DEF Names_!RefsKnown
  <1>9. Names_!DraftFollows' /\ Names_!MarkFollows'
    <2>1. \A ref \in {draft, mark} \ {None} : ref.at \in 1..c + 1
      BY <1>0, <1>1 DEF Names_!TypeOK, Names_!Ref, Names_!RefsKnown, c
    <2> QED
      BY <1>0, <1>3, <1>5, <2>1 DEF Names_!DraftFollows, Names_!MarkFollows, Names_!Names_it
  <1> QED BY <1>6, <1>7, <1>8, <1>9, NamesSettle

(* A delivery is reconciled: once for each rename, by whichever way it      *)
(* comes first.                                                             *)
LEMMA DeliveriesKeepNames ==
    ASSUME Names_!BoundsAssumption, Names_!RenamesInv,
           \/ \E k \in waiting : Names_!Response(k)
           \/ Names_!Event
    PROVE  Names_!RenamesInv'
  <1> USE DEF Names_!BoundsAssumption
  <1> DEFINE c == Len(renames)
  <1>0. Names_!TypeOK /\ Names_!RenamesLead /\ Names_!RefsKnown /\ Names_!DraftFollows
        /\ Names_!MarkFollows
    BY DEF Names_!RenamesInv
  <1>1. /\ c \in Nat /\ waiting \subseteq 1..c /\ next \in 1..c + 1 /\ receipts \subseteq 1..c
        /\ workspaceBase \in BOOLEAN /\ draft \in Names_!Ref \cup {None}
        /\ mark \in Names_!Ref \cup {None}
        /\ (workspaceBase => receipts \cup waiting \cup next..c = 1..c) \/ visits > 0
    BY <1>0 DEF Names_!TypeOK
  <1>2. PICK k \in 1..c :
             /\ Names_!reconcileProjectRenames(k)
             /\ waiting' \subseteq 1..c /\ next' \in 1..c + 1
             /\ waiting \cup next..c \subseteq waiting' \cup next'..c \cup {k}
             /\ UNCHANGED <<catalogue, renames, graph, workspaceBase, picks, visits>>
    <2>1. CASE \E k \in waiting : Names_!Response(k)
      BY <1>1, <2>1 DEF Names_!Response
    <2>2. CASE Names_!Event
      <3>1. next \in 1..c /\ next + 1 \in 1..c + 1 /\ next..c = {next} \cup (next + 1)..c
        BY <1>1, <2>2 DEF Names_!Event
      <3> QED BY <1>1, <2>2, <3>1 DEF Names_!Event
    <2> QED BY <2>1, <2>2
  <1> HIDE DEF c
  <1>3. /\ receipts' = receipts \cup {k}
        /\ k \in receipts => draft' = draft /\ mark' = mark
        /\ k \notin receipts =>
             /\ draft' = IF draft = None THEN None
                         ELSE Names_!Track(Names_!renameInput(draft, renames[k]), k)
             /\ mark' = IF mark = None \/ ~workspaceBase THEN mark
                        ELSE Names_!Track(Names_!renameMark(mark, renames[k]), k)
    BY <1>2 DEF Names_!reconcileProjectRenames, Names_!reconcileAnalysisDrafts,
                Names_!reconcileWorkspace
  <1>4. /\ k \in 1..Len(renames)
        /\ \A ref \in {draft, mark} \ {None} :
             ref \in Names_!Ref /\ ref.at <= Len(renames) + 1 /\ ref.at \in Nat
    BY <1>0, <1>1, <1>2 DEF Names_!RefsKnown, Names_!Ref, c
  <1>5. ASSUME draft' # None
        PROVE  /\ draft' \in Names_!Ref /\ draft'.at <= c + 1
               /\ draft'.ordered => /\ receipts' = 1..draft'.at - 1
                                    /\ draft'.name = catalogue[draft'.at][draft'.of].name
                                    /\ draft'.column = catalogue[draft'.at][draft'.of].column
    <2>1. CASE k \in receipts
      <3>1. receipts' = receipts
        BY <1>3, <2>1
      <3> QED
        BY <1>0, <1>1, <1>3, <1>4, <1>5, <2>1, <3>1
           DEF Names_!RefsKnown, Names_!DraftFollows, Names_!Names_it, c
    <2>2. CASE k \notin receipts
      <3>1. /\ draft # None /\ draft \in Names_!Ref /\ draft.at <= Len(renames) + 1
            /\ draft' = Names_!Track(Names_!renameInput(draft, renames[k]), k)
        BY <1>3, <1>4, <1>5, <2>2
      <3>2. PICK new : new = draft'
        OBVIOUS
      <3>3. /\ new \in Names_!Ref /\ new.at <= Len(renames) + 1 /\ new.of = draft.of
            /\ new.ordered => draft.ordered /\ draft.at = k /\ new.at = k + 1
            /\ new.ordered /\ draft.name = catalogue[draft.at][draft.of].name
               => new.name = catalogue[new.at][new.of].name
            /\ new.ordered /\ draft.name = catalogue[draft.at][draft.of].name
               /\ draft.column = catalogue[draft.at][draft.of].column
               => new.column = catalogue[new.at][new.of].column
        <4>1. new \in {Names_!Track(Names_!renameInput(draft, renames[k]), k),
                       Names_!Track(Names_!renameMark(draft, renames[k]), k)}
          BY <3>1, <3>2
        <4>2. k \in 1..Names_!Commits /\ draft.at <= Names_!Commits + 1
          BY <1>4, <3>1
        <4> HIDE DEF Names_!BoundsAssumption, Names_!Commits
        <4>3. Len(renames) = Names_!Commits
          BY DEF Names_!Commits
        <4> QED BY <1>0, <2>2, <3>1, <3>2, <4>1, <4>2, <4>3, RenamesFollow
      <3>4. ASSUME new.ordered PROVE receipts' = 1..new.at - 1
        <4>1. receipts = 1..k - 1 /\ new.at = k + 1
          BY <1>0, <3>1, <3>3, <3>4 DEF Names_!RefsKnown
        <4>2. 1..(k + 1) - 1 = 1..k - 1 \cup {k}
          BY <1>1
        <4> QED BY <1>3, <4>1, <4>2
      <3>5. new.ordered => /\ draft.name = catalogue[draft.at][draft.of].name
                           /\ draft.column = catalogue[draft.at][draft.of].column
        BY <1>0, <3>1, <3>3 DEF Names_!DraftFollows, Names_!Names_it
      <3> QED BY <3>2, <3>3, <3>4, <3>5 DEF c
    <2> QED BY <2>1, <2>2
  <1>6. ASSUME mark' # None
        PROVE  /\ mark' \in Names_!Ref /\ mark'.at <= c + 1
               /\ visits = 0 /\ mark'.ordered => receipts' = 1..mark'.at - 1
               /\ mark'.ordered => mark'.name = catalogue[mark'.at][mark'.of].name
    <2>1. CASE k \in receipts \/ ~workspaceBase
      <3>1. mark' = mark /\ (visits = 0 => receipts' = receipts)
        BY <1>0, <1>3, <2>1 DEF Names_!RefsKnown
      <3> QED
        BY <1>0, <1>1, <1>4, <1>6, <3>1
           DEF Names_!RefsKnown, Names_!MarkFollows, Names_!Names_it, c
    <2>2. CASE k \notin receipts /\ workspaceBase
      <3>1. /\ mark # None /\ mark \in Names_!Ref /\ mark.at <= Len(renames) + 1
            /\ mark' = Names_!Track(Names_!renameMark(mark, renames[k]), k)
        BY <1>3, <1>4, <1>6, <2>2
      <3>2. PICK new : new = mark'
        OBVIOUS
      <3>3. /\ new \in Names_!Ref /\ new.at <= Len(renames) + 1 /\ new.of = mark.of
            /\ new.ordered => mark.ordered /\ mark.at = k /\ new.at = k + 1
            /\ new.ordered /\ mark.name = catalogue[mark.at][mark.of].name
               => new.name = catalogue[new.at][new.of].name
        <4>1. new \in {Names_!Track(Names_!renameInput(mark, renames[k]), k),
                       Names_!Track(Names_!renameMark(mark, renames[k]), k)}
          BY <3>1, <3>2
        <4>2. k \in 1..Names_!Commits /\ mark.at <= Names_!Commits + 1
          BY <1>4, <3>1
        <4> HIDE DEF Names_!BoundsAssumption, Names_!Commits
        <4>3. Len(renames) = Names_!Commits
          BY DEF Names_!Commits
        <4> QED BY <1>0, <2>2, <3>1, <3>2, <4>1, <4>2, <4>3, RenamesFollow
      <3>4. ASSUME visits = 0, new.ordered PROVE receipts' = 1..new.at - 1
        <4>1. receipts = 1..k - 1 /\ new.at = k + 1
          BY <1>0, <3>1, <3>3, <3>4 DEF Names_!RefsKnown
        <4>2. 1..(k + 1) - 1 = 1..k - 1 \cup {k}
          BY <1>1
        <4> QED BY <1>3, <4>1, <4>2
      <3>5. new.ordered => mark.name = catalogue[mark.at][mark.of].name
        BY <1>0, <3>1, <3>3 DEF Names_!MarkFollows, Names_!Names_it
      <3> QED BY <3>2, <3>3, <3>4, <3>5 DEF c
    <2> QED BY <2>1, <2>2
  <1>7. Names_!TypeOK'
    <2>1. (workspaceBase => receipts' \cup waiting' \cup next'..c = 1..c) \/ visits > 0
      <3>1. receipts' \subseteq 1..c /\ next'..c \subseteq 1..c
        BY <1>1, <1>2, <1>3
      <3> QED BY <1>1, <1>2, <1>3, <3>1
    <2>2. receipts' \subseteq 1..c
      BY <1>1, <1>2, <1>3
    <2>3. draft' \in Names_!Ref \cup {None} /\ mark' \in Names_!Ref \cup {None}
      BY <1>5, <1>6
    <2>4. workspaceBase' \in BOOLEAN
      BY <1>1, <1>2
    <2> QED BY <1>0, <1>2, <2>1, <2>2, <2>3, <2>4 DEF Names_!TypeOK, c
  <1>8. Names_!RenamesLead'
    BY <1>0, <1>2 DEF Names_!RenamesLead, Names_!Leads
  <1>9. Names_!RefsKnown'
    <2>1. visits' = visits /\ workspaceBase' = workspaceBase /\ Len(renames') = c
          /\ (visits = 0 => workspaceBase)
      BY <1>0, <1>2 DEF Names_!RefsKnown, c
    <2> QED BY <1>5, <1>6, <2>1 DEF Names_!RefsKnown
  <1>10. Names_!DraftFollows' /\ Names_!MarkFollows'
    BY <1>2, <1>5, <1>6 DEF Names_!DraftFollows, Names_!MarkFollows, Names_!Names_it
  <1> QED BY <1>7, <1>8, <1>9, <1>10, NamesSettle

(* What the user does in the window, and the graph it chooses from.         *)
LEMMA WindowKeepsNames ==
    ASSUME Names_!BoundsAssumption, Names_!RenamesInv,
           \/ Names_!Refetch
           \/ \E t \in Tables : Names_!setDraft(t)
           \/ \E t \in Tables : Names_!toggleNode(t)
           \/ Names_!Leave
           \/ Names_!Return
    PROVE  Names_!RenamesInv'
  <1> USE DEF Names_!BoundsAssumption
  <1> DEFINE c == Len(renames)
  <1>0. Names_!TypeOK /\ Names_!RenamesLead /\ Names_!RefsKnown /\ Names_!DraftFollows
        /\ Names_!MarkFollows
    BY DEF Names_!RenamesInv
  <1>1. /\ c \in Nat /\ c <= MaxRenames /\ graph \in 1..c + 1 /\ next \in 1..c + 1
        /\ catalogue \in Seq(Names_!Catalogue) /\ Len(catalogue) = c + 1
        /\ draft \in Names_!Ref \cup {None} /\ mark \in Names_!Ref \cup {None}
        /\ picks \in 0..MaxPicks /\ visits \in 0..MaxVisits /\ workspaceBase \in BOOLEAN
        /\ (workspaceBase => receipts \cup waiting \cup next..c = 1..c) \/ visits > 0
    BY <1>0 DEF Names_!TypeOK
  <1>2. ASSUME NEW t \in Tables
        PROVE  /\ Names_!Pick(t) \in Names_!Ref
               /\ Names_!Pick(t).name = catalogue[graph][t].name
               /\ Names_!Pick(t).column = catalogue[graph][t].column
               /\ Names_!Pick(t).of = t /\ Names_!Pick(t).at = graph
               /\ Names_!Pick(t).ordered => receipts = 1..graph - 1
    <2>1. catalogue[graph] \in Names_!Catalogue
      BY <1>1
    <2>2. catalogue[graph][t] \in Names_!Entry
      BY <2>1 DEF Names_!Catalogue
    <2>3. catalogue[graph][t].name \in Names /\ catalogue[graph][t].column \in Columns
      BY <2>2 DEF Names_!Entry
    <2>4. (receipts = 1..graph - 1) \in BOOLEAN /\ graph \in 1..MaxRenames + 1
      BY <1>1
    <2> QED BY <2>3, <2>4 DEF Names_!Pick, Names_!Ref
  <1>3. /\ catalogue' = catalogue /\ renames' = renames /\ waiting' = waiting
        /\ receipts' = receipts
        /\ next' \in {next, c + 1} /\ graph' \in {graph, c + 1}
        /\ picks' \in 0..MaxPicks /\ visits' \in 0..MaxVisits /\ workspaceBase' \in BOOLEAN
        /\ visits' = 0 => visits = 0 /\ workspaceBase' = workspaceBase /\ next' = next
        /\ \/ draft' = draft
           \/ \E t \in Tables : draft' = Names_!Pick(t)
        /\ \/ mark' \in {mark, None}
           \/ \E t \in Tables : mark' = Names_!Pick(t)
        /\ visits' >= visits
        /\ workspaceBase' /\ next' # next => visits > 0
    <2>1. CASE Names_!Refetch
      BY <1>1, <2>1 DEF Names_!Refetch, Names_!retain
    <2>2. CASE \E t \in Tables : Names_!setDraft(t)
      BY <1>1, <2>2 DEF Names_!setDraft
    <2>3. CASE \E t \in Tables : Names_!toggleNode(t)
      BY <1>1, <2>3 DEF Names_!toggleNode
    <2>4. CASE Names_!Leave
      <3>1. visits' = visits + 1 /\ visits' \in 0..MaxVisits /\ visits' # 0
        BY <1>1, <2>4 DEF Names_!Leave
      <3>2. workspaceBase' = FALSE
        BY <2>4 DEF Names_!Leave
      <3>3. workspaceBase' \in BOOLEAN
        BY <3>2
      <3>4. UNCHANGED <<catalogue, renames, waiting, next, receipts, graph, draft, mark, picks>>
        BY <2>4 DEF Names_!Leave
      <3>5. visits' >= visits /\ (visits' = 0 => FALSE) /\ ~(workspaceBase' /\ next' # next)
        BY <1>1, <3>1, <3>2, <3>4
      <3> QED BY <1>1, <3>1, <3>3, <3>4, <3>5
    <2>5. CASE Names_!Return
      <3>1. visits > 0
        BY <1>0, <1>1, <2>5 DEF Names_!Return, Names_!RefsKnown
      <3>2. workspaceBase' = TRUE /\ next' = c + 1 /\ visits' = visits
        BY <2>5 DEF Names_!Return
      <3>3. mark' \in {mark, None}
        BY <2>5 DEF Names_!Return, Names_!retain
      <3>4. workspaceBase' \in BOOLEAN
        BY <3>2
      <3>5. next' \in {next, c + 1} /\ (visits' = 0 => FALSE) /\ visits' >= visits
        BY <1>1, <3>1, <3>2
      <3>6. UNCHANGED <<catalogue, renames, waiting, receipts, graph, draft, picks, visits>>
        BY <2>5 DEF Names_!Return
      <3> QED BY <1>1, <3>1, <3>3, <3>4, <3>5, <3>6
    <2> QED BY <2>1, <2>2, <2>3, <2>4, <2>5
  <1>4. ASSUME draft' # None
        PROVE  /\ draft' \in Names_!Ref /\ draft'.at <= c + 1
               /\ draft'.ordered => /\ receipts' = 1..draft'.at - 1
                                    /\ draft'.name = catalogue[draft'.at][draft'.of].name
                                    /\ draft'.column = catalogue[draft'.at][draft'.of].column
    <2>1. CASE draft' = draft
      BY <1>0, <1>1, <1>3, <1>4, <2>1 DEF Names_!RefsKnown, Names_!DraftFollows, Names_!Names_it
    <2>2. CASE \E t \in Tables : draft' = Names_!Pick(t)
      BY <1>1, <1>2, <1>3, <2>2
    <2> QED BY <1>3, <2>1, <2>2
  <1>5. ASSUME mark' # None
        PROVE  /\ mark' \in Names_!Ref /\ mark'.at <= c + 1
               /\ visits' = 0 /\ mark'.ordered => receipts' = 1..mark'.at - 1
               /\ mark'.ordered => mark'.name = catalogue[mark'.at][mark'.of].name
    <2>1. CASE mark' = mark
      BY <1>0, <1>1, <1>3, <1>5, <2>1 DEF Names_!RefsKnown, Names_!MarkFollows, Names_!Names_it
    <2>2. CASE \E t \in Tables : mark' = Names_!Pick(t)
      BY <1>1, <1>2, <1>3, <2>2
    <2> QED BY <1>3, <1>5, <2>1, <2>2
  <1>6. Names_!TypeOK'
    <2>1. draft' \in Names_!Ref \cup {None} /\ mark' \in Names_!Ref \cup {None}
      BY <1>4, <1>5
    <2>2. next' \in 1..c + 1 /\ graph' \in 1..c + 1
      BY <1>1, <1>3
    <2>3. (workspaceBase' => receipts \cup waiting \cup next'..c = 1..c) \/ visits' > 0
      BY <1>1, <1>3
    <2> QED BY <1>0, <1>3, <2>1, <2>2, <2>3 DEF Names_!TypeOK
  <1>7. Names_!RenamesLead'
    BY <1>0, <1>3 DEF Names_!RenamesLead, Names_!Leads
  <1>8. Names_!RefsKnown'
    BY <1>0, <1>3, <1>4, <1>5 DEF Names_!RefsKnown
  <1>9. Names_!DraftFollows' /\ Names_!MarkFollows'
    BY <1>3, <1>4, <1>5 DEF Names_!DraftFollows, Names_!MarkFollows, Names_!Names_it
  <1> QED BY <1>6, <1>7, <1>8, <1>9, NamesSettle

(* What the names theorem comes to: for any number of tables, renames and   *)
(* references, references follow the renames applied to them in order and   *)
(* are up to date once everything has arrived.                              *)
THEOREM ReferencesAreFollowed == Spec => []ReferencesFollow
  <1>0. Names_!CatalogueAssumption /\ Names_!BoundsAssumption
    BY CachesAssumption
  <1>1. ASSUME Init PROVE ReferencesFollow
    BY <1>0, <1>1, NamesInit DEF Init, ReferencesFollow
  <1>2. ASSUME ReferencesFollow, [Next]_vars PROVE ReferencesFollow'
    <2> SUFFICES ASSUME part' = "names" PROVE Names_!RenamesInv'
      BY DEF ReferencesFollow
    <2>1. CASE part = "names" /\ Names_!Next
      <3>0. Names_!RenamesInv
        BY <1>2, <2>1 DEF ReferencesFollow
      <3>1. CASE \/ \E t \in Tables, n \in Names, here \in BOOLEAN : Names_!renameNode(t, n, here)
                 \/ \E t \in Tables, c \in Columns, here \in BOOLEAN : Names_!changeColumn(t, c, here)
        BY <1>0, <3>0, <3>1, CommitsKeepNames
      <3>2. CASE (\E k \in waiting : Names_!Response(k)) \/ Names_!Event
        BY <1>0, <3>0, <3>2, DeliveriesKeepNames
      <3>3. CASE \/ Names_!Refetch
                 \/ \E t \in Tables : Names_!setDraft(t)
                 \/ \E t \in Tables : Names_!toggleNode(t)
                 \/ Names_!Leave
                 \/ Names_!Return
        BY <1>0, <3>0, <3>3, WindowKeepsNames
      <3> QED BY <2>1, <3>1, <3>2, <3>3 DEF Names_!Next
    <2>2. CASE UNCHANGED <<part, names>>
      <3>0. Names_!RenamesInv
        BY <1>2, <2>2 DEF ReferencesFollow
      <3>1. UNCHANGED Names_!vars
        BY <2>2 DEF names, Names_!vars
      <3>2. Names_!TypeOK' /\ Names_!RenamesLead' /\ Names_!RefsKnown' /\ Names_!DraftFollows'
            /\ Names_!MarkFollows'
        BY <3>0, <3>1, SMTT(20) DEF Names_!RenamesInv, Names_!TypeOK, Names_!RenamesLead, Names_!Leads,
             Names_!RefsKnown, Names_!DraftFollows, Names_!MarkFollows, Names_!Names_it, Names_!vars
      <3> QED BY <3>2, NamesSettle
    <2>3. part' = part
      BY <1>2 DEF Next, vars
    <2> QED BY <1>2, <2>1, <2>2, <2>3 DEF Next, vars
  <1> QED BY <1>1, <1>2, PTL DEF Spec

(* ------------------------------- the tabs ------------------------------- *)

(* The bounds of the tabs are numbers.                                      *)
LEMMA BoundsAreNatural ==
    /\ MaxTabs \in Nat \ {0} /\ MaxCalls \in Nat /\ MaxElsewhere \in Nat
    /\ \A r \in Tabs_!Row : r.name \in Nat /\ r.pos \in Nat
  <1>1. MaxTabs \in Nat \ {0} /\ MaxCalls \in Nat /\ MaxElsewhere \in Nat
    BY CachesAssumption DEF Tabs_!BoundsAssumption
  <1> QED BY <1>1 DEF Tabs_!Row

(* A list of tabs is a function from identities to rows.                    *)
LEMMA ListType ==
    ASSUME NEW f
    PROVE  f \in Tabs_!Rows <=> f \in [DOMAIN f -> Tabs_!Row] /\ DOMAIN f \subseteq Tabs_!Ids
  <1>1. ASSUME f \in Tabs_!Rows
        PROVE  f \in [DOMAIN f -> Tabs_!Row] /\ DOMAIN f \subseteq Tabs_!Ids
    <2>1. PICK S \in SUBSET Tabs_!Ids : f \in [S -> Tabs_!Row]
      BY <1>1 DEF Tabs_!Rows
    <2> QED BY <2>1
  <1>2. ASSUME f \in [DOMAIN f -> Tabs_!Row], DOMAIN f \subseteq Tabs_!Ids
        PROVE  f \in Tabs_!Rows
    BY <1>2 DEF Tabs_!Rows
  <1> QED BY <1>1, <1>2

(* The empty list, and lists with a tab added or taken away.                *)
LEMMA EmptyList == <<>> \in Tabs_!Rows /\ DOMAIN <<>> = {} /\ <<>> # Tabs_!Unread
  <1>1. DOMAIN <<>> = {} /\ <<>> \in [{} -> Tabs_!Row]
    OBVIOUS
  <1>2. DOMAIN Tabs_!Unread = {0}
    BY DEF Tabs_!Unread
  <1> QED BY <1>1, <1>2, ListType

LEMMA ListIsRead ==
    ASSUME NEW f \in Tabs_!Rows
    PROVE  f # Tabs_!Unread
  <1>1. DOMAIN Tabs_!Unread = {0} /\ 0 \notin Tabs_!Ids
    BY DEF Tabs_!Unread, Tabs_!Ids
  <1> QED BY <1>1, ListType

LEMMA ListAdd ==
    ASSUME NEW f \in Tabs_!Rows, NEW i \in Tabs_!Ids, NEW r \in Tabs_!Row
    PROVE  /\ Tabs_!With(f, i, r) \in Tabs_!Rows
           /\ DOMAIN Tabs_!With(f, i, r) = DOMAIN f \cup {i}
           /\ Tabs_!With(f, i, r)[i] = r
           /\ \A j \in DOMAIN f \ {i} : Tabs_!With(f, i, r)[j] = f[j]
           /\ i \in DOMAIN f /\ r = f[i] => Tabs_!With(f, i, r) = f
  <1>0. f \in [DOMAIN f -> Tabs_!Row] /\ DOMAIN f \subseteq Tabs_!Ids
    BY ListType
  <1> DEFINE g == Tabs_!With(f, i, r)
  <1>1. g = [j \in DOMAIN f \cup {i} |-> IF j = i THEN r ELSE f[j]]
    BY DEF Tabs_!With
  <1>2. g \in [DOMAIN f \cup {i} -> Tabs_!Row] /\ DOMAIN g = DOMAIN f \cup {i}
    BY <1>0, <1>1
  <1>3. g \in Tabs_!Rows
    BY <1>0, <1>2, ListType
  <1>4. i \in DOMAIN f /\ r = f[i] => g = f
    BY <1>0, <1>1
  <1> QED BY <1>1, <1>2, <1>3, <1>4

LEMMA ListDrop ==
    ASSUME NEW f \in Tabs_!Rows, NEW i
    PROVE  /\ Tabs_!Without(f, i) \in Tabs_!Rows
           /\ DOMAIN Tabs_!Without(f, i) = DOMAIN f \ {i}
           /\ \A j \in DOMAIN f \ {i} : Tabs_!Without(f, i)[j] = f[j]
           /\ i \notin DOMAIN f => Tabs_!Without(f, i) = f
  <1>0. f \in [DOMAIN f -> Tabs_!Row] /\ DOMAIN f \subseteq Tabs_!Ids
    BY ListType
  <1> DEFINE g == Tabs_!Without(f, i)
  <1>1. g = [j \in DOMAIN f \ {i} |-> f[j]]
    BY DEF Tabs_!Without, Tabs_!Restrict
  <1>2. g \in [DOMAIN f \ {i} -> Tabs_!Row] /\ DOMAIN g = DOMAIN f \ {i}
    BY <1>0, <1>1
  <1>3. g \in Tabs_!Rows
    BY <1>0, <1>2, ListType
  <1>4. i \notin DOMAIN f => g = f
    <2>1. i \notin DOMAIN f => DOMAIN f \ {i} = DOMAIN f
      OBVIOUS
    <2> QED BY <1>0, <1>1, <2>1
  <1> QED BY <1>1, <1>2, <1>3, <1>4

(* A new tab is placed after every other one.                               *)
LEMMA NewTabIsPlaced ==
    ASSUME rows \in Tabs_!Rows, created \in Nat, Tabs_!Placed(rows)
    PROVE  Tabs_!NewPosition \in 0..created
  <1>0. rows \in [DOMAIN rows -> Tabs_!Row] /\ DOMAIN rows \subseteq Tabs_!Ids
    BY ListType
  <1>1. CASE rows = <<>>
    BY <1>1 DEF Tabs_!NewPosition
  <1>2. CASE rows # <<>>
    <2> DEFINE P == {rows[i].pos : i \in DOMAIN rows}
    <2>1. P # {}
      <3>1. ASSUME DOMAIN rows = {} PROVE rows = <<>>
        BY <1>0, <3>1
      <3> QED BY <1>2, <3>1
    <2>2. \A p \in P : p \in Nat /\ p < created
      BY <1>0, BoundsAreNatural DEF Tabs_!Placed, Tabs_!Row
    <2> DEFINE Q == {created - p : p \in P}
    <2>3. Q \subseteq Nat /\ Q # {}
      BY <2>1, <2>2
    <2> HIDE DEF P, Q
    <2>4. PICK q \in Q : \A y \in Q : ~ (<<y, q>> \in OpToRel(<, Nat))
      BY <2>3, WFMin, NatLessThanWellFounded, Zenon
    <2>5. \A y \in Q : ~ (y < q)
      BY <2>3, <2>4, Zenon DEF OpToRel
    <2>6. PICK p \in P : q = created - p
      BY DEF Q
    <2>7. \A o \in P : o <= p
      <3> SUFFICES ASSUME NEW o \in P PROVE o <= p
        OBVIOUS
      <3>1. created - o \in Q
        BY DEF Q
      <3>2. ~ (created - o < created - p)
        BY <2>5, <2>6, <3>1
      <3> QED BY <2>2, <3>2
    <2>8. \E m \in P : \A o \in P : o <= m
      BY <2>7
    <2>9. Tabs_!NewPosition = 1 + CHOOSE m \in P : \A o \in P : o <= m
      <3>1. (CHOOSE m \in P : \A o \in P : o <= m)
             = CHOOSE m \in P : \A i \in DOMAIN rows : rows[i].pos <= m
        BY DEF P
      <3> QED BY <1>2, <3>1 DEF Tabs_!NewPosition, P
    <2>10. (CHOOSE m \in P : \A o \in P : o <= m) \in P
      BY <2>8
    <2> QED BY <2>2, <2>9, <2>10
  <1> QED BY <1>1, <1>2

(* A request names what is listed.                                          *)
LEMMA RequestsFit ==
    ASSUME NEW l \in Tabs_!Rows, NEW c \in Tabs_!Requests(l)
    PROVE  /\ c = [op |-> c.op, tab |-> c.tab, order |-> c.order, st |-> c.st, rows |-> c.rows,
                   at |-> c.at]
           /\ c.op \in {"create", "rename", "reorder", "remove"} /\ c.st = "sent"
           /\ c.op \in {"rename", "remove"} => c.tab \in DOMAIN l
           /\ c.op = "reorder" => c.order \in Tabs_!Orders(c.order)
  <1>1. CASE c = Tabs_!Request("create", 0, <<>>)
    BY <1>1 DEF Tabs_!Request
  <1>2. CASE \E op \in {"rename", "remove"}, i \in DOMAIN l : c = Tabs_!Request(op, i, <<>>)
    BY <1>2 DEF Tabs_!Request
  <1>3. ASSUME NEW p \in Tabs_!Orders(l), c = Tabs_!Request("reorder", 0, p)
        PROVE  /\ c = [op |-> c.op, tab |-> c.tab, order |-> c.order, st |-> c.st,
                       rows |-> c.rows, at |-> c.at]
               /\ c.op = "reorder" /\ c.st = "sent" /\ c.order \in Tabs_!Orders(c.order)
    <2>1. DOMAIN p = DOMAIN l
      BY DEF Tabs_!Orders
    <2>2. p \in Tabs_!Orders(p)
      BY <2>1 DEF Tabs_!Orders
    <2> QED BY <1>3, <2>2 DEF Tabs_!Request
  <1> QED BY <1>1, <1>2, <1>3 DEF Tabs_!Requests

(* What a commit does to the rows: a create adds the next tab, nothing else *)
(* adds one, and a removed tab is gone.                                     *)
LEMMA CommitMovesTabs ==
    ASSUME rows \in Tabs_!Rows, created \in 0..MaxTabs, Tabs_!Placed(rows), commits \in Nat,
           commits + 1 <= MaxCalls + MaxElsewhere,
           NEW c, c.op \in {"create", "rename", "reorder", "remove"},
           c.op = "reorder" => c.order \in Tabs_!Orders(c.order),
           Tabs_!Commit(c)
    PROVE  /\ rows' \in Tabs_!Rows /\ Tabs_!Placed(rows)'
           /\ created' \in {created, created + 1} /\ created' \in 0..MaxTabs
           /\ commits' = commits + 1 /\ notices' = notices + 1
           /\ c.op = "create" => created' = created + 1 /\ DOMAIN rows' = DOMAIN rows \cup {created'}
           /\ c.op # "create" => created' = created /\ DOMAIN rows' \subseteq DOMAIN rows
           /\ c.op = "rename" => c.tab \in DOMAIN rows'
           /\ c.op = "remove" => c.tab \notin DOMAIN rows'
  <1>0. /\ rows \in [DOMAIN rows -> Tabs_!Row] /\ DOMAIN rows \subseteq Tabs_!Ids
        /\ \A i \in DOMAIN rows : i \in 1..created /\ rows[i] \in Tabs_!Row
                                  /\ rows[i].pos < created /\ rows[i].pos \in Nat
    BY ListType, BoundsAreNatural DEF Tabs_!Placed, Tabs_!Ids
  <1>1. /\ Tabs_!Accepts(c) /\ rows' = Tabs_!Applied(c)
        /\ created' = IF c.op = "create" THEN created + 1 ELSE created
        /\ commits' = commits + 1 /\ notices' = notices + 1
    BY DEF Tabs_!Commit
  <1>2. /\ MaxTabs \in Nat \ {0} /\ MaxCalls \in Nat /\ MaxElsewhere \in Nat
        /\ commits + 1 \in 0..MaxCalls + MaxElsewhere
    BY BoundsAreNatural
  <1>3. CASE c.op = "create"
    <2> DEFINE r == [name |-> commits + 1, pos |-> Tabs_!NewPosition]
    <2>1. /\ created + 1 \in Tabs_!Ids /\ created' = created + 1
          /\ rows' = Tabs_!With(rows, created + 1, r)
      BY <1>1, <1>2, <1>3
         DEF Tabs_!Accepts, Tabs_!Applied, Tabs_!create_analysis_tab, Tabs_!Ids
    <2>2. r \in Tabs_!Row /\ r.pos \in 0..created
      BY <1>2, NewTabIsPlaced DEF Tabs_!Row
    <2> HIDE DEF r
    <2>3. /\ rows' \in Tabs_!Rows /\ DOMAIN rows' = DOMAIN rows \cup {created + 1}
          /\ rows'[created + 1] = r
          /\ \A j \in DOMAIN rows \ {created + 1} : rows'[j] = rows[j]
      BY <2>1, <2>2, ListAdd
    <2>4. Tabs_!Placed(rows)'
      <3> SUFFICES ASSUME NEW i \in DOMAIN rows' PROVE i <= created' /\ rows'[i].pos < created'
        BY DEF Tabs_!Placed
      <3>1. CASE i = created + 1
        BY <2>1, <2>2, <2>3, <3>1
      <3>2. CASE i # created + 1
        BY <1>0, <2>1, <2>3, <3>2
      <3> QED BY <3>1, <3>2
    <2>5. created' \in 0..MaxTabs
      BY <1>2, <2>1 DEF Tabs_!Ids
    <2> QED BY <1>1, <1>3, <2>1, <2>3, <2>4, <2>5
  <1>4. CASE c.op = "rename"
    <2>1. /\ c.tab \in DOMAIN rows /\ created' = created
          /\ rows' = [rows EXCEPT ![c.tab].name = commits + 1]
      BY <1>1, <1>4 DEF Tabs_!Accepts, Tabs_!Applied, Tabs_!update_analysis_tab
    <2>2. \A i \in DOMAIN rows : rows'[i] \in Tabs_!Row /\ rows'[i].pos = rows[i].pos
      BY <1>0, <1>2, <2>1 DEF Tabs_!Row
    <2>3. rows' \in [DOMAIN rows -> Tabs_!Row] /\ DOMAIN rows' = DOMAIN rows
      BY <1>0, <2>1, <2>2
    <2>4. rows' \in Tabs_!Rows
      BY <1>0, <2>3, ListType
    <2>5. Tabs_!Placed(rows)'
      BY <1>0, <2>1, <2>2, <2>3 DEF Tabs_!Placed
    <2> QED BY <1>1, <1>4, <2>1, <2>3, <2>4, <2>5
  <1>5. CASE c.op = "reorder"
    <2>1. /\ DOMAIN c.order = DOMAIN rows /\ created' = created
          /\ rows' = [i \in DOMAIN rows |-> [rows[i] EXCEPT !.pos = c.order[i]]]
      BY <1>1, <1>5 DEF Tabs_!Accepts, Tabs_!Applied, Tabs_!reorder_tabs
    <2>2. IsFiniteSet(1..created) /\ Cardinality(1..created) = created
      BY FS_Interval
    <2>3. Cardinality(DOMAIN rows) <= created /\ Cardinality(DOMAIN rows) \in Nat
      <3>1. DOMAIN rows \subseteq 1..created
        BY <1>0
      <3> QED BY <2>2, <3>1, FS_Subset, FS_CardinalityType
    <2>4. \A i \in DOMAIN rows : c.order[i] \in 0..Cardinality(DOMAIN rows) - 1
      BY <1>5, <2>1 DEF Tabs_!Orders, Tabs_!Cardinality, Cardinality
    <2>5. \A i \in DOMAIN rows : c.order[i] \in Nat /\ c.order[i] < created
      BY <2>3, <2>4
    <2>6. \A i \in DOMAIN rows : rows'[i] \in Tabs_!Row /\ rows'[i].pos < created
      <3> SUFFICES ASSUME NEW i \in DOMAIN rows
                   PROVE  rows'[i] \in Tabs_!Row /\ rows'[i].pos < created
        OBVIOUS
      <3>1. rows'[i] = [name |-> rows[i].name, pos |-> c.order[i]]
        BY <1>0, <2>1 DEF Tabs_!Row
      <3>2. rows[i].name \in 0..MaxCalls + MaxElsewhere /\ c.order[i] \in 0..MaxTabs + 1
        BY <1>0, <1>2, <2>5 DEF Tabs_!Row
      <3> QED BY <2>5, <3>1, <3>2 DEF Tabs_!Row
    <2>7. rows' \in [DOMAIN rows -> Tabs_!Row] /\ DOMAIN rows' = DOMAIN rows
      BY <2>1, <2>6
    <2>8. rows' \in Tabs_!Rows
      BY <1>0, <2>7, ListType
    <2>9. Tabs_!Placed(rows)'
      BY <1>0, <2>1, <2>6, <2>7 DEF Tabs_!Placed
    <2> QED BY <1>1, <1>5, <2>1, <2>7, <2>8, <2>9
  <1>6. CASE c.op = "remove"
    <2>1. created' = created /\ rows' = Tabs_!Without(rows, c.tab)
      BY <1>1, <1>6 DEF Tabs_!Applied, Tabs_!delete_analysis_tab
    <2>2. /\ rows' \in Tabs_!Rows /\ DOMAIN rows' = DOMAIN rows \ {c.tab}
          /\ \A j \in DOMAIN rows \ {c.tab} : rows'[j] = rows[j]
      BY <2>1, ListDrop
    <2>3. Tabs_!Placed(rows)'
      BY <1>0, <2>1, <2>2 DEF Tabs_!Placed
    <2> QED BY <1>1, <1>6, <2>1, <2>2, <2>3
  <1> QED BY <1>3, <1>4, <1>5, <1>6

(* At most one initial tab and a settled list follow from what was found of *)
(* the mutations and the reads.                                             *)
LEMMA TabsSettled ==
    ASSUME Tabs_!TypeOK', Tabs_!ListsPlaced', Tabs_!CallsFit', Tabs_!TabsKept', Tabs_!OneAuto',
           Tabs_!ListCurrent'
    PROVE  Tabs_!TabListInv'
  <1>1. Tabs_!AutoOnce'
    <2> DEFINE S == {k \in autos' : calls'[k].st \in {"answered", "done"} /\ calls'[k].tab \in DOMAIN rows'}
    <2>1. \A j, k \in S : j = k
      BY DEF Tabs_!OneAuto, Tabs_!Alive, Tabs_!Served, Tabs_!TypeOK
    <2>2. Tabs_!AutoOnce' <=> Cardinality(S) <= 1
      BY DEF Tabs_!AutoOnce, Tabs_!Cardinality, Cardinality
    <2> HIDE DEF S
    <2>3. CASE S = {}
      <3>1. Cardinality(S) = 0
        BY <2>3, FS_EmptySet
      <3> QED BY <2>2, <3>1
    <2>4. CASE S # {}
      <3>1. PICK k \in S : TRUE
        BY <2>4
      <3>2. S = {k}
        BY <2>1, <3>1
      <3>3. Cardinality(S) = 1
        BY <3>2, FS_Singleton
      <3> QED BY <2>2, <3>3
    <2> QED BY <2>3, <2>4
  <1>2. Tabs_!ListSettles'
    BY DEF Tabs_!ListSettles, Tabs_!Quiet, Tabs_!ListCurrent
  <1> QED BY <1>1, <1>2 DEF Tabs_!TabListInv

(* A project without tabs and a window that has read nothing.               *)
LEMMA TabsInit ==
    ASSUME Tabs_!Init
    PROVE  Tabs_!TabListInv
  <1>1. /\ rows = <<>> /\ created = 0 /\ commits = 0 /\ elsewhere = 0 /\ notices = 0
        /\ shown = Tabs_!Unread /\ seen = 0 /\ fetch = <<>> /\ refreshing = FALSE
        /\ outdated = FALSE /\ calls = <<>> /\ mounted = FALSE /\ watched = 0 /\ active = FALSE
        /\ editing = FALSE /\ checked = FALSE /\ autos = {}
    BY DEF Tabs_!Init, Tabs_!Idle
  <1>2. DOMAIN calls = {} /\ Len(calls) = 0 /\ DOMAIN rows = {} /\ rows \in Tabs_!Rows
    BY <1>1, EmptyList
  <1>3. Tabs_!TypeOK
    <2>1. refreshing \in BOOLEAN /\ outdated \in BOOLEAN /\ mounted \in BOOLEAN
          /\ active \in BOOLEAN /\ editing \in BOOLEAN /\ checked \in BOOLEAN
      BY <1>1
    <2> QED BY <1>1, <1>2, <2>1, BoundsAreNatural DEF Tabs_!TypeOK, Tabs_!Idle
  <1>4. Tabs_!ListsPlaced
    <2>1. Tabs_!Served = {}
      BY <1>2 DEF Tabs_!Served
    <2>2. Cardinality(Tabs_!Served) = 0
      BY <2>1, FS_EmptySet
    <2>3. Tabs_!Cardinality(Tabs_!Served) = 0
      BY <2>2 DEF Tabs_!Cardinality, Cardinality
    <2> QED
      BY <1>1, <1>2, <2>3 DEF Tabs_!ListsPlaced, Tabs_!Placed, Tabs_!Loaded, Tabs_!Delivered, Tabs_!Idle
  <1>5. Tabs_!CallsFit
    BY <1>1, <1>2 DEF Tabs_!CallsFit
  <1>6. Tabs_!TabsKept /\ Tabs_!OneAuto /\ Tabs_!ListCurrent /\ Tabs_!AutoOnce /\ Tabs_!ListSettles
    <2>1. Tabs_!TabsKept /\ Tabs_!OneAuto
      BY <1>1, <1>2 DEF Tabs_!TabsKept, Tabs_!OneAuto
    <2>2. Tabs_!ListCurrent /\ Tabs_!ListSettles
      BY <1>1 DEF Tabs_!ListCurrent, Tabs_!ListSettles, Tabs_!Quiet, Tabs_!Loaded, Tabs_!Delivered, Tabs_!Idle
    <2> DEFINE S == {k \in autos : calls[k].st \in {"answered", "done"} /\ calls[k].tab \in DOMAIN rows}
    <2>3. S = {}
      BY <1>1
    <2>4. Cardinality(S) = 0
      BY <2>3, FS_EmptySet
    <2>5. Tabs_!AutoOnce
      BY <2>4 DEF Tabs_!AutoOnce, Tabs_!Cardinality, Cardinality
    <2> QED BY <2>1, <2>2, <2>5
  <1> QED BY <1>3, <1>4, <1>5, <1>6 DEF Tabs_!TabListInv

(* Reads of the list, and visits of the panel.                              *)
LEMMA ReadsKeepTabs ==
    ASSUME Tabs_!TabListInv,
           \/ Tabs_!Read \/ Tabs_!Deliver \/ Tabs_!Remount \/ Tabs_!Activate \/ Tabs_!Edit
           \/ \E n \in 1..notices : Tabs_!refreshProjectQueries(n)
    PROVE  Tabs_!TabListInv'
  <1>0. Tabs_!TypeOK /\ Tabs_!ListsPlaced /\ Tabs_!CallsFit /\ Tabs_!TabsKept /\ Tabs_!OneAuto
        /\ Tabs_!ListCurrent
    BY DEF Tabs_!TabListInv
  <1>1. /\ rows \in Tabs_!Rows /\ commits \in Nat /\ notices \in 0..commits /\ seen \in 0..commits
        /\ shown \in Tabs_!Rows \cup {Tabs_!Unread}
        /\ Tabs_!Delivered => fetch[2] \in Tabs_!Rows /\ fetch[3] \in 0..commits
        /\ refreshing => fetch # Tabs_!Idle
    BY <1>0, BoundsAreNatural DEF Tabs_!TypeOK, Tabs_!Delivered
  <1>2. <<"answer", rows, commits>> \notin {Tabs_!Idle, Tabs_!Sent} /\ Tabs_!Sent # Tabs_!Idle
    BY DEF Tabs_!Idle, Tabs_!Sent
  <1>3. UNCHANGED <<rows, created, commits, elsewhere, calls, autos>>
    BY DEF Tabs_!Read, Tabs_!Deliver, Tabs_!Remount, Tabs_!Activate, Tabs_!Edit,
           Tabs_!refreshProjectQueries, Tabs_!project, Tabs_!cache
  <1>4. /\ notices' \in 0..commits
        /\ \/ shown' = shown /\ seen' = seen /\ outdated' = outdated
              /\ (Tabs_!Loaded /\ fetch' = Tabs_!Idle => fetch = Tabs_!Idle /\ notices' = notices)
           \/ /\ Tabs_!Delivered /\ shown' = fetch[2] /\ seen' = fetch[3] /\ outdated' = FALSE
              /\ fetch' = Tabs_!Idle /\ notices' = notices
        /\ \/ fetch' \in {Tabs_!Idle, Tabs_!Sent}
           \/ fetch' = fetch /\ notices' = notices
           \/ fetch' = <<"answer", rows, commits>>
        /\ refreshing' => fetch' # Tabs_!Idle
    <2>1. CASE Tabs_!Read
      BY <1>1, <1>2, <2>1 DEF Tabs_!Read, Tabs_!project
    <2>2. CASE Tabs_!Deliver
      BY <1>1, <2>2 DEF Tabs_!Deliver, Tabs_!project, Tabs_!Delivered
    <2>3. CASE Tabs_!Remount
      BY <1>1, <1>2, <2>3 DEF Tabs_!Remount, Tabs_!project
    <2>4. CASE Tabs_!Activate \/ Tabs_!Edit
      BY <1>1, <2>4 DEF Tabs_!Activate, Tabs_!Edit, Tabs_!project, Tabs_!cache
    <2>5. ASSUME NEW n \in 1..notices, Tabs_!refreshProjectQueries(n)
          PROVE  /\ notices' \in 0..commits
                 /\ shown' = shown /\ seen' = seen /\ outdated' = outdated
                 /\ (Tabs_!Loaded => fetch' = Tabs_!Sent)
                 /\ fetch' \in {Tabs_!Idle, Tabs_!Sent}
                 /\ refreshing' => fetch' # Tabs_!Idle
      <3>1. notices' = notices - n /\ shown' = shown /\ seen' = seen /\ outdated' = outdated
        BY <2>5 DEF Tabs_!refreshProjectQueries
      <3>2. notices' \in 0..commits
        BY <1>1, <3>1
      <3>3. /\ refreshing' = (Tabs_!Loaded \/ fetch # Tabs_!Idle)
            /\ fetch' = IF refreshing' THEN Tabs_!Sent ELSE Tabs_!Idle
        BY <2>5, Zenon DEF Tabs_!refreshProjectQueries
      <3>4. Tabs_!Loaded => refreshing'
        BY <3>3, Zenon
      <3> HIDE DEF Tabs_!Loaded
      <3>5. refreshing' => fetch' # Tabs_!Idle
        BY <1>2, <3>3, Zenon
      <3>6. fetch' \in {Tabs_!Idle, Tabs_!Sent} /\ (Tabs_!Loaded => fetch' = Tabs_!Sent)
        BY <3>3, <3>4, Zenon
      <3> QED BY <3>1, <3>2, <3>5, <3>6
    <2> QED BY <1>2, <2>1, <2>2, <2>3, <2>4, <2>5
  <1>5. /\ refreshing' \in BOOLEAN /\ outdated' \in BOOLEAN /\ mounted' \in BOOLEAN
        /\ active' \in BOOLEAN /\ editing' \in BOOLEAN /\ checked' \in BOOLEAN
    <2>1. /\ refreshing \in BOOLEAN /\ outdated \in BOOLEAN /\ mounted \in BOOLEAN
          /\ active \in BOOLEAN /\ editing \in BOOLEAN /\ checked \in BOOLEAN
      BY <1>0 DEF Tabs_!TypeOK
    <2> QED
      BY <2>1, Zenon DEF Tabs_!Read, Tabs_!Deliver, Tabs_!Remount, Tabs_!Activate, Tabs_!Edit,
                  Tabs_!refreshProjectQueries, Tabs_!project, Tabs_!cache, Tabs_!component
  <1>6. watched' \in 0..Len(calls)
    <2>1. watched \in 0..Len(calls) /\ watched' \in {0, watched} /\ Len(calls) \in Nat
      BY <1>0 DEF Tabs_!TypeOK, Tabs_!CallsFit, Tabs_!Read, Tabs_!Deliver, Tabs_!Remount,
                  Tabs_!Activate, Tabs_!Edit, Tabs_!refreshProjectQueries, Tabs_!component
    <2> QED BY <2>1
  <1>7. /\ shown' \in Tabs_!Rows \cup {Tabs_!Unread} /\ seen' \in 0..commits
        /\ fetch' \in {Tabs_!Idle, Tabs_!Sent} \/ (fetch'[2] \in Tabs_!Rows /\ fetch'[3] \in 0..commits)
        /\ Tabs_!Loaded => shown' # Tabs_!Unread
    BY <1>1, <1>2, <1>4, ListIsRead DEF Tabs_!Delivered, Tabs_!Loaded
  <1>8. Tabs_!TypeOK'
    BY <1>0, <1>3, <1>4, <1>5, <1>6, <1>7 DEF Tabs_!TypeOK
  <1>9. Tabs_!ListsPlaced'
    <2>1. Tabs_!Served' = Tabs_!Served
      BY <1>3 DEF Tabs_!Served
    <2>2. Tabs_!Placed(rows)' /\ (Tabs_!Loaded' => Tabs_!Placed(shown)')
      BY <1>0, <1>3, <1>4, <1>7 DEF Tabs_!ListsPlaced, Tabs_!Placed, Tabs_!Loaded
    <2>3. Tabs_!Delivered' => Tabs_!Placed(fetch[2])'
      BY <1>0, <1>3, <1>4 DEF Tabs_!ListsPlaced, Tabs_!Placed, Tabs_!Delivered
    <2> QED BY <1>0, <1>3, <2>1, <2>2, <2>3 DEF Tabs_!ListsPlaced
  <1>10. Tabs_!CallsFit'
    <2>1. \A k \in DOMAIN calls : Tabs_!CallFits(calls[k]) => Tabs_!CallFits(calls[k])'
      BY <1>3, <1>7 DEF Tabs_!CallFits, Tabs_!Loaded, Tabs_!Placed
    <2> QED BY <1>0, <1>3, <2>1 DEF Tabs_!CallsFit
  <1>11. Tabs_!TabsKept'
    BY <1>0, <1>3, <1>4, <1>7 DEF Tabs_!TabsKept, Tabs_!Delivered, Tabs_!Loaded
  <1>12. Tabs_!OneAuto'
    BY <1>0, <1>3 DEF Tabs_!OneAuto, Tabs_!Alive, Tabs_!Served
  <1>13. Tabs_!ListCurrent'
    BY <1>0, <1>3, <1>4, <1>7 DEF Tabs_!ListCurrent, Tabs_!Delivered, Tabs_!Loaded
  <1> QED BY <1>8, <1>9, <1>10, <1>11, <1>12, <1>13, TabsSettled

(* The mutations of a window are a sequence.                                *)
LEMMA CallsAreListed ==
    ASSUME Tabs_!CallsFit, NEW c
    PROVE  /\ Len(calls) \in Nat /\ DOMAIN calls = 1..Len(calls)
           /\ Len(Append(calls, c)) = Len(calls) + 1
           /\ DOMAIN Append(calls, c) = 1..Len(calls) + 1
           /\ Append(calls, c) = [k \in 1..Len(calls) + 1 |-> Append(calls, c)[k]]
           /\ Append(calls, c)[Len(calls) + 1] = c
           /\ \A k \in DOMAIN calls : Append(calls, c)[k] = calls[k] /\ k # Len(calls) + 1
  <1> DEFINE n == Len(calls)
  <1>1. calls = [k \in 1..n |-> calls[k]] /\ n \in Nat
    BY DEF Tabs_!CallsFit
  <1> DEFINE S == {calls[k] : k \in 1..n} \cup {c}
  <1>2. calls \in Seq(S)
    <2>1. calls \in [1..n -> S]
      BY <1>1
    <2> QED BY <1>1, <2>1
  <1>3. c \in S
    OBVIOUS
  <1> HIDE DEF S
  <1>4. /\ Append(calls, c) \in Seq(S) /\ Len(Append(calls, c)) = n + 1
        /\ Append(calls, c)[n + 1] = c
        /\ \A k \in 1..n : Append(calls, c)[k] = calls[k]
    BY <1>2, <1>3
  <1>5. /\ DOMAIN calls = 1..n /\ DOMAIN Append(calls, c) = 1..n + 1
        /\ Append(calls, c) = [k \in 1..n + 1 |-> Append(calls, c)[k]]
    <2>1. DOMAIN calls = 1..n
      BY <1>1
    <2> DEFINE longer == Append(calls, c)
    <2>2. longer \in [1..n + 1 -> S]
      <3>1. longer \in Seq(S) /\ Len(longer) = n + 1
        BY <1>4
      <3> HIDE DEF longer
      <3> QED BY <3>1
    <2> QED BY <2>1, <2>2
  <1>6. \A k \in 1..n : k # n + 1
    BY <1>1
  <1> QED BY <1>1, <1>4, <1>5, <1>6

(* A mutation is asked for, by the user or by the visit of an empty tool.   *)
LEMMA AskingKeepsTabs ==
    ASSUME Tabs_!TabListInv,
           Tabs_!CheckVisit \/ Tabs_!create \/ Tabs_!mutate \/ Tabs_!handoff
    PROVE  Tabs_!TabListInv'
  <1>0. Tabs_!TypeOK /\ Tabs_!ListsPlaced /\ Tabs_!CallsFit /\ Tabs_!TabsKept /\ Tabs_!OneAuto
        /\ Tabs_!ListCurrent
    BY DEF Tabs_!TabListInv
  <1> DEFINE n == Len(calls)
  <1>1. n \in Nat /\ DOMAIN calls = 1..n
    BY <1>0, CallsAreListed DEF Tabs_!TypeOK
  <1>2. UNCHANGED <<rows, created, commits, elsewhere, notices, shown, seen, fetch, refreshing,
                    outdated>>
    BY DEF Tabs_!CheckVisit, Tabs_!create, Tabs_!mutate, Tabs_!handoff, Tabs_!project, Tabs_!cache
  <1> DEFINE first == Tabs_!Request("create", 0, <<>>)
  <1>3. /\ mounted' \in BOOLEAN /\ active' \in BOOLEAN /\ editing' \in BOOLEAN /\ checked' \in BOOLEAN
        /\ refreshing' \in BOOLEAN /\ outdated' \in BOOLEAN
    <2>1. /\ mounted \in BOOLEAN /\ active \in BOOLEAN /\ editing \in BOOLEAN /\ checked \in BOOLEAN
          /\ refreshing \in BOOLEAN /\ outdated \in BOOLEAN
      BY <1>0 DEF Tabs_!TypeOK
    <2>2. CASE Tabs_!CheckVisit
      BY <1>2, <2>1, <2>2, Zenon DEF Tabs_!CheckVisit
    <2>3. CASE Tabs_!create
      BY <1>2, <2>1, <2>3, Zenon DEF Tabs_!create
    <2>4. CASE Tabs_!mutate \/ Tabs_!handoff
      BY <1>2, <2>1, <2>4, Zenon DEF Tabs_!mutate, Tabs_!handoff, Tabs_!component
    <2> QED BY <2>2, <2>3, <2>4
  <1>4. \/ UNCHANGED <<calls, watched, autos>>
        \/ \E c : /\ n < MaxCalls /\ calls' = Append(calls, c)
                  /\ watched' \in {watched, Len(calls')}
                  /\ \/ c = first \/ (Tabs_!Loaded /\ c \in Tabs_!Requests(shown))
                  /\ \/ autos' = autos
                     \/ /\ autos' = autos \cup {Len(calls')} /\ c = first
                        /\ Tabs_!Loaded /\ shown = <<>> /\ Tabs_!InFlight("create") = {}
    <2>1. CASE Tabs_!CheckVisit
      <3>1. CASE shown = <<>> /\ Tabs_!InFlight("create") = {}
        BY <2>1, <3>1 DEF Tabs_!CheckVisit, Tabs_!Call
      <3>2. CASE ~(shown = <<>> /\ Tabs_!InFlight("create") = {})
        BY <2>1, <3>2 DEF Tabs_!CheckVisit
      <3> QED BY <3>1, <3>2
    <2>2. CASE Tabs_!create
      BY <2>2 DEF Tabs_!create, Tabs_!Call
    <2>3. CASE Tabs_!mutate
      BY <2>3 DEF Tabs_!mutate, Tabs_!Call, Tabs_!component
    <2>4. CASE Tabs_!handoff
      BY <2>4 DEF Tabs_!handoff, Tabs_!Call, Tabs_!component
    <2> QED BY <2>1, <2>2, <2>3, <2>4
  <1>5. CASE UNCHANGED <<calls, watched, autos>>
    <2>1. Tabs_!TypeOK'
      BY <1>0, <1>2, <1>3, <1>5 DEF Tabs_!TypeOK
    <2>2. Tabs_!ListsPlaced' /\ Tabs_!CallsFit' /\ Tabs_!TabsKept' /\ Tabs_!OneAuto' /\ Tabs_!ListCurrent'
      BY <1>0, <1>2, <1>5 DEF Tabs_!ListsPlaced, Tabs_!Placed, Tabs_!Served, Tabs_!CallsFit,
           Tabs_!CallFits, Tabs_!TabsKept, Tabs_!OneAuto, Tabs_!Alive, Tabs_!ListCurrent,
           Tabs_!Delivered, Tabs_!Loaded
    <2> QED BY <2>1, <2>2, TabsSettled
  <1>6. ASSUME NEW c, n < MaxCalls, calls' = Append(calls, c), watched' \in {watched, Len(calls')},
               c = first \/ (Tabs_!Loaded /\ c \in Tabs_!Requests(shown)),
               \/ autos' = autos
               \/ /\ autos' = autos \cup {Len(calls')} /\ c = first
                  /\ Tabs_!Loaded /\ shown = <<>> /\ Tabs_!InFlight("create") = {}
        PROVE  Tabs_!TabListInv'
    <2>1. /\ Len(calls') = n + 1 /\ DOMAIN calls' = 1..n + 1 /\ calls'[n + 1] = c
          /\ calls' = [k \in 1..n + 1 |-> calls'[k]]
          /\ \A k \in DOMAIN calls : calls'[k] = calls[k] /\ k # n + 1
      BY <1>0, <1>6, CallsAreListed
    <2>2. 1..n + 1 = (1..n) \cup {n + 1}
      BY <1>1
    <2>3. /\ c = [op |-> c.op, tab |-> c.tab, order |-> c.order, st |-> c.st, rows |-> c.rows,
                  at |-> c.at]
          /\ c.op \in {"create", "rename", "reorder", "remove"} /\ c.st = "sent"
          /\ c.op \in {"rename", "remove"} => c.tab \in 1..created
          /\ c.op = "reorder" => c.order \in Tabs_!Orders(c.order)
          /\ c.op # "create" => Tabs_!Loaded
      <3>1. CASE c = first
        BY <3>1 DEF Tabs_!Request
      <3>2. CASE Tabs_!Loaded /\ c \in Tabs_!Requests(shown)
        <4>1. shown \in Tabs_!Rows /\ Tabs_!Placed(shown) /\ created \in 0..MaxTabs
          BY <1>0, <3>2 DEF Tabs_!TypeOK, Tabs_!Loaded, Tabs_!ListsPlaced
        <4>2. \A i \in DOMAIN shown : i \in 1..created
          BY <4>1, ListType DEF Tabs_!Placed, Tabs_!Ids
        <4> QED BY <3>2, <4>1, <4>2, RequestsFit
      <3> QED BY <1>6, <3>1, <3>2
    <2>4. Tabs_!Served' = Tabs_!Served
      BY <1>1, <2>1, <2>2, <2>3 DEF Tabs_!Served
    <2>5. Tabs_!TypeOK'
      <3>1. watched' \in 0..n + 1
        BY <1>0, <1>1, <1>6, <2>1 DEF Tabs_!TypeOK
      <3>2. autos' \subseteq 1..n + 1 /\ n + 1 <= MaxCalls
        BY <1>0, <1>1, <1>6, <2>1, <2>2, BoundsAreNatural, SMTT(20) DEF Tabs_!TypeOK
      <3>3. \A k \in DOMAIN calls' : calls'[k].st \in {"sent", "answered", "done", "failed"}
        BY <1>0, <1>1, <2>1, <2>2, <2>3 DEF Tabs_!TypeOK
      <3> QED BY <1>0, <1>2, <1>3, <2>1, <3>1, <3>2, <3>3 DEF Tabs_!TypeOK
    <2>6. Tabs_!ListsPlaced'
      BY <1>0, <1>2, <2>4 DEF Tabs_!ListsPlaced, Tabs_!Placed, Tabs_!Delivered, Tabs_!Loaded
    <2>7. Tabs_!CallsFit'
      <3>1. Tabs_!CallFits(c)'
        BY <1>2, <2>3 DEF Tabs_!CallFits, Tabs_!Loaded
      <3>2. ASSUME NEW d, Tabs_!CallFits(d) PROVE Tabs_!CallFits(d)'
        BY <1>2, <3>2 DEF Tabs_!CallFits, Tabs_!Loaded, Tabs_!Placed
      <3>3. ASSUME NEW k \in DOMAIN calls' PROVE Tabs_!CallFits(calls[k])'
        <4>1. CASE k \in DOMAIN calls
          <5>1. PICK d : d = calls[k]
            OBVIOUS
          <5>2. Tabs_!CallFits(d)' /\ calls'[k] = d
            BY <1>0, <2>1, <3>2, <4>1, <5>1 DEF Tabs_!CallsFit
          <5> QED BY <5>2
        <4>2. CASE k = n + 1
          <5>1. calls'[k] = c
            BY <2>1, <4>2
          <5> QED BY <3>1, <5>1
        <4> QED BY <1>1, <2>1, <2>2, <4>1, <4>2
      <3> QED BY <1>1, <2>1, <3>3 DEF Tabs_!CallsFit
    <2>8. Tabs_!TabsKept'
      BY <1>0, <1>1, <1>2, <2>1, <2>2, <2>3 DEF Tabs_!TabsKept, Tabs_!Delivered, Tabs_!Loaded
    <2>9. Tabs_!OneAuto'
      <3>1. \A k \in autos : k \in DOMAIN calls /\ (Tabs_!Alive(k)' => Tabs_!Alive(k))
        BY <1>0, <1>2, <2>1, <2>4 DEF Tabs_!Alive, Tabs_!TypeOK
      <3>2. CASE autos' = autos
        BY <1>0, <2>1, <3>1, <3>2 DEF Tabs_!OneAuto
      <3>3. CASE autos' = autos \cup {n + 1} /\ c = first /\ Tabs_!Loaded /\ shown = <<>>
                 /\ Tabs_!InFlight("create") = {}
        <4>1. ASSUME NEW k \in autos, Tabs_!Alive(k) PROVE FALSE
          <5>1. k \in DOMAIN calls /\ calls[k].op = "create" /\ calls[k].st \notin {"sent", "answered"}
            BY <1>0, <3>1, <3>3 DEF Tabs_!OneAuto, Tabs_!InFlight
          <5>2. calls[k].st = "done" /\ calls[k].tab \in DOMAIN rows
            BY <4>1, <5>1 DEF Tabs_!Alive, Tabs_!Served
          <5>3. calls[k].tab \in DOMAIN shown
            BY <1>0, <5>1, <5>2 DEF Tabs_!TabsKept
          <5> QED BY <3>3, <5>3, EmptyList
        <4>2. calls'[n + 1].op = "create"
          BY <2>1, <3>3 DEF Tabs_!Request
        <4>3. \A k \in autos' : calls'[k].op = "create"
          BY <1>0, <2>1, <3>1, <3>3, <4>2 DEF Tabs_!OneAuto
        <4> QED BY <3>1, <3>3, <4>1, <4>3 DEF Tabs_!OneAuto
      <3> QED BY <1>6, <2>1, <3>2, <3>3
    <2>10. Tabs_!ListCurrent'
      BY <1>0, <1>2 DEF Tabs_!ListCurrent, Tabs_!Delivered, Tabs_!Loaded
    <2> QED BY <2>5, <2>6, <2>7, <2>8, <2>9, <2>10, TabsSettled
  <1> QED BY <1>4, <1>5, <1>6

(* The mutations served are counted, and there is room for one more.        *)
LEMMA ServedAreCounted ==
    ASSUME Tabs_!TypeOK, Tabs_!CallsFit
    PROVE  /\ IsFiniteSet(Tabs_!Served) /\ Cardinality(Tabs_!Served) \in Nat
           /\ Cardinality(Tabs_!Served) <= MaxCalls
           /\ \A k \in DOMAIN calls \ Tabs_!Served :
                Cardinality(Tabs_!Served \cup {k}) = Cardinality(Tabs_!Served) + 1
                /\ Cardinality(Tabs_!Served) + 1 <= MaxCalls
  <1>1. /\ Len(calls) \in Nat /\ DOMAIN calls = 1..Len(calls) /\ Len(calls) <= MaxCalls
        /\ MaxCalls \in Nat
    BY CallsAreListed, BoundsAreNatural DEF Tabs_!TypeOK
  <1>2. IsFiniteSet(DOMAIN calls) /\ Cardinality(DOMAIN calls) = Len(calls)
    <2>1. PICK n \in Nat : n = Len(calls)
      BY <1>1
    <2>2. IsFiniteSet(1..n) /\ Cardinality(1..n) = n
      BY FS_Interval
    <2> QED BY <1>1, <2>1, <2>2
  <1>3. Tabs_!Served \subseteq DOMAIN calls
    BY DEF Tabs_!Served
  <1>4. /\ IsFiniteSet(Tabs_!Served) /\ Cardinality(Tabs_!Served) \in Nat
        /\ Cardinality(Tabs_!Served) <= Len(calls)
    BY <1>2, <1>3, FS_Subset, FS_CardinalityType
  <1>5. ASSUME NEW k \in DOMAIN calls \ Tabs_!Served
        PROVE  /\ Cardinality(Tabs_!Served \cup {k}) = Cardinality(Tabs_!Served) + 1
               /\ Cardinality(Tabs_!Served) + 1 <= Len(calls)
    <2>1. Cardinality(Tabs_!Served \cup {k}) = Cardinality(Tabs_!Served) + 1
      BY <1>4, <1>5, FS_AddElement
    <2>2. Tabs_!Served \cup {k} \subseteq DOMAIN calls
      BY <1>3
    <2>3. Cardinality(Tabs_!Served \cup {k}) <= Len(calls)
      BY <1>2, <2>2, FS_Subset
    <2> QED BY <2>1, <2>3
  <1> QED BY <1>1, <1>4, <1>5

(* After a commit the lists under way are older than the project's, and     *)
(* what is known of earlier mutations stays true.                           *)
LEMMA CommitKeepsLists ==
    ASSUME Tabs_!TypeOK, Tabs_!ListsPlaced, Tabs_!ListCurrent,
           commits + 1 <= MaxCalls + MaxElsewhere,
           NEW c, c.op \in {"create", "rename", "reorder", "remove"},
           c.op = "reorder" => c.order \in Tabs_!Orders(c.order),
           Tabs_!Commit(c), UNCHANGED Tabs_!cache
    PROVE  /\ rows' \in Tabs_!Rows /\ Tabs_!Placed(rows)'
           /\ (Tabs_!Loaded => Tabs_!Placed(shown)') /\ (Tabs_!Delivered => Tabs_!Placed(fetch[2])')
           /\ Tabs_!ListCurrent'
           /\ created' \in 0..MaxTabs /\ commits' = commits + 1
           /\ commits' \in 0..MaxCalls + MaxElsewhere /\ notices' \in 0..commits'
           /\ seen' \in 0..commits' /\ Tabs_!Loaded' = Tabs_!Loaded
           /\ fetch' \in {Tabs_!Idle, Tabs_!Sent} \/ (fetch'[2] \in Tabs_!Rows /\ fetch'[3] \in 0..commits')
           /\ \A i \in 1..created : i \in 1..created' /\ (i \in DOMAIN rows' => i \in DOMAIN rows)
           /\ \A d : Tabs_!CallFits(d) => Tabs_!CallFits(d)'
           /\ c.op = "create" => created' \in 1..created' /\ created' \in DOMAIN rows'
           /\ c.op = "rename" => c.tab \in DOMAIN rows'
           /\ c.op = "remove" => c.tab \notin DOMAIN rows'
  <1>1. /\ rows \in Tabs_!Rows /\ created \in 0..MaxTabs /\ commits \in 0..MaxCalls + MaxElsewhere
        /\ notices \in 0..commits /\ seen \in 0..commits
        /\ shown \in Tabs_!Rows \cup {Tabs_!Unread}
        /\ Tabs_!Delivered => fetch[2] \in Tabs_!Rows /\ fetch[3] \in 0..commits
        /\ Tabs_!Placed(rows) /\ (Tabs_!Loaded => Tabs_!Placed(shown))
        /\ (Tabs_!Delivered => Tabs_!Placed(fetch[2]))
        /\ commits \in Nat /\ MaxTabs \in Nat /\ MaxCalls + MaxElsewhere \in Nat
    BY BoundsAreNatural DEF Tabs_!TypeOK, Tabs_!Delivered, Tabs_!ListsPlaced
  <1>2. /\ rows' \in Tabs_!Rows /\ Tabs_!Placed(rows)'
        /\ created' \in {created, created + 1} /\ created' \in 0..MaxTabs
        /\ commits' = commits + 1 /\ notices' = notices + 1
        /\ c.op = "create" => created' = created + 1 /\ DOMAIN rows' = DOMAIN rows \cup {created'}
        /\ c.op # "create" => created' = created /\ DOMAIN rows' \subseteq DOMAIN rows
        /\ c.op = "rename" => c.tab \in DOMAIN rows'
        /\ c.op = "remove" => c.tab \notin DOMAIN rows'
    BY <1>1, CommitMovesTabs
  <1>3. shown' = shown /\ seen' = seen /\ fetch' = fetch /\ outdated' = outdated
    BY DEF Tabs_!cache
  <1>4. \A i \in 1..created : i \in 1..created' /\ (i \in DOMAIN rows' => i \in DOMAIN rows)
    BY <1>1, <1>2
  <1>5. ASSUME NEW l \in Tabs_!Rows, Tabs_!Placed(l)
        PROVE  Tabs_!Placed(l)'
    <2>1. \A i \in DOMAIN l : l[i].pos \in Nat /\ i \in Nat
      BY BoundsAreNatural, ListType DEF Tabs_!Ids
    <2> QED BY <1>1, <1>2, <1>5, <2>1 DEF Tabs_!Placed
  <1>6. /\ (Tabs_!Loaded => Tabs_!Placed(shown)')
        /\ (Tabs_!Delivered => Tabs_!Placed(fetch[2])')
    <2>1. ASSUME Tabs_!Loaded PROVE Tabs_!Placed(shown)'
      <3>1. PICK l : l = shown
        OBVIOUS
      <3>2. Tabs_!Placed(l)'
        BY <1>1, <1>5, <2>1, <3>1 DEF Tabs_!Loaded
      <3> QED BY <1>3, <3>1, <3>2 DEF Tabs_!Placed
    <2>2. ASSUME Tabs_!Delivered PROVE Tabs_!Placed(fetch[2])'
      <3>1. PICK l : l = fetch[2]
        OBVIOUS
      <3>2. Tabs_!Placed(l)'
        BY <1>1, <1>5, <2>2, <3>1
      <3> QED BY <1>3, <3>1, <3>2 DEF Tabs_!Placed
    <2> QED BY <2>1, <2>2
  <1>7. Tabs_!ListCurrent'
    <2>1. notices' # 0 /\ seen # commits' /\ (Tabs_!Delivered => fetch[3] # commits')
      BY <1>1, <1>2
    <2> QED BY <1>3, <2>1 DEF Tabs_!ListCurrent, Tabs_!Delivered, Tabs_!Loaded
  <1>8. ASSUME NEW d, Tabs_!CallFits(d)
        PROVE  Tabs_!CallFits(d)'
    <2>1. d.st \in {"answered", "done"} => d.at <= commits' /\ d.at # commits'
      <3>1. d.st \in {"answered", "done"} => d.at \in Nat /\ d.at <= commits
        BY <1>8 DEF Tabs_!CallFits
      <3> QED BY <1>1, <1>2, <3>1
    <2>2. d.st = "answered" => d.rows \in Tabs_!Rows /\ Tabs_!Placed(d.rows)'
      BY <1>5, <1>8 DEF Tabs_!CallFits
    <2>3. /\ d.op \in {"rename", "remove"} => d.tab \in 1..created'
          /\ d.st \in {"answered", "done"} => (d.op = "create" => d.tab \in 1..created')
          /\ d.st = "answered" /\ d.op = "remove" => d.tab \notin DOMAIN rows'
      BY <1>4, <1>8 DEF Tabs_!CallFits
    <2> QED BY <1>3, <1>8, <2>1, <2>2, <2>3 DEF Tabs_!CallFits, Tabs_!Loaded
  <1>9. /\ commits' \in 0..MaxCalls + MaxElsewhere /\ notices' \in 0..commits' /\ seen' \in 0..commits'
        /\ fetch' \in {Tabs_!Idle, Tabs_!Sent} \/ (fetch'[2] \in Tabs_!Rows /\ fetch'[3] \in 0..commits')
    <2>1. 0..commits \subseteq 0..commits'
      BY <1>1, <1>2
    <2>2. commits' \in 0..MaxCalls + MaxElsewhere /\ notices' \in 0..commits'
      BY <1>1, <1>2
    <2> QED BY <1>1, <1>3, <2>1, <2>2 DEF Tabs_!Delivered
  <1>10. c.op = "create" => created' \in 1..created' /\ created' \in DOMAIN rows'
    BY <1>1, <1>2
  <1>11. Tabs_!Loaded' = Tabs_!Loaded
    BY <1>3 DEF Tabs_!Loaded
  <1> QED BY <1>2, <1>4, <1>6, <1>7, <1>8, <1>9, <1>10, <1>11

(* Another window changes the tabs.                                         *)
LEMMA ElsewhereKeepsTabs ==
    ASSUME Tabs_!TabListInv, Tabs_!Elsewhere
    PROVE  Tabs_!TabListInv'
  <1>0. Tabs_!TypeOK /\ Tabs_!ListsPlaced /\ Tabs_!CallsFit /\ Tabs_!TabsKept /\ Tabs_!OneAuto
        /\ Tabs_!ListCurrent
    BY DEF Tabs_!TabListInv
  <1>1. PICK c \in Tabs_!Requests(rows) : Tabs_!Commit(c)
    BY DEF Tabs_!Elsewhere
  <1>2. /\ elsewhere < MaxElsewhere /\ elsewhere' = elsewhere + 1
        /\ UNCHANGED Tabs_!cache /\ UNCHANGED <<calls, autos>> /\ UNCHANGED Tabs_!component
    BY DEF Tabs_!Elsewhere
  <1>3. /\ c.op \in {"create", "rename", "reorder", "remove"}
        /\ c.op = "reorder" => c.order \in Tabs_!Orders(c.order)
    BY <1>0, RequestsFit DEF Tabs_!TypeOK
  <1>4. Cardinality(Tabs_!Served) \in Nat /\ Cardinality(Tabs_!Served) <= MaxCalls
    BY <1>0, ServedAreCounted
  <1>5. /\ commits = elsewhere + Cardinality(Tabs_!Served) /\ elsewhere \in 0..MaxElsewhere
        /\ elsewhere' \in 0..MaxElsewhere /\ commits + 1 <= MaxCalls + MaxElsewhere
        /\ commits + 1 = elsewhere' + Cardinality(Tabs_!Served)
    <2>1. commits = elsewhere + Cardinality(Tabs_!Served) /\ elsewhere \in 0..MaxElsewhere
      BY <1>0 DEF Tabs_!TypeOK, Tabs_!ListsPlaced, Tabs_!Cardinality, Cardinality
    <2> QED BY <1>2, <1>4, <2>1, BoundsAreNatural
  <1>6. /\ rows' \in Tabs_!Rows /\ Tabs_!Placed(rows)'
        /\ (Tabs_!Loaded => Tabs_!Placed(shown)') /\ (Tabs_!Delivered => Tabs_!Placed(fetch[2])')
        /\ Tabs_!ListCurrent'
        /\ created' \in 0..MaxTabs /\ commits' = commits + 1
        /\ commits' \in 0..MaxCalls + MaxElsewhere /\ notices' \in 0..commits'
        /\ seen' \in 0..commits'
        /\ fetch' \in {Tabs_!Idle, Tabs_!Sent} \/ (fetch'[2] \in Tabs_!Rows /\ fetch'[3] \in 0..commits')
        /\ \A i \in 1..created : i \in 1..created' /\ (i \in DOMAIN rows' => i \in DOMAIN rows)
        /\ \A d : Tabs_!CallFits(d) => Tabs_!CallFits(d)'
    BY <1>0, <1>1, <1>2, <1>3, <1>5, CommitKeepsLists
  <1>7. /\ shown' = shown /\ fetch' = fetch /\ refreshing' = refreshing /\ outdated' = outdated
        /\ mounted' = mounted /\ watched' = watched /\ active' = active /\ editing' = editing
        /\ checked' = checked /\ calls' = calls /\ autos' = autos
    BY <1>2 DEF Tabs_!cache, Tabs_!component
  <1>8. Tabs_!TypeOK'
    BY <1>0, <1>5, <1>6, <1>7 DEF Tabs_!TypeOK
  <1>9. Tabs_!ListsPlaced'
    <2>1. Tabs_!Served' = Tabs_!Served
      BY <1>7 DEF Tabs_!Served
    <2>2. commits' = elsewhere' + Cardinality(Tabs_!Served')
      BY <1>5, <1>6, <2>1
    <2>3. commits' = elsewhere' + Tabs_!Cardinality(Tabs_!Served')
      BY <2>2 DEF Tabs_!Cardinality, Cardinality
    <2> QED BY <1>6, <1>7, <2>3 DEF Tabs_!ListsPlaced, Tabs_!Loaded, Tabs_!Delivered
  <1>10. Tabs_!CallsFit'
    <2>1. ASSUME NEW k \in DOMAIN calls PROVE Tabs_!CallFits(calls[k])'
      <3>1. PICK d : d = calls[k]
        OBVIOUS
      <3>2. Tabs_!CallFits(d)'
        BY <1>0, <1>6, <3>1 DEF Tabs_!CallsFit
      <3>3. calls'[k] = d
        BY <1>7, <3>1
      <3> QED BY <3>2, <3>3
    <2> QED BY <1>0, <1>7, <2>1 DEF Tabs_!CallsFit
  <1>11. \A k \in DOMAIN calls : calls[k].op = "create" /\ k \in Tabs_!Served => calls[k].tab \in 1..created
    BY <1>0 DEF Tabs_!CallsFit, Tabs_!CallFits, Tabs_!Served
  <1>12. Tabs_!TabsKept'
    BY <1>0, <1>6, <1>7, <1>11 DEF Tabs_!TabsKept, Tabs_!Served, Tabs_!Loaded, Tabs_!Delivered
  <1>13. Tabs_!OneAuto'
    BY <1>0, <1>6, <1>7, <1>11 DEF Tabs_!OneAuto, Tabs_!Alive, Tabs_!Served
  <1> QED BY <1>6, <1>8, <1>9, <1>10, <1>12, <1>13, TabsSettled

(* A mutation of this window is carried out, or fails.                      *)
LEMMA ServingKeepsTabs ==
    ASSUME Tabs_!TabListInv, NEW k \in DOMAIN calls, Tabs_!Serve(k)
    PROVE  Tabs_!TabListInv'
  <1>0. Tabs_!TypeOK /\ Tabs_!ListsPlaced /\ Tabs_!CallsFit /\ Tabs_!TabsKept /\ Tabs_!OneAuto
        /\ Tabs_!ListCurrent
    BY DEF Tabs_!TabListInv
  <1> DEFINE c == calls[k]
  <1> DEFINE tab_ == IF c.op = "create" THEN created' ELSE c.tab
  <1> DEFINE ok == [op |-> c.op, tab |-> tab_, order |-> c.order, st |-> "answered",
                    rows |-> rows', at |-> commits']
  <1> DEFINE bad == [op |-> c.op, tab |-> c.tab, order |-> c.order, st |-> "failed",
                     rows |-> c.rows, at |-> c.at]
  <1>1. /\ c.st = "sent" /\ UNCHANGED <<elsewhere, autos>> /\ UNCHANGED Tabs_!cache
        /\ UNCHANGED Tabs_!component
    BY DEF Tabs_!Serve
  <1>2. /\ calls = [j \in 1..Len(calls) |-> calls[j]] /\ Len(calls) \in Nat
        /\ DOMAIN calls = 1..Len(calls) /\ Tabs_!CallFits(c)
        /\ \A j \in DOMAIN calls : Tabs_!CallFits(calls[j])
    BY <1>0, CallsAreListed DEF Tabs_!CallsFit
  <1>3. /\ c = [op |-> c.op, tab |-> c.tab, order |-> c.order, st |-> c.st, rows |-> c.rows,
                at |-> c.at]
        /\ c.op \in {"create", "rename", "reorder", "remove"}
        /\ c.op = "reorder" => c.order \in Tabs_!Orders(c.order)
        /\ c.op # "create" => Tabs_!Loaded
        /\ c.op \in {"rename", "remove"} => c.tab \in 1..created
    BY <1>2 DEF Tabs_!CallFits
  <1>4. /\ shown' = shown /\ fetch' = fetch /\ refreshing' = refreshing /\ outdated' = outdated
        /\ mounted' = mounted /\ watched' = watched /\ active' = active /\ editing' = editing
        /\ checked' = checked /\ autos' = autos /\ seen' = seen /\ elsewhere' = elsewhere
    BY <1>1 DEF Tabs_!cache, Tabs_!component
  <1>5. \A j \in DOMAIN calls : calls[j].op = "create" /\ j \in Tabs_!Served => calls[j].tab \in 1..created
    BY <1>2 DEF Tabs_!CallFits, Tabs_!Served
  <1>6. ASSUME NEW new, calls' = [j \in 1..Len(calls) |-> IF j = k THEN new ELSE calls[j]],
               new \in {ok, bad}
        PROVE  /\ Len(calls') = Len(calls) /\ DOMAIN calls' = DOMAIN calls
               /\ calls' = [j \in 1..Len(calls') |-> calls'[j]]
               /\ calls'[k] = new /\ new.op = c.op /\ new.st \in {"answered", "failed"}
               /\ \A j \in DOMAIN calls \ {k} : calls'[j] = calls[j]
               /\ \A j \in DOMAIN calls' : calls'[j].st \in {"sent", "answered", "done", "failed"}
               /\ Len(calls') <= MaxCalls /\ watched' \in 0..Len(calls') /\ autos' \subseteq DOMAIN calls'
    <2>1. DOMAIN calls' = 1..Len(calls) /\ calls'[k] = new
          /\ \A j \in DOMAIN calls \ {k} : calls'[j] = calls[j]
      BY <1>2, <1>6
    <2>2. Len(calls') = Len(calls)
      <3>1. PICK s : s = calls'
        OBVIOUS
      <3>2. PICK n \in Nat : n = Len(calls)
        BY <1>2
      <3>3. s = [j \in 1..n |-> IF j = k THEN new ELSE calls[j]]
        BY <1>6, <3>1, <3>2
      <3>4. Len(s) = n
        BY <3>3
      <3> QED BY <3>1, <3>2, <3>4
    <2>3. new.op = c.op /\ new.st \in {"answered", "failed"}
      BY <1>6
    <2>4. calls' = [j \in 1..Len(calls') |-> calls'[j]]
      BY <1>6, <2>2
    <2> QED BY <1>0, <1>2, <1>4, <2>1, <2>2, <2>3, <2>4 DEF Tabs_!TypeOK
  <1>7. CASE ~Tabs_!Accepts(c)
    <2>1. UNCHANGED <<rows, created, commits, notices>> /\ calls' = [calls EXCEPT ![k].st = "failed"]
      BY <1>7 DEF Tabs_!Serve
    <2>2. PICK new : new = bad
      OBVIOUS
    <2>3. calls' = [j \in 1..Len(calls) |-> IF j = k THEN new ELSE calls[j]]
      <3>1. [c EXCEPT !.st = "failed"] = new
        BY <1>3, <2>2
      <3> QED BY <1>2, <2>1, <3>1
    <2>4. /\ Len(calls') = Len(calls) /\ DOMAIN calls' = DOMAIN calls
          /\ calls' = [j \in 1..Len(calls') |-> calls'[j]]
          /\ calls'[k] = new /\ new.op = c.op /\ new.st = "failed"
          /\ \A j \in DOMAIN calls \ {k} : calls'[j] = calls[j]
          /\ \A j \in DOMAIN calls' : calls'[j].st \in {"sent", "answered", "done", "failed"}
          /\ Len(calls') <= MaxCalls /\ watched' \in 0..Len(calls') /\ autos' \subseteq DOMAIN calls'
      BY <1>6, <2>2, <2>3
    <2> HIDE DEF c
    <2>5. Tabs_!TypeOK'
      BY <1>0, <1>4, <2>1, <2>4 DEF Tabs_!TypeOK
    <2>6. Tabs_!Served' = Tabs_!Served
      BY <1>1, <2>4 DEF Tabs_!Served, c
    <2>7. Tabs_!ListsPlaced' /\ Tabs_!ListCurrent'
      BY <1>0, <1>4, <2>1, <2>6 DEF Tabs_!ListsPlaced, Tabs_!Placed, Tabs_!Loaded, Tabs_!Delivered,
           Tabs_!ListCurrent
    <2>8. Tabs_!CallsFit'
      <3>1. ASSUME NEW d, Tabs_!CallFits(d) PROVE Tabs_!CallFits(d)'
        BY <1>4, <2>1, <3>1 DEF Tabs_!CallFits, Tabs_!Loaded, Tabs_!Placed
      <3>2. Tabs_!CallFits(new)
        BY <1>3, <2>2 DEF Tabs_!CallFits
      <3>3. ASSUME NEW j \in DOMAIN calls' PROVE Tabs_!CallFits(calls[j])'
        <4>1. PICK d : d = calls'[j]
          OBVIOUS
        <4>2. Tabs_!CallFits(d)
          BY <1>2, <2>4, <3>2, <4>1
        <4>3. Tabs_!CallFits(d)'
          BY <3>1, <4>2
        <4> QED BY <4>1, <4>3
      <3> QED BY <1>2, <2>4, <3>3 DEF Tabs_!CallsFit
    <2>9. Tabs_!TabsKept'
      BY <1>0, <1>4, <2>1, <2>4 DEF Tabs_!TabsKept, Tabs_!Loaded, Tabs_!Delivered
    <2>10. Tabs_!OneAuto'
      <3>1. \A j \in autos : j \in DOMAIN calls /\ calls'[j].op = calls[j].op
                             /\ (Tabs_!Alive(j)' => Tabs_!Alive(j))
        <4>1. autos \subseteq DOMAIN calls
          BY <1>0 DEF Tabs_!TypeOK
        <4> QED BY <1>1, <2>1, <2>4, <2>6, <4>1 DEF Tabs_!Alive, c
      <3> QED BY <1>0, <1>4, <3>1 DEF Tabs_!OneAuto
    <2> QED BY <2>5, <2>7, <2>8, <2>9, <2>10, TabsSettled
  <1>8. CASE Tabs_!Accepts(c)
    <2>1. Tabs_!Commit(c)
      BY <1>8 DEF Tabs_!Serve
    <2>2. PICK new : new = ok
      OBVIOUS
    <2>3. calls' = [j \in 1..Len(calls) |-> IF j = k THEN new ELSE calls[j]]
      <3>1. calls' = [calls EXCEPT ![k].st = "answered", ![k].rows = rows', ![k].at = commits',
                                  ![k].tab = IF calls[k].op = "create" THEN created' ELSE @]
        BY <1>8 DEF Tabs_!Serve
      <3>2. \A j \in DOMAIN calls \ {k} : calls'[j] = calls[j]
        BY <3>1
      <3>3. calls'[k] = new
        BY <1>3, <2>2, <3>1
      <3>4. calls' = [j \in 1..Len(calls) |-> calls'[j]]
        BY <1>2, <3>1
      <3> QED BY <1>2, <3>2, <3>3, <3>4
    <2>4. /\ Len(calls') = Len(calls) /\ DOMAIN calls' = DOMAIN calls
          /\ calls' = [j \in 1..Len(calls') |-> calls'[j]]
          /\ calls'[k] = new /\ new.op = c.op /\ new.st = "answered"
          /\ \A j \in DOMAIN calls \ {k} : calls'[j] = calls[j]
          /\ \A j \in DOMAIN calls' : calls'[j].st \in {"sent", "answered", "done", "failed"}
          /\ Len(calls') <= MaxCalls /\ watched' \in 0..Len(calls') /\ autos' \subseteq DOMAIN calls'
      BY <1>6, <2>2, <2>3
    <2>5. k \in DOMAIN calls \ Tabs_!Served
      BY <1>1 DEF Tabs_!Served
    <2> HIDE DEF c
    <2>6. Tabs_!Served' = Tabs_!Served \cup {k}
      BY <1>1, <2>4 DEF Tabs_!Served
    <2>7. /\ Cardinality(Tabs_!Served) \in Nat /\ Cardinality(Tabs_!Served) + 1 <= MaxCalls
          /\ Cardinality(Tabs_!Served') = Cardinality(Tabs_!Served) + 1
      BY <1>0, <2>5, <2>6, ServedAreCounted
    <2>8. /\ commits = elsewhere + Cardinality(Tabs_!Served) /\ elsewhere \in 0..MaxElsewhere
          /\ commits + 1 <= MaxCalls + MaxElsewhere
          /\ commits + 1 = elsewhere' + Cardinality(Tabs_!Served')
      <3>1. commits = elsewhere + Cardinality(Tabs_!Served) /\ elsewhere \in 0..MaxElsewhere
        BY <1>0 DEF Tabs_!TypeOK, Tabs_!ListsPlaced, Tabs_!Cardinality, Cardinality
      <3> QED BY <1>4, <2>7, <3>1, BoundsAreNatural
    <2>9. /\ rows' \in Tabs_!Rows /\ Tabs_!Placed(rows)'
          /\ (Tabs_!Loaded => Tabs_!Placed(shown)') /\ (Tabs_!Delivered => Tabs_!Placed(fetch[2])')
          /\ Tabs_!ListCurrent'
          /\ created' \in 0..MaxTabs /\ commits' = commits + 1
          /\ commits' \in 0..MaxCalls + MaxElsewhere /\ notices' \in 0..commits'
          /\ seen' \in 0..commits'
          /\ fetch' \in {Tabs_!Idle, Tabs_!Sent} \/ (fetch'[2] \in Tabs_!Rows /\ fetch'[3] \in 0..commits')
          /\ \A i \in 1..created : i \in 1..created' /\ (i \in DOMAIN rows' => i \in DOMAIN rows)
          /\ \A d : Tabs_!CallFits(d) => Tabs_!CallFits(d)'
          /\ c.op = "create" => created' \in 1..created' /\ created' \in DOMAIN rows'
          /\ c.op = "rename" => c.tab \in DOMAIN rows'
          /\ c.op = "remove" => c.tab \notin DOMAIN rows'
      BY <1>0, <1>1, <1>3, <2>1, <2>8, CommitKeepsLists
    <2>10. Tabs_!TypeOK'
      BY <1>0, <1>4, <2>4, <2>9 DEF Tabs_!TypeOK
    <2>11. Tabs_!ListsPlaced'
      <3>1. commits' = elsewhere' + Tabs_!Cardinality(Tabs_!Served')
        BY <2>8, <2>9 DEF Tabs_!Cardinality, Cardinality
      <3> QED BY <1>4, <2>9, <3>1 DEF Tabs_!ListsPlaced, Tabs_!Loaded, Tabs_!Delivered
    <2>12. Tabs_!CallsFit'
      <3>1. Tabs_!CallFits(new)'
        <4>1. /\ new.op = c.op /\ new.st = "answered" /\ new.rows = rows' /\ new.at = commits'
              /\ new.order = c.order /\ new.tab = tab_
              /\ new = [op |-> new.op, tab |-> new.tab, order |-> new.order, st |-> new.st,
                        rows |-> new.rows, at |-> new.at]
          BY <2>2
        <4>2. commits' \in 0..commits'
          BY <1>0, <2>9, BoundsAreNatural DEF Tabs_!TypeOK
        <4>3. Tabs_!Placed(new.rows)'
          BY <2>9, <4>1 DEF Tabs_!Placed
        <4>4. /\ c.op = "create" => new.tab = created'
              /\ c.op # "create" => new.tab = c.tab
          BY <4>1
        <4>5. Tabs_!Loaded' = Tabs_!Loaded
          BY <1>4 DEF Tabs_!Loaded
        <4> QED BY <1>3, <2>9, <4>1, <4>2, <4>3, <4>4, <4>5 DEF Tabs_!CallFits
      <3>2. ASSUME NEW j \in DOMAIN calls' PROVE Tabs_!CallFits(calls[j])'
        <4>1. PICK d : d = calls'[j]
          OBVIOUS
        <4>2. Tabs_!CallFits(d)'
          <5>1. CASE j = k
            BY <2>4, <3>1, <4>1, <5>1
          <5>2. CASE j # k
            <6>1. Tabs_!CallFits(d)
              BY <1>2, <2>4, <4>1, <5>2
            <6> QED BY <2>9, <6>1
          <5> QED BY <5>1, <5>2
        <4> QED BY <4>1, <4>2
      <3> QED BY <1>2, <2>4, <3>2 DEF Tabs_!CallsFit
    <2>13. Tabs_!TabsKept'
      <3>1. \A j \in DOMAIN calls' : calls'[j].st = "done" => j # k /\ j \in Tabs_!Served
        BY <2>4, <2>6 DEF Tabs_!Served
      <3> QED BY <1>0, <1>4, <1>5, <2>4, <2>9, <3>1 DEF Tabs_!TabsKept, Tabs_!Loaded, Tabs_!Delivered
    <2>14. Tabs_!OneAuto'
      <3>1. \A j \in autos : j \in DOMAIN calls /\ calls'[j].op = calls[j].op
                             /\ (Tabs_!Alive(j)' => Tabs_!Alive(j))
        <4>1. autos \subseteq DOMAIN calls /\ \A j \in autos : calls[j].op = "create"
          BY <1>0 DEF Tabs_!TypeOK, Tabs_!OneAuto
        <4>2. \A j \in autos : calls'[j].op = calls[j].op
          BY <2>4, <4>1 DEF c
        <4>3. Tabs_!Alive(k)
          BY <1>1 DEF Tabs_!Alive, c
        <4>4. ASSUME NEW j \in autos, j # k, Tabs_!Alive(j)' PROVE Tabs_!Alive(j)
          BY <1>5, <2>4, <2>6, <2>9, <4>1, <4>4 DEF Tabs_!Alive
        <4> QED BY <4>1, <4>2, <4>3, <4>4
      <3> QED BY <1>0, <1>4, <3>1 DEF Tabs_!OneAuto
    <2> QED BY <2>9, <2>10, <2>11, <2>12, <2>13, <2>14, TabsSettled
  <1> QED BY <1>7, <1>8

(* A mutation whose answer has been taken up is done; nothing else of it    *)
(* changes.                                                                 *)
LEMMA AnswersAreTakenUp ==
    ASSUME Tabs_!TypeOK, Tabs_!CallsFit, NEW k \in DOMAIN calls, calls[k].st = "answered",
           calls' = [calls EXCEPT ![k].st = "done"],
           UNCHANGED <<rows, created, commits, autos, watched>>, Tabs_!Loaded'
    PROVE  /\ Len(calls') = Len(calls) /\ DOMAIN calls' = DOMAIN calls
           /\ \A j \in DOMAIN calls : calls'[j].op = calls[j].op /\ calls'[j].tab = calls[j].tab
           /\ \A j \in DOMAIN calls \ {k} : calls'[j] = calls[j]
           /\ \A j \in DOMAIN calls' : calls'[j].st \in {"sent", "answered", "done", "failed"}
           /\ Tabs_!Served' = Tabs_!Served /\ calls'[k].st = "done"
           /\ Tabs_!CallsFit' /\ (Tabs_!OneAuto => Tabs_!OneAuto')
  <1> DEFINE c == calls[k]
  <1> DEFINE done == [op |-> c.op, tab |-> c.tab, order |-> c.order, st |-> "done",
                      rows |-> c.rows, at |-> c.at]
  <1>1. /\ calls = [j \in 1..Len(calls) |-> calls[j]] /\ Len(calls) \in Nat
        /\ DOMAIN calls = 1..Len(calls) /\ Tabs_!CallFits(c)
        /\ \A j \in DOMAIN calls : Tabs_!CallFits(calls[j])
    BY CallsAreListed DEF Tabs_!CallsFit
  <1>2. /\ c = [op |-> c.op, tab |-> c.tab, order |-> c.order, st |-> c.st, rows |-> c.rows,
                at |-> c.at]
        /\ c.op \in {"create", "rename", "reorder", "remove"}
        /\ c.op = "reorder" => c.order \in Tabs_!Orders(c.order)
        /\ c.op \in {"rename", "remove"} => c.tab \in 1..created
        /\ c.at \in 0..commits /\ (c.op = "create" => c.tab \in 1..created)
    BY <1>1 DEF Tabs_!CallFits
  <1>3. PICK new : new = done
    OBVIOUS
  <1>4. calls' = [j \in 1..Len(calls) |-> IF j = k THEN new ELSE calls[j]]
    <2>1. [c EXCEPT !.st = "done"] = new
      BY <1>2, <1>3
    <2> QED BY <1>1, <2>1
  <1>5. DOMAIN calls' = DOMAIN calls /\ calls'[k] = new
        /\ \A j \in DOMAIN calls \ {k} : calls'[j] = calls[j]
    BY <1>1, <1>4
  <1>6. Len(calls') = Len(calls) /\ calls' = [j \in 1..Len(calls') |-> calls'[j]]
    <2>1. PICK s : s = calls'
      OBVIOUS
    <2>2. PICK n \in Nat : n = Len(calls)
      BY <1>1
    <2>3. s = [j \in 1..n |-> IF j = k THEN new ELSE calls[j]]
      BY <1>4, <2>1, <2>2
    <2>4. Len(s) = n
      BY <2>3
    <2> QED BY <1>4, <2>1, <2>2, <2>4
  <1>7. /\ new.op = c.op /\ new.tab = c.tab /\ new.st = "done" /\ new.at = c.at
        /\ new.order = c.order
        /\ new = [op |-> new.op, tab |-> new.tab, order |-> new.order, st |-> new.st,
                  rows |-> new.rows, at |-> new.at]
    BY <1>3
  <1> HIDE DEF c
  <1>8. Tabs_!CallsFit'
    <2>1. ASSUME NEW d, Tabs_!CallFits(d) PROVE Tabs_!CallFits(d)'
      BY <2>1 DEF Tabs_!CallFits, Tabs_!Placed
    <2>2. Tabs_!CallFits(new)'
      BY <1>2, <1>7 DEF Tabs_!CallFits
    <2>3. ASSUME NEW j \in DOMAIN calls' PROVE Tabs_!CallFits(calls[j])'
      <3>1. PICK d : d = calls'[j]
        OBVIOUS
      <3>2. Tabs_!CallFits(d)'
        <4>1. CASE j = k
          BY <1>5, <2>2, <3>1, <4>1
        <4>2. CASE j # k
          <5>1. Tabs_!CallFits(d)
            BY <1>1, <1>5, <3>1, <4>2
          <5> QED BY <2>1, <5>1
        <4> QED BY <4>1, <4>2
      <3> QED BY <3>1, <3>2
    <2> QED BY <1>1, <1>6, <2>3 DEF Tabs_!CallsFit
  <1>9. Tabs_!Served' = Tabs_!Served
    BY <1>5, <1>7, ZenonT(30) DEF Tabs_!Served, c
  <1>10. /\ \A j \in DOMAIN calls : calls'[j].op = calls[j].op /\ calls'[j].tab = calls[j].tab
         /\ \A j \in DOMAIN calls' : calls'[j].st \in {"sent", "answered", "done", "failed"}
         /\ \A j \in DOMAIN calls : calls'[j].st = "sent" => calls[j].st = "sent"
    BY <1>5, <1>7 DEF c, Tabs_!TypeOK
  <1>11. Tabs_!OneAuto => Tabs_!OneAuto'
    <2>1. \A j \in autos : j \in DOMAIN calls /\ (Tabs_!Alive(j)' => Tabs_!Alive(j))
      <3>1. autos \subseteq DOMAIN calls
        BY DEF Tabs_!TypeOK
      <3> QED BY <1>9, <1>10, <3>1 DEF Tabs_!Alive
    <2> QED BY <1>10, <2>1 DEF Tabs_!OneAuto
  <1> QED BY <1>5, <1>6, <1>7, <1>8, <1>9, <1>10, <1>11

(* The answer of a create puts its tab into the list.                       *)
LEMMA CreatedKeepsTabs ==
    ASSUME Tabs_!TabListInv, NEW k \in DOMAIN calls, Tabs_!Created(k)
    PROVE  Tabs_!TabListInv'
  <1>0. Tabs_!TypeOK /\ Tabs_!ListsPlaced /\ Tabs_!CallsFit /\ Tabs_!TabsKept /\ Tabs_!OneAuto
        /\ Tabs_!ListCurrent
    BY DEF Tabs_!TabListInv
  <1> DEFINE c == calls[k]
  <1> DEFINE base == IF Tabs_!Loaded THEN shown ELSE <<>>
  <1> DEFINE i == c.tab
  <1>1. /\ c.st = "answered" /\ c.op = "create" /\ calls' = [calls EXCEPT ![k].st = "done"]
        /\ shown' = Tabs_!With(base, i, c.rows[i])
        /\ fetch' = Tabs_!Idle
    BY DEF Tabs_!Created
  <1>2. UNCHANGED <<rows, created, commits, elsewhere, notices, seen, mounted, watched, active,
                    editing, checked, autos>>
    BY DEF Tabs_!Created, Tabs_!project, Tabs_!component
  <1>3. /\ refreshing' = FALSE
        /\ outdated' = (outdated \/ fetch # Tabs_!Idle \/ ~Tabs_!Loaded \/ seen > c.at)
    BY Zenon DEF Tabs_!Created
  <1>4. refreshing' \in BOOLEAN /\ outdated' \in BOOLEAN
    BY <1>3, Zenon
  <1>5. /\ c.tab \in 1..created /\ c.at \in 0..commits /\ c.rows \in Tabs_!Rows /\ Tabs_!Placed(c.rows)
        /\ (c.at = commits => c.rows = rows) /\ c.tab \in DOMAIN c.rows
    BY <1>0, <1>1 DEF Tabs_!CallsFit, Tabs_!CallFits
  <1>6. /\ i \in Tabs_!Ids /\ c.rows[i] \in Tabs_!Row /\ c.rows[i].pos < created /\ i <= created
    BY <1>5, ListType DEF Tabs_!Placed
  <1>7. base \in Tabs_!Rows /\ Tabs_!Placed(base)
    <2>1. CASE Tabs_!Loaded
      BY <1>0, <2>1 DEF Tabs_!TypeOK, Tabs_!ListsPlaced, Tabs_!Loaded
    <2>2. CASE ~Tabs_!Loaded
      BY <2>2, EmptyList DEF Tabs_!Placed
    <2> QED BY <2>1, <2>2
  <1> HIDE DEF base, i, c
  <1>8. /\ shown' \in Tabs_!Rows /\ DOMAIN shown' = DOMAIN base \cup {i}
        /\ shown'[i] = c.rows[i]
        /\ \A j \in DOMAIN base \ {i} : shown'[j] = base[j]
        /\ i \in DOMAIN base /\ c.rows[i] = base[i] => shown' = base
    <2>1. PICK l \in Tabs_!Rows, row \in Tabs_!Row, n \in Tabs_!Ids :
               l = base /\ row = c.rows[i] /\ n = i
      BY <1>6, <1>7
    <2>2. shown' = Tabs_!With(l, n, row)
      BY <1>1, <2>1
    <2> HIDE <2>1
    <2>3. /\ shown' \in Tabs_!Rows /\ DOMAIN shown' = DOMAIN l \cup {n} /\ shown'[n] = row
          /\ \A j \in DOMAIN l \ {n} : shown'[j] = l[j]
          /\ n \in DOMAIN l /\ row = l[n] => shown' = l
      <3>1. shown' \in Tabs_!Rows
        BY <2>2, ListAdd
      <3>2. DOMAIN shown' = DOMAIN l \cup {n}
        BY <2>2, ListAdd
      <3>3. shown'[n] = row /\ \A j \in DOMAIN l \ {n} : shown'[j] = l[j]
        BY <2>2 DEF Tabs_!With
      <3>5. n \in DOMAIN l /\ row = l[n] => shown' = l
        BY <2>2, ListAdd
      <3> QED BY <3>1, <3>2, <3>3, <3>5
    <2> QED BY <2>1, <2>3
  <1>9. Tabs_!Loaded'
    BY <1>8, ListIsRead DEF Tabs_!Loaded
  <1>10. Tabs_!Placed(shown)'
    <2> SUFFICES ASSUME NEW j \in DOMAIN shown' PROVE j <= created /\ shown'[j].pos < created
      BY <1>2 DEF Tabs_!Placed
    <2>1. CASE j = i
      BY <1>6, <1>8, <2>1
    <2>2. CASE j # i
      BY <1>7, <1>8, <2>2 DEF Tabs_!Placed
    <2> QED BY <2>1, <2>2
  <1>11. /\ Len(calls') = Len(calls) /\ DOMAIN calls' = DOMAIN calls
         /\ \A j \in DOMAIN calls : calls'[j].op = calls[j].op /\ calls'[j].tab = calls[j].tab
         /\ \A j \in DOMAIN calls \ {k} : calls'[j] = calls[j]
         /\ \A j \in DOMAIN calls' : calls'[j].st \in {"sent", "answered", "done", "failed"}
         /\ Tabs_!Served' = Tabs_!Served /\ calls'[k].st = "done"
         /\ Tabs_!CallsFit' /\ Tabs_!OneAuto'
    BY <1>0, <1>1, <1>2, <1>9, AnswersAreTakenUp DEF c
  <1>12. Tabs_!TypeOK'
    BY <1>0, <1>1, <1>2, <1>3, <1>4, <1>8, <1>11 DEF Tabs_!TypeOK
  <1>13. Tabs_!ListsPlaced'
    BY <1>0, <1>1, <1>2, <1>10, <1>11 DEF Tabs_!ListsPlaced, Tabs_!Placed, Tabs_!Delivered
  <1>14. Tabs_!TabsKept'
    <2> SUFFICES ASSUME NEW j \in DOMAIN calls, calls[j].op = "create",
                        calls'[j].st = "done", calls[j].tab \in DOMAIN rows
                 PROVE  calls[j].tab \in DOMAIN shown'
      BY <1>1, <1>2, <1>9, <1>11 DEF Tabs_!TabsKept, Tabs_!Delivered
    <2>1. CASE j = k
      BY <1>8, <2>1 DEF i, c
    <2>2. CASE j # k
      <3>1. Tabs_!Loaded /\ calls[j].tab \in DOMAIN shown
        BY <1>0, <1>11, <2>2 DEF Tabs_!TabsKept
      <3> QED BY <1>8, <3>1 DEF base
    <2> QED BY <2>1, <2>2
  <1>15. Tabs_!ListCurrent'
    <2>1. ~Tabs_!Delivered'
      BY <1>1 DEF Tabs_!Delivered
    <2>2. ASSUME ~outdated'
          PROVE  (notices = 0 => seen = commits) /\ (seen = commits => shown' = rows)
      <3>1. ~outdated /\ fetch = Tabs_!Idle /\ Tabs_!Loaded /\ ~(seen > c.at)
        BY <1>3, <2>2, Zenon
      <3>2. (notices = 0 => seen = commits) /\ (seen = commits => shown = rows) /\ base = shown
        BY <1>0, <3>1 DEF Tabs_!ListCurrent, base
      <3>3. ASSUME seen = commits PROVE shown' = rows
        <4>1. commits \in Nat
          BY <1>0, BoundsAreNatural DEF Tabs_!TypeOK
        <4>2. c.at = commits
          BY <1>5, <3>1, <3>3, <4>1
        <4>3. c.rows = rows /\ base = rows /\ i \in DOMAIN base
          BY <1>5, <3>2, <3>3, <4>2 DEF i
        <4> QED BY <1>8, <4>3
      <3> QED BY <3>2, <3>3
    <2> QED BY <1>2, <2>1, <2>2 DEF Tabs_!ListCurrent
  <1> QED BY <1>11, <1>12, <1>13, <1>14, <1>15, TabsSettled

(* The answer of another mutation changes its own fields of the list.       *)
LEMMA MutatedKeepsTabs ==
    ASSUME Tabs_!TabListInv, NEW k \in DOMAIN calls, Tabs_!Mutated(k)
    PROVE  Tabs_!TabListInv'
  <1>0. Tabs_!TypeOK /\ Tabs_!ListsPlaced /\ Tabs_!CallsFit /\ Tabs_!TabsKept /\ Tabs_!OneAuto
        /\ Tabs_!ListCurrent
    BY DEF Tabs_!TabListInv
  <1> DEFINE c == calls[k]
  <1>1. /\ c.st = "answered" /\ c.op # "create" /\ calls' = [calls EXCEPT ![k].st = "done"]
        /\ shown' = Tabs_!Patched(shown, c)
    BY DEF Tabs_!Mutated
  <1>2. UNCHANGED <<rows, created, commits, elsewhere, notices, seen, fetch, refreshing, mounted,
                    watched, active, editing, checked, autos>>
    BY DEF Tabs_!Mutated, Tabs_!project, Tabs_!component
  <1>3. /\ outdated' \in BOOLEAN
        /\ ~outdated' => ~outdated /\ ~(c.op # "remove" /\ seen > c.at)
    <2>1. outdated' = (outdated \/ (c.op # "remove" /\ seen > c.at)
                        \/ \E j \in DOMAIN calls : calls[j].st = "done" /\ calls[j].at > c.at)
      BY Zenon DEF Tabs_!Mutated
    <2> QED BY <2>1, Zenon
  <1>4. /\ c.op \in {"rename", "reorder", "remove"} /\ Tabs_!Loaded
        /\ c.at \in 0..commits /\ c.rows \in Tabs_!Rows /\ Tabs_!Placed(c.rows)
        /\ (c.at = commits => c.rows = rows) /\ (c.op = "rename" => c.tab \in DOMAIN c.rows)
        /\ c.op = "remove" => c.tab \notin DOMAIN rows
    BY <1>0, <1>1 DEF Tabs_!CallsFit, Tabs_!CallFits
  <1>5. /\ shown \in Tabs_!Rows /\ Tabs_!Placed(shown)
        /\ shown \in [DOMAIN shown -> Tabs_!Row] /\ DOMAIN shown \subseteq Tabs_!Ids
        /\ c.rows \in [DOMAIN c.rows -> Tabs_!Row]
    BY <1>0, <1>4, ListType DEF Tabs_!TypeOK, Tabs_!ListsPlaced, Tabs_!Loaded
  <1> HIDE DEF c
  <1>6. /\ shown' \in Tabs_!Rows /\ Tabs_!Placed(shown')
        /\ DOMAIN shown \ {c.tab} \subseteq DOMAIN shown'
        /\ c.op # "remove" => DOMAIN shown' = DOMAIN shown
        /\ c.op # "remove" /\ c.rows = shown => shown' = shown
        /\ c.op = "remove" /\ c.tab \notin DOMAIN shown => shown' = shown
    <2>1. CASE c.op = "rename"
      <3>1. shown' = [i \in DOMAIN shown |-> IF i = c.tab THEN [shown[i] EXCEPT !.name = c.rows[i].name]
                                             ELSE shown[i]]
        BY <1>1, <2>1 DEF Tabs_!Patched
      <3>2. \A i \in DOMAIN shown : shown'[i] \in Tabs_!Row /\ shown'[i].pos = shown[i].pos
        <4>1. c.rows[c.tab].name \in 0..MaxCalls + MaxElsewhere
          BY <1>4, <1>5, <2>1 DEF Tabs_!Row
        <4> QED BY <1>5, <3>1, <4>1 DEF Tabs_!Row
      <3>3. shown' \in [DOMAIN shown -> Tabs_!Row] /\ DOMAIN shown' = DOMAIN shown
        BY <3>1, <3>2
      <3>4. shown' \in Tabs_!Rows /\ Tabs_!Placed(shown')
        BY <1>5, <3>2, <3>3, ListType DEF Tabs_!Placed
      <3>5. c.rows = shown => shown' = shown
        <4>1. ASSUME c.rows = shown, NEW i \in DOMAIN shown PROVE shown'[i] = shown[i]
          BY <1>5, <3>1, <4>1 DEF Tabs_!Row
        <4> QED BY <1>5, <3>3, <4>1
      <3> QED BY <2>1, <3>3, <3>4, <3>5
    <2>2. CASE c.op = "reorder"
      <3>1. shown' = [i \in DOMAIN shown |-> IF i \in DOMAIN c.rows THEN [shown[i] EXCEPT !.pos = c.rows[i].pos]
                                             ELSE shown[i]]
        BY <1>1, <2>2 DEF Tabs_!Patched
      <3>2. \A i \in DOMAIN shown : shown'[i] \in Tabs_!Row /\ shown'[i].pos < created
        <4> SUFFICES ASSUME NEW i \in DOMAIN shown
                     PROVE  shown'[i] \in Tabs_!Row /\ shown'[i].pos < created
          OBVIOUS
        <4>1. CASE i \in DOMAIN c.rows
          <5>1. c.rows[i].pos \in 0..MaxTabs + 1 /\ c.rows[i].pos < created
            BY <1>4, <1>5, <4>1 DEF Tabs_!Row, Tabs_!Placed
          <5>2. shown'[i] = [name |-> shown[i].name, pos |-> c.rows[i].pos]
            BY <1>5, <3>1, <4>1 DEF Tabs_!Row
          <5>3. shown[i].name \in 0..MaxCalls + MaxElsewhere
            BY <1>5 DEF Tabs_!Row
          <5> QED BY <5>1, <5>2, <5>3 DEF Tabs_!Row
        <4>2. CASE i \notin DOMAIN c.rows
          BY <1>5, <3>1, <4>2 DEF Tabs_!Placed
        <4> QED BY <4>1, <4>2
      <3>3. shown' \in [DOMAIN shown -> Tabs_!Row] /\ DOMAIN shown' = DOMAIN shown
        BY <3>1, <3>2
      <3>4. shown' \in Tabs_!Rows /\ Tabs_!Placed(shown')
        BY <1>5, <3>2, <3>3, ListType DEF Tabs_!Placed
      <3>5. c.rows = shown => shown' = shown
        <4>1. ASSUME c.rows = shown, NEW i \in DOMAIN shown PROVE shown'[i] = shown[i]
          BY <1>5, <3>1, <4>1 DEF Tabs_!Row
        <4> QED BY <1>5, <3>3, <4>1
      <3> QED BY <2>2, <3>3, <3>4, <3>5
    <2>3. CASE c.op = "remove"
      <3>1. shown' = Tabs_!Without(shown, c.tab)
        BY <1>1, <2>3 DEF Tabs_!Patched
      <3>2. /\ shown' \in Tabs_!Rows /\ DOMAIN shown' = DOMAIN shown \ {c.tab}
            /\ \A j \in DOMAIN shown \ {c.tab} : shown'[j] = shown[j]
            /\ c.tab \notin DOMAIN shown => shown' = shown
        BY <1>5, <3>1, ListDrop
      <3> QED BY <1>5, <2>3, <3>2 DEF Tabs_!Placed
    <2> QED BY <1>4, <2>1, <2>2, <2>3
  <1>7. Tabs_!Loaded'
    BY <1>6, ListIsRead DEF Tabs_!Loaded
  <1>8. /\ Len(calls') = Len(calls) /\ DOMAIN calls' = DOMAIN calls
        /\ \A j \in DOMAIN calls : calls'[j].op = calls[j].op /\ calls'[j].tab = calls[j].tab
        /\ \A j \in DOMAIN calls \ {k} : calls'[j] = calls[j]
        /\ \A j \in DOMAIN calls' : calls'[j].st \in {"sent", "answered", "done", "failed"}
        /\ Tabs_!Served' = Tabs_!Served /\ calls'[k].st = "done"
        /\ Tabs_!CallsFit' /\ Tabs_!OneAuto'
    BY <1>0, <1>1, <1>2, <1>7, AnswersAreTakenUp DEF c
  <1>9. Tabs_!TypeOK'
    BY <1>0, <1>2, <1>3, <1>6, <1>8 DEF Tabs_!TypeOK
  <1>10. Tabs_!ListsPlaced'
    BY <1>0, <1>2, <1>6, <1>8 DEF Tabs_!ListsPlaced, Tabs_!Placed, Tabs_!Delivered
  <1>11. Tabs_!TabsKept'
    <2>1. ASSUME NEW j \in DOMAIN calls, calls[j].op = "create", calls'[j].st = "done",
                 calls[j].tab \in DOMAIN rows
          PROVE  /\ Tabs_!Loaded' /\ calls[j].tab \in DOMAIN shown'
                 /\ (Tabs_!Delivered => calls[j].tab \in DOMAIN fetch[2])
      <3>1. j # k
        BY <1>1, <2>1 DEF c
      <3>2. calls[j].tab \in DOMAIN shown /\ (Tabs_!Delivered => calls[j].tab \in DOMAIN fetch[2])
        BY <1>0, <1>8, <2>1, <3>1 DEF Tabs_!TabsKept
      <3>3. c.op = "remove" => calls[j].tab # c.tab
        BY <1>4, <2>1
      <3> QED BY <1>6, <1>7, <3>2, <3>3
    <2> QED BY <1>2, <1>8, <2>1 DEF Tabs_!TabsKept, Tabs_!Delivered
  <1>12. Tabs_!ListCurrent'
    <2>1. ASSUME ~outdated', seen = commits PROVE shown' = rows
      <3>1. shown = rows
        BY <1>0, <1>3, <1>4, <2>1 DEF Tabs_!ListCurrent
      <3>2. CASE c.op = "remove"
        BY <1>4, <1>6, <3>1, <3>2
      <3>3. CASE c.op # "remove"
        <4>1. commits \in Nat
          BY <1>0, BoundsAreNatural DEF Tabs_!TypeOK
        <4>2. c.at = commits
          BY <1>3, <1>4, <2>1, <3>3, <4>1
        <4> QED BY <1>4, <1>6, <3>1, <3>3, <4>2
      <3> QED BY <3>2, <3>3
    <2>2. ~outdated' /\ notices = 0 /\ fetch = Tabs_!Idle => seen = commits
      BY <1>0, <1>3, <1>4 DEF Tabs_!ListCurrent
    <2>3. Tabs_!Delivered' => /\ notices = 0 => fetch[3] = commits
                              /\ fetch[3] = commits => fetch[2] = rows
      BY <1>0, <1>2 DEF Tabs_!ListCurrent, Tabs_!Delivered
    <2> QED BY <1>2, <2>1, <2>2, <2>3 DEF Tabs_!ListCurrent
  <1> QED BY <1>8, <1>9, <1>10, <1>11, <1>12, TabsSettled

(* What the tabs and settings theorem comes to: for any number of tabs,     *)
(* mutations, settings and windows' changes, visiting an empty tool creates *)
(* one tab, a list that is not outdated settles to the project's, and what  *)
(* is shown of a tab's settings settles to what is stored.                  *)
THEOREM TabsAreSettled == Spec => []TabsSettle
  <1>0. Settings_!KeysAssumption /\ Settings_!BoundsAssumption
    BY CachesAssumption
  <1>1. ASSUME Init PROVE TabsSettle
    BY <1>0, <1>1, TabsInit, SettingsInit DEF Init, TabsSettle
  <1>2. ASSUME TabsSettle, [Next]_vars PROVE TabsSettle'
    <2>0. part' = part
      BY <1>2 DEF Next, vars
    <2>1. ASSUME part = "tabs" PROVE Tabs_!TabListInv'
      <3>0. Tabs_!TabListInv
        BY <1>2, <2>1 DEF TabsSettle
      <3>1. Tabs_!Next \/ UNCHANGED Tabs_!vars
        BY <1>2, <2>1 DEF Next, vars, tabs, Tabs_!vars, Tabs_!project, Tabs_!cache, Tabs_!component
      <3>2. CASE UNCHANGED Tabs_!vars
        <4>1. UNCHANGED <<rows, created, commits, elsewhere, notices, refreshing, shown, seen, fetch,
                 calls, mounted, watched, active, editing, checked, autos, outdated>>
          BY <3>2 DEF Tabs_!vars, Tabs_!project, Tabs_!cache, Tabs_!component
        <4>2. Tabs_!TypeOK' /\ Tabs_!ListsPlaced' /\ Tabs_!CallsFit' /\ Tabs_!TabsKept'
              /\ Tabs_!OneAuto' /\ Tabs_!ListCurrent'
          BY <3>0, <4>1 DEF Tabs_!TabListInv, Tabs_!TypeOK, Tabs_!ListsPlaced, Tabs_!Placed,
               Tabs_!Served, Tabs_!CallsFit, Tabs_!CallFits, Tabs_!TabsKept, Tabs_!OneAuto,
               Tabs_!Alive, Tabs_!ListCurrent, Tabs_!Delivered, Tabs_!Loaded
        <4> QED BY <4>2, TabsSettled
      <3>3. CASE \/ Tabs_!Read \/ Tabs_!Deliver \/ Tabs_!Remount \/ Tabs_!Activate \/ Tabs_!Edit
                 \/ \E n \in 1..notices : Tabs_!refreshProjectQueries(n)
        BY <3>0, <3>3, ReadsKeepTabs
      <3>4. CASE Tabs_!CheckVisit \/ Tabs_!create \/ Tabs_!mutate \/ Tabs_!handoff
        BY <3>0, <3>4, AskingKeepsTabs
      <3>5. CASE Tabs_!Elsewhere
        BY <3>0, <3>5, ElsewhereKeepsTabs
      <3>6. CASE \E k \in DOMAIN calls : Tabs_!Serve(k) \/ Tabs_!Created(k) \/ Tabs_!Mutated(k)
        BY <3>0, <3>6, ServingKeepsTabs, CreatedKeepsTabs, MutatedKeepsTabs
      <3> QED BY <3>1, <3>2, <3>3, <3>4, <3>5, <3>6 DEF Tabs_!Next
    <2>2. ASSUME part = "settings" PROVE Settings_!TabSettingsInv'
      <3>0. Settings_!TabSettingsInv
        BY <1>2, <2>2 DEF TabsSettle
      <3>1. Settings_!Next \/ UNCHANGED Settings_!vars
        BY <1>2, <2>2 DEF Next, vars, settings, Settings_!vars, Settings_!window, Settings_!list,
             Settings_!project, Settings_!requests
      <3>2. CASE UNCHANGED Settings_!vars
        <4>1. UNCHANGED <<stored, announced, cached, listRead, reads, queue, phase, answer, chosen,
                 since, failed, changes, manuals>>
          BY <3>2 DEF Settings_!vars, Settings_!window, Settings_!list, Settings_!project,
               Settings_!requests
        <4>2. Settings_!TypeOK' /\ Settings_!RequestsCounted' /\ Settings_!LastRequest'
              /\ Settings_!AnswerIsStored' /\ Settings_!ReadsFollow' /\ Settings_!ManualKept'
          BY <3>0, <4>1 DEF Settings_!TabSettingsInv, Settings_!TypeOK, Settings_!RequestsCounted,
               Settings_!LastRequest, Settings_!AnswerIsStored, Settings_!ReadsFollow,
               Settings_!ManualKept
        <4> QED BY <4>2, SettingsSettle
      <3>3. CASE \/ \E k \in Keys : Settings_!change(k)
                 \/ Settings_!Send \/ Settings_!update_analysis_tab \/ Settings_!Fail \/ Settings_!Saved
        BY <1>0, <3>0, <3>3, RequestsKeepSettings
      <3>4. CASE \/ Settings_!StoreManual \/ Settings_!refreshProjectQueries \/ Settings_!Invalidate
                 \/ Settings_!Read \/ Settings_!Deliver
        BY <1>0, <3>0, <3>4, ReadsKeepSettings
      <3> QED BY <3>1, <3>2, <3>3, <3>4 DEF Settings_!Next
    <2> QED BY <2>0, <2>1, <2>2 DEF TabsSettle
  <1> QED BY <1>1, <1>2, PTL DEF Spec

(* --------------------------- the saved output --------------------------- *)

(* Types of the components of a list and of the change scopes.              *)
LEMMA OutputTypes ==
    ASSUME Output_!BoundsAssumption, Output_!TypeOK
    PROVE  /\ MaxRuns \in Nat \ {0} /\ MaxClears \in Nat /\ MaxElsewhere \in Nat
           /\ tab.id \in Output_!Ids /\ tab.has \in BOOLEAN /\ tab.name \in Nat
           /\ tab = [id |-> tab.id, has |-> tab.has, name |-> tab.name]
           /\ list.id \in Output_!Ids /\ list.has \in BOOLEAN
           /\ list = [id |-> list.id, has |-> list.has, name |-> list.name]
           /\ Output_!Delivered => listFetch[2] \in Output_!Tab
                /\ listFetch = Output_!Answer(listFetch[2])
           /\ Output_!Ids \subseteq Nat \ {0} /\ \A i \in Output_!Ids : i <= MaxRuns
  <1>1. MaxRuns \in Nat \ {0} /\ MaxClears \in Nat /\ MaxElsewhere \in Nat
    BY DEF Output_!BoundsAssumption
  <1>2. /\ tab.id \in Output_!Ids /\ tab.has \in BOOLEAN /\ tab.name \in Nat
        /\ tab = [id |-> tab.id, has |-> tab.has, name |-> tab.name]
    BY <1>1 DEF Output_!TypeOK, Output_!Tab
  <1>3. /\ list.id \in Output_!Ids /\ list.has \in BOOLEAN
        /\ list = [id |-> list.id, has |-> list.has, name |-> list.name]
    BY <1>1 DEF Output_!TypeOK, Output_!Tab
  <1>4. Output_!Delivered => listFetch[2] \in Output_!Tab
       /\ listFetch = Output_!Answer(listFetch[2])
    BY DEF Output_!TypeOK, Output_!Delivered, Output_!Answer
  <1>5. Output_!Ids \subseteq Nat \ {0} /\ \A i \in Output_!Ids : i <= MaxRuns
    BY <1>1 DEF Output_!Ids
  <1> QED BY <1>1, <1>2, <1>3, <1>4, <1>5

(* An announcement is told, and what was told remains so.                   *)
LEMMA AnnouncedIsTold ==
    ASSUME Output_!TypeOK, NEW ids \in SUBSET Output_!Ids, Output_!Announce(ids), pending' = pending
    PROVE  /\ events' \in Seq(SUBSET Output_!Ids)
           /\ \A i : Output_!Told(i)' <=> Output_!Told(i) \/ i \in ids
  <1>0. events \in Seq(SUBSET Output_!Ids) /\ events' = Append(events, ids)
    BY DEF Output_!TypeOK, Output_!Announce
  <1>1. /\ Len(events') = Len(events) + 1 /\ events'[Len(events) + 1] = ids
        /\ \A k \in 1..Len(events) : events'[k] = events[k]
    BY <1>0
  <1>2. events' \in Seq(SUBSET Output_!Ids)
    BY <1>0
  <1>3. ASSUME NEW i
        PROVE  Output_!Told(i)' <=> Output_!Told(i) \/ i \in ids
    <2> DEFINE n == Len(events)
    <2>0. n \in Nat
      BY <1>0
    <2>1. (\E k \in 1..Len(events') : i \in events'[k])
             <=> (\E k \in 1..n : i \in events[k]) \/ i \in ids
      <3> HIDE DEF n
      <3>1. /\ Len(events') = n + 1 /\ events'[n + 1] = ids
            /\ \A k \in 1..n : events'[k] = events[k]
        BY <1>1 DEF n
      <3> QED BY <2>0, <3>1
    <2> QED BY <2>1 DEF Output_!Told
  <1> QED BY <1>2, <1>3

(* Collecting the next announcement loses none.                             *)
LEMMA CollectedIsTold ==
    ASSUME Output_!TypeOK, Output_!Collect
    PROVE  /\ events' \in Seq(SUBSET Output_!Ids)
                /\ \E ids \in SUBSET Output_!Ids : pending' = <<ids>>
           /\ \A i : Output_!Told(i)' <=> Output_!Told(i)
  <1>0. /\ events \in Seq(SUBSET Output_!Ids) /\ events # <<>> /\ events' = Tail(events)
        /\ pending' = IF pending = <<>> THEN <<Head(events)>> ELSE <<pending[1] \cup Head(events)>>
    BY DEF Output_!TypeOK, Output_!Collect
  <1>1. PICK h \in SUBSET Output_!Ids : h = Head(events) /\ h = events[1]
    BY <1>0
  <1>2. PICK n \in Nat : n + 1 = Len(events)
    BY <1>0
  <1>3. /\ events' \in Seq(SUBSET Output_!Ids) /\ Len(events') = n
        /\ \A k \in 1..n : events'[k] = events[k + 1]
    BY <1>0, <1>2
  <1>4. PICK q : /\ q \in SUBSET Output_!Ids /\ pending' = <<q>>
                 /\ \A i : i \in q <=> i \in h \/ (pending # <<>> /\ i \in pending[1])
    BY <1>0, <1>1 DEF Output_!TypeOK
  <1>5. ASSUME NEW i
        PROVE  Output_!Told(i)' <=> Output_!Told(i)
    <2>1. (\E k \in 1..Len(events) : i \in events[k])
             <=> (\E k \in 1..n : i \in events'[k]) \/ i \in h
      <3>1. ASSUME NEW k \in 1..(n + 1), i \in events[k]
            PROVE  (\E j \in 1..n : i \in events'[j]) \/ i \in h
        <4>1. CASE k = 1
          BY <1>1, <3>1, <4>1
        <4>2. CASE k # 1
          <5>1. k - 1 \in 1..n /\ (k - 1) + 1 = k
            BY <4>2
          <5> QED BY <1>3, <3>1, <5>1
        <4> QED BY <4>1, <4>2
      <3>2. ASSUME NEW j \in 1..n, i \in events'[j]
            PROVE  \E k \in 1..(n + 1) : i \in events[k]
        <4>1. j + 1 \in 1..(n + 1)
          OBVIOUS
        <4> QED BY <1>3, <3>2, <4>1
      <3>3. i \in h => \E k \in 1..(n + 1) : i \in events[k]
        <4>1. 1 \in 1..(n + 1)
          OBVIOUS
        <4> QED BY <1>1, <4>1
      <3> QED BY <1>2, <3>1, <3>2, <3>3
    <2>2. pending' # <<>> /\ pending'[1] = q
      BY <1>4
    <2>3. Len(events') = n
      BY <1>3
    <2> QED BY <1>4, <2>1, <2>2, <2>3 DEF Output_!Told
  <1> QED BY <1>3, <1>4, <1>5

(* What the window shows and what is under way, in order, is enough.        *)
LEMMA OutputSettled ==
    ASSUME Output_!BoundsAssumption, Output_!TypeOK, Output_!ListsInOrder, Output_!AbsentGone,
         Output_!ReadsInOrder, Output_!ListTold,
           Output_!OutputComing, Output_!GhostMarked
    PROVE  Output_!SavedOutputInv
  <1>0. /\ tab.id \in Output_!Ids /\ list.id \in Output_!Ids /\ list.id <= tab.id
             /\ Output_!Ids \subseteq Nat
        /\ list.has \in BOOLEAN /\ tab.has \in BOOLEAN
    BY OutputTypes DEF Output_!ListsInOrder
  <1>1. Output_!AbsentStays
    BY DEF Output_!AbsentGone, Output_!AbsentStays, Output_!Gone, Output_!ownsOutput
  <1>2. ASSUME Output_!Quiet, NEW i
        PROVE  ~Output_!Told(i) /\ ~Output_!Refreshing(i)
    BY <1>2 DEF Output_!Quiet, Output_!Told, Output_!Refreshing
  <1>3. ASSUME Output_!Quiet PROVE list.has <=> Output_!ownsOutput(tab, list.id)
    BY <1>2, <1>3, Zenon DEF Output_!ListTold, Output_!Quiet
  <1>4. Output_!OutputReturns
    <2> SUFFICES ASSUME Output_!Quiet, displayed, list.has PROVE output[list.id] = "shown"
      BY DEF Output_!OutputReturns
    <2>1. outFetch[list.id] = Output_!Idle /\ clear = <<"none">>
      BY <1>0 DEF Output_!Quiet
    <2>2. output[list.id] = "shown" \/ list.id < tab.id
      BY <1>2, <2>1, Zenon DEF Output_!OutputComing
    <2>3. tab.id = list.id
      BY <1>3 DEF Output_!ownsOutput
    <2>4. PICK d \in Nat : d = list.id
      BY <1>0
    <2> QED BY <2>2, <2>3, <2>4
  <1>5. Output_!NoGhost
    <2> SUFFICES ASSUME Output_!Quiet PROVE Output_!NoGhost
      BY DEF Output_!NoGhost
    <2>1. list.id = tab.id => list.has = tab.has
      BY <1>0, <1>3 DEF Output_!ownsOutput
    <2>2. ASSUME output[tab.id] = "shown", ~tab.has
          PROVE  ~list.has /\ tab.id \in stale
      BY <1>2, <1>3, <2>2 DEF Output_!GhostMarked, Output_!ownsOutput
    <2> QED BY <2>1, <2>2 DEF Output_!NoGhost
  <1> QED BY <1>1, <1>4, <1>5 DEF Output_!SavedOutputInv

(* The same of the next state.                                              *)
LEMMA OutputSettlesNext ==
    ASSUME Output_!BoundsAssumption, Output_!TypeOK', Output_!ListsInOrder', Output_!AbsentGone',
         Output_!ReadsInOrder', Output_!ListTold',
           Output_!OutputComing', Output_!GhostMarked'
    PROVE  Output_!SavedOutputInv'
  <1> QED BY OutputSettled, PTL

LEMMA OutputInit ==
    ASSUME Output_!BoundsAssumption, Output_!Init
    PROVE  Output_!SavedOutputInv
  <1>0. MaxRuns \in Nat \ {0} /\ 1 \in Output_!Ids /\ MaxElsewhere \in Nat /\ MaxClears \in Nat
    BY DEF Output_!BoundsAssumption, Output_!Ids
  <1>1. Output_!TypeOK
    <2>1. events \in Seq(SUBSET Output_!Ids)
      BY DEF Output_!Init
    <2>2. tab \in Output_!Tab /\ list \in Output_!Tab
      BY <1>0 DEF Output_!Init, Output_!Tab
    <2>3. /\ output \in [Output_!Ids -> {"unread", "shown", "null"}]
          /\ outFetch \in [Output_!Ids -> {Output_!Idle, Output_!Sent}
               \cup {Output_!Answer(r) : r \in {"shown", "null", "error"}}]
      BY DEF Output_!Init
    <2>4. /\ pending = <<>> /\ stage = "idle" /\ scope = {} /\ waits = {}
               /\ listFetch = Output_!Idle
          /\ stale = {} /\ absent = {} /\ clear = <<"none">>
      BY DEF Output_!Init
    <2>5. mine \in BOOLEAN /\ displayed \in BOOLEAN
      BY DEF Output_!Init
    <2>6. running \in Output_!Ids \cup {Output_!Nil} /\ others \in 0..MaxElsewhere
         /\ clears \in 0..MaxClears
          /\ prior \in Output_!Ids
      BY <1>0 DEF Output_!Init
    <2> QED BY <2>1, <2>2, <2>3, <2>4, <2>5, <2>6 DEF Output_!TypeOK
  <1>2. /\ tab.id = 1 /\ tab.has /\ list = tab /\ listFetch = Output_!Idle /\ ~Output_!Delivered
             /\ running = Output_!Nil
        /\ \A i \in Output_!Ids : outFetch[i] = Output_!Idle /\ output[i] = "unread"
        /\ ~displayed /\ clear = <<"none">> /\ absent = {}
    BY DEF Output_!Init, Output_!Delivered
  <1>3. Output_!ListsInOrder
    BY <1>0, <1>2 DEF Output_!ListsInOrder, Output_!Past, Output_!Nil
  <1>4. Output_!AbsentGone /\ Output_!OutputComing
    BY <1>2 DEF Output_!AbsentGone, Output_!OutputComing
  <1>5. Output_!ReadsInOrder
    BY <1>2 DEF Output_!ReadsInOrder, Output_!Answer, Output_!Idle
  <1>6. Output_!ListTold /\ Output_!GhostMarked
    BY <1>2 DEF Output_!ListTold, Output_!GhostMarked, Output_!ownsOutput
  <1> QED BY <1>1, <1>3, <1>4, <1>5, <1>6, OutputSettled

(* A change of the project moves the tab forward and announces it: analyses *)
(* that are past, empty or told remain so.                                  *)
LEMMA ProjectMoves ==
    ASSUME Output_!BoundsAssumption, Output_!SavedOutputInv,
           \/ \E own \in BOOLEAN : Output_!begin_analysis_run(own)
           \/ Output_!publish_analysis \/ Output_!FailRun \/ Output_!update_analysis_tab
           \/ Output_!ClearElsewhere
           \/ Output_!clear_analysis_tab
    PROVE  /\ Output_!TypeOK'
           /\ UNCHANGED <<pending, stage, scope, list, listFetch, output, stale, outFetch,
                displayed, absent>>
           /\ tab.id <= tab'.id
           /\ running' # Output_!Nil => running' = tab'.id /\ ~tab'.has
           /\ \A i \in Output_!Ids : /\ Output_!Past(i) => Output_!Past(i)'
                                     /\ Output_!Empty(i) => Output_!Empty(i)'
                                     /\ Output_!Told(i) => Output_!Told(i)'
                                     /\ ~(Output_!ownsOutput(tab, i)
                                          <=> Output_!ownsOutput(tab', i)) => Output_!Told(i)'
           /\ \/ clear' = clear
              \/ clear[1] = "admitted" /\ clear' = <<"done", clear[2]>> /\ ~tab'.has
  <1>0. Output_!TypeOK /\ Output_!ListsInOrder /\ Output_!AbsentGone
    BY DEF Output_!SavedOutputInv

  <1>t. /\ tab.id \in Output_!Ids /\ tab.has \in BOOLEAN /\ tab.name \in Nat
        /\ tab = [id |-> tab.id, has |-> tab.has, name |-> tab.name]
        /\ MaxRuns \in Nat /\ Output_!Ids \subseteq Nat \ {0} /\ \A i \in Output_!Ids : i <= MaxRuns
    BY <1>0, OutputTypes
  <1>r. running # Output_!Nil => running = tab.id /\ ~tab.has
    BY <1>0 DEF Output_!ListsInOrder
  <1>1. CASE \E own \in BOOLEAN : Output_!begin_analysis_run(own)
    <2>1. PICK own \in BOOLEAN : Output_!begin_analysis_run(own)
      BY <1>1
    <2>2. /\ running = Output_!Nil /\ tab.id < MaxRuns /\ running' = tab.id + 1
          /\ mine' = (mine \/ own) /\ Output_!Announce({tab.id, tab.id + 1})
          /\ UNCHANGED <<others, pending, stage, scope, prior, waits, Output_!tabs,
               Output_!manifests, displayed,
               Output_!clearing, absent>>
      BY <2>1 DEF Output_!begin_analysis_run
    <2>3. tab' = [id |-> tab.id + 1, has |-> FALSE, name |-> tab.name]
      BY <1>t, <2>1 DEF Output_!begin_analysis_run
    <2>4. tab.id + 1 \in Output_!Ids
      BY <1>t, <2>2 DEF Output_!Ids
    <2>5. events' \in Seq(SUBSET Output_!Ids) /\ \A i : Output_!Told(i)'
         <=> Output_!Told(i) \/ i \in {tab.id, tab.id + 1}
      BY <1>0, <1>t, <2>2, <2>4, AnnouncedIsTold
    <2>6. mine' \in BOOLEAN
      BY <1>0, <2>2, Zenon DEF Output_!TypeOK
    <2>7. Output_!TypeOK'
      <3>1. tab' \in Output_!Tab
        BY <1>0, <1>t, <2>3, <2>4 DEF Output_!TypeOK, Output_!Tab
      <3> QED BY <1>0, <2>2, <2>4, <2>5, <2>6, <3>1 DEF Output_!TypeOK, Output_!tabs,
                   Output_!manifests, Output_!clearing
    <2>8. ASSUME NEW i \in Output_!Ids
          PROVE  /\ Output_!Past(i) => Output_!Past(i)'
                 /\ Output_!Empty(i) => Output_!Empty(i)'
                 /\ ~(Output_!ownsOutput(tab, i) <=> Output_!ownsOutput(tab', i)) => i = tab.id
      BY <1>t, <2>2, <2>3 DEF Output_!Past, Output_!Empty, Output_!ownsOutput
    <2>10. ASSUME NEW i \in Output_!Ids
           PROVE  /\ Output_!Told(i) => Output_!Told(i)'
                  /\ ~(Output_!ownsOutput(tab, i) <=> Output_!ownsOutput(tab', i))
                       => Output_!Told(i)'
      <3>1. Output_!Told(i)' <=> Output_!Told(i) \/ i \in {tab.id, tab.id + 1}
        BY <2>5
      <3> QED BY <2>8, <3>1, Zenon
    <2>11. \A i \in Output_!Ids : /\ Output_!Past(i) => Output_!Past(i)'
                                  /\ Output_!Empty(i) => Output_!Empty(i)'
                                  /\ Output_!Told(i) => Output_!Told(i)'
                                  /\ ~(Output_!ownsOutput(tab, i)
                                       <=> Output_!ownsOutput(tab', i)) => Output_!Told(i)'
      BY <2>8, <2>10, Zenon
    <2>12. /\ UNCHANGED <<pending, stage, scope, list, listFetch, output, stale, outFetch,
                displayed, absent>>
           /\ tab.id <= tab'.id
           /\ running' # Output_!Nil => running' = tab'.id /\ ~tab'.has
      BY <1>t, <1>r, <2>2, <2>3 DEF Output_!tabs, Output_!manifests
    <2>13. clear' = clear
      BY <2>2 DEF Output_!clearing
    <2> QED BY <2>7, <2>11, <2>12, <2>13, Zenon
  <1>2. CASE Output_!publish_analysis
    <2>2. /\ running # Output_!Nil /\ running' = Output_!Nil /\ tab.id = running
               /\ Output_!Announce({running})
          /\ UNCHANGED <<mine, others, pending, stage, scope, prior, waits, Output_!tabs,
               Output_!manifests, displayed,
               Output_!clearing, absent>>
      BY <1>2 DEF Output_!publish_analysis
    <2>3. tab' = [id |-> tab.id, has |-> TRUE, name |-> tab.name]
      BY <1>t, <1>2 DEF Output_!publish_analysis
    <2>5. events' \in Seq(SUBSET Output_!Ids) /\ \A i : Output_!Told(i)'
         <=> Output_!Told(i) \/ i \in {tab.id}
      BY <1>0, <1>t, <2>2, AnnouncedIsTold
    <2>7. Output_!TypeOK'
      <3>1. tab' \in Output_!Tab
        BY <1>0, <1>t, <2>3 DEF Output_!TypeOK, Output_!Tab
      <3> QED BY <1>0, <2>2, <2>5, <3>1 DEF Output_!TypeOK, Output_!tabs, Output_!manifests,
                   Output_!clearing
    <2>8. ASSUME NEW i \in Output_!Ids
          PROVE  /\ Output_!Past(i) => Output_!Past(i)'
                 /\ Output_!Empty(i) => Output_!Empty(i)'
                 /\ ~(Output_!ownsOutput(tab, i) <=> Output_!ownsOutput(tab', i)) => i = tab.id
      BY <1>t, <2>2, <2>3 DEF Output_!Past, Output_!Empty, Output_!ownsOutput, Output_!Nil
    <2>10. ASSUME NEW i \in Output_!Ids
           PROVE  /\ Output_!Told(i) => Output_!Told(i)'
                  /\ ~(Output_!ownsOutput(tab, i) <=> Output_!ownsOutput(tab', i))
                       => Output_!Told(i)'
      <3>1. Output_!Told(i)' <=> Output_!Told(i) \/ i \in {tab.id}
        BY <2>5
      <3> QED BY <2>8, <3>1, Zenon
    <2>11. \A i \in Output_!Ids : /\ Output_!Past(i) => Output_!Past(i)'
                                  /\ Output_!Empty(i) => Output_!Empty(i)'
                                  /\ Output_!Told(i) => Output_!Told(i)'
                                  /\ ~(Output_!ownsOutput(tab, i)
                                       <=> Output_!ownsOutput(tab', i)) => Output_!Told(i)'
      BY <2>8, <2>10, Zenon
    <2>12. /\ UNCHANGED <<pending, stage, scope, list, listFetch, output, stale, outFetch,
                displayed, absent>>
           /\ tab.id <= tab'.id
           /\ running' # Output_!Nil => running' = tab'.id /\ ~tab'.has
      BY <1>t, <1>r, <2>2, <2>3 DEF Output_!tabs, Output_!manifests
    <2>13. clear' = clear
      BY <2>2 DEF Output_!clearing
    <2> QED BY <2>7, <2>11, <2>12, <2>13, Zenon
  <1>3. CASE Output_!FailRun
    <2>1. running' = Output_!Nil /\ UNCHANGED <<tab, mine, others, Output_!observer, Output_!tabs,
         Output_!manifests, displayed,
            Output_!clearing, absent>>
      BY <1>3 DEF Output_!FailRun
    <2>2. Output_!TypeOK'
      BY <1>0, <2>1 DEF Output_!TypeOK, Output_!observer, Output_!tabs, Output_!manifests,
           Output_!clearing
    <2>3. ASSUME NEW i \in Output_!Ids
          PROVE  /\ Output_!Past(i) => Output_!Past(i)'
                 /\ Output_!Empty(i) => Output_!Empty(i)'
                 /\ Output_!Told(i) => Output_!Told(i)'
                 /\ Output_!ownsOutput(tab, i) <=> Output_!ownsOutput(tab', i)
      BY <1>t, <2>1 DEF Output_!Past, Output_!Empty, Output_!ownsOutput, Output_!Nil, Output_!Told,
           Output_!observer
    <2> QED BY <1>t, <2>1, <2>2, <2>3 DEF Output_!observer, Output_!tabs, Output_!manifests,
                 Output_!clearing
  <1>4. CASE Output_!update_analysis_tab
    <2>2. /\ tab.name + others < MaxElsewhere /\ Output_!Announce({})
          /\ UNCHANGED <<running, mine, others, pending, stage, scope, prior, waits, Output_!tabs,
               Output_!manifests,
               displayed, Output_!clearing, absent>>
      BY <1>4 DEF Output_!update_analysis_tab
    <2>3. tab' = [id |-> tab.id, has |-> tab.has, name |-> tab.name + 1]
      BY <1>t, <1>4 DEF Output_!update_analysis_tab
    <2>5. events' \in Seq(SUBSET Output_!Ids) /\ \A i : Output_!Told(i)'
         <=> Output_!Told(i) \/ i \in {}
      BY <1>0, <1>t, <2>2, AnnouncedIsTold
    <2>7. Output_!TypeOK'
      <3>1. tab' \in Output_!Tab
        <4>1. others \in Nat /\ MaxElsewhere \in Nat
          BY <1>0, OutputTypes DEF Output_!TypeOK
        <4> QED BY <1>t, <2>2, <2>3, <4>1 DEF Output_!Tab
      <3> QED BY <1>0, <2>2, <2>5, <3>1 DEF Output_!TypeOK, Output_!tabs, Output_!manifests,
                   Output_!clearing
    <2>8. ASSUME NEW i \in Output_!Ids
          PROVE  /\ Output_!Past(i) => Output_!Past(i)'
                 /\ Output_!Empty(i) => Output_!Empty(i)'
                 /\ Output_!ownsOutput(tab, i) <=> Output_!ownsOutput(tab', i)
      BY <1>t, <2>2, <2>3 DEF Output_!Past, Output_!Empty, Output_!ownsOutput
    <2> QED BY <1>t, <1>r, <2>2, <2>3, <2>5, <2>7, <2>8 DEF Output_!tabs, Output_!manifests,
                 Output_!clearing
  <1>5. CASE Output_!ClearElsewhere
    <2>2. /\ tab.name + others < MaxElsewhere /\ running = Output_!Nil /\ Output_!Announce({tab.id})
          /\ others' = others + 1
          /\ UNCHANGED <<running, mine, pending, stage, scope, prior, waits, Output_!tabs,
               Output_!manifests, displayed,
               Output_!clearing, absent>>
      BY <1>5 DEF Output_!ClearElsewhere
    <2>3. tab' = [id |-> tab.id, has |-> FALSE, name |-> tab.name]
      BY <1>t, <1>5 DEF Output_!ClearElsewhere
    <2>5. events' \in Seq(SUBSET Output_!Ids) /\ \A i : Output_!Told(i)'
         <=> Output_!Told(i) \/ i \in {tab.id}
      BY <1>0, <1>t, <2>2, AnnouncedIsTold
    <2>7. Output_!TypeOK'
      <3>1. tab' \in Output_!Tab
        BY <1>0, <1>t, <2>3 DEF Output_!TypeOK, Output_!Tab
      <3>2. others' \in 0..MaxElsewhere
        <4>1. others \in Nat /\ MaxElsewhere \in Nat
          BY <1>0, OutputTypes DEF Output_!TypeOK
        <4> QED BY <1>t, <2>2, <4>1
      <3> QED BY <1>0, <2>2, <2>5, <3>1, <3>2 DEF Output_!TypeOK, Output_!tabs, Output_!manifests,
                   Output_!clearing
    <2>8. ASSUME NEW i \in Output_!Ids
          PROVE  /\ Output_!Past(i) => Output_!Past(i)'
                 /\ Output_!Empty(i) => Output_!Empty(i)'
                 /\ ~(Output_!ownsOutput(tab, i) <=> Output_!ownsOutput(tab', i)) => i = tab.id
      BY <1>t, <2>2, <2>3 DEF Output_!Past, Output_!Empty, Output_!ownsOutput
    <2>10. ASSUME NEW i \in Output_!Ids
           PROVE  /\ Output_!Told(i) => Output_!Told(i)'
                  /\ ~(Output_!ownsOutput(tab, i) <=> Output_!ownsOutput(tab', i))
                       => Output_!Told(i)'
      <3>1. Output_!Told(i)' <=> Output_!Told(i) \/ i \in {tab.id}
        BY <2>5
      <3> QED BY <2>8, <3>1, Zenon
    <2>11. \A i \in Output_!Ids : /\ Output_!Past(i) => Output_!Past(i)'
                                  /\ Output_!Empty(i) => Output_!Empty(i)'
                                  /\ Output_!Told(i) => Output_!Told(i)'
                                  /\ ~(Output_!ownsOutput(tab, i)
                                       <=> Output_!ownsOutput(tab', i)) => Output_!Told(i)'
      BY <2>8, <2>10, Zenon
    <2>12. /\ UNCHANGED <<pending, stage, scope, list, listFetch, output, stale, outFetch,
                displayed, absent>>
           /\ tab.id <= tab'.id
           /\ running' # Output_!Nil => running' = tab'.id /\ ~tab'.has
      BY <1>t, <1>r, <2>2, <2>3 DEF Output_!tabs, Output_!manifests
    <2>13. clear' = clear
      BY <2>2 DEF Output_!clearing
    <2> QED BY <2>7, <2>11, <2>12, <2>13, Zenon
  <1>6. CASE Output_!clear_analysis_tab
    <2>2. /\ clear[1] = "admitted" /\ clear' = <<"done", clear[2]>> /\ Output_!Announce({tab.id})
          /\ UNCHANGED <<running, mine, others, pending, stage, scope, prior, waits, Output_!tabs,
               Output_!manifests,
               displayed, clears, absent>>
      BY <1>6 DEF Output_!clear_analysis_tab
    <2>3. tab' = [id |-> tab.id, has |-> FALSE, name |-> tab.name]
      BY <1>t, <1>6 DEF Output_!clear_analysis_tab
    <2>4. clear # <<"none">> /\ clear[2] \in Output_!Ids /\ Output_!Past(clear[2])
      BY <1>0, <2>2 DEF Output_!TypeOK, Output_!AbsentGone
    <2>5. events' \in Seq(SUBSET Output_!Ids) /\ \A i : Output_!Told(i)'
         <=> Output_!Told(i) \/ i \in {tab.id}
      BY <1>0, <1>t, <2>2, AnnouncedIsTold
    <2>7. Output_!TypeOK'
      <3>1. tab' \in Output_!Tab
        BY <1>0, <1>t, <2>3 DEF Output_!TypeOK, Output_!Tab
      <3> QED BY <1>0, <2>2, <2>4, <2>5, <3>1 DEF Output_!TypeOK, Output_!tabs, Output_!manifests
    <2>8. ASSUME NEW i \in Output_!Ids
          PROVE  /\ Output_!Past(i) => Output_!Past(i)'
                 /\ Output_!Empty(i) => Output_!Empty(i)'
                 /\ ~(Output_!ownsOutput(tab, i) <=> Output_!ownsOutput(tab', i)) => i = tab.id
      BY <1>t, <2>2, <2>3 DEF Output_!Past, Output_!Empty, Output_!ownsOutput
    <2>10. ASSUME NEW i \in Output_!Ids
           PROVE  /\ Output_!Told(i) => Output_!Told(i)'
                  /\ ~(Output_!ownsOutput(tab, i) <=> Output_!ownsOutput(tab', i))
                       => Output_!Told(i)'
      <3>1. Output_!Told(i)' <=> Output_!Told(i) \/ i \in {tab.id}
        BY <2>5
      <3> QED BY <2>8, <3>1, Zenon
    <2>11. \A i \in Output_!Ids : /\ Output_!Past(i) => Output_!Past(i)'
                                  /\ Output_!Empty(i) => Output_!Empty(i)'
                                  /\ Output_!Told(i) => Output_!Told(i)'
                                  /\ ~(Output_!ownsOutput(tab, i)
                                       <=> Output_!ownsOutput(tab', i)) => Output_!Told(i)'
      BY <2>8, <2>10, Zenon
    <2>12. /\ UNCHANGED <<pending, stage, scope, list, listFetch, output, stale, outFetch,
                displayed, absent>>
           /\ tab.id <= tab'.id
           /\ running' # Output_!Nil => running' = tab'.id /\ ~tab'.has
      BY <1>t, <1>r, <2>2, <2>3 DEF Output_!tabs, Output_!manifests
    <2>13. ~tab'.has
      BY <2>3
    <2> QED BY <2>2, <2>7, <2>11, <2>12, <2>13, Zenon
  <1> QED BY <1>1, <1>2, <1>3, <1>4, <1>5, <1>6

(* Nothing the window shows is made wrong by a change of the project that   *)
(* is announced.                                                            *)
LEMMA ProjectKeepsOutput ==
    ASSUME Output_!BoundsAssumption, Output_!SavedOutputInv,
           \/ \E own \in BOOLEAN : Output_!begin_analysis_run(own)
           \/ Output_!publish_analysis \/ Output_!FailRun \/ Output_!update_analysis_tab
           \/ Output_!ClearElsewhere
           \/ Output_!clear_analysis_tab
    PROVE  Output_!SavedOutputInv'
  <1>0. /\ Output_!TypeOK /\ Output_!ListsInOrder /\ Output_!AbsentGone /\ Output_!ReadsInOrder
             /\ Output_!ListTold /\ Output_!OutputComing
        /\ Output_!GhostMarked
    BY DEF Output_!SavedOutputInv
  <1>1. /\ Output_!TypeOK'
        /\ UNCHANGED <<pending, stage, scope, list, listFetch, output, stale, outFetch, displayed,
             absent>>
        /\ tab.id <= tab'.id
        /\ running' # Output_!Nil => running' = tab'.id /\ ~tab'.has
        /\ \/ clear' = clear
           \/ clear[1] = "admitted" /\ clear' = <<"done", clear[2]>> /\ ~tab'.has
    BY ProjectMoves, Zenon
  <1>2. \A i \in Output_!Ids : /\ Output_!Past(i) => Output_!Past(i)'
                               /\ Output_!Empty(i) => Output_!Empty(i)'
                               /\ Output_!Told(i) => Output_!Told(i)'
                               /\ ~(Output_!ownsOutput(tab, i) <=> Output_!ownsOutput(tab', i))
                                    => Output_!Told(i)'
    BY ProjectMoves, Zenon
  <1>t. /\ tab.id \in Output_!Ids /\ tab.has \in BOOLEAN /\ list.id \in Output_!Ids
             /\ list.has \in BOOLEAN
        /\ tab'.id \in Output_!Ids /\ tab'.has \in BOOLEAN
        /\ Output_!Delivered => listFetch[2].id \in Output_!Ids /\ listFetch[2].has \in BOOLEAN
        /\ tab.id \in Nat /\ tab'.id \in Nat /\ list.id \in Nat /\ \A i \in Output_!Ids : i \in Nat
    <2>1. tab'.id \in Output_!Ids /\ tab'.has \in BOOLEAN
      BY <1>1 DEF Output_!TypeOK, Output_!Tab
    <2>2. Output_!Delivered => listFetch[2] \in Output_!Tab
      BY <1>0, OutputTypes
    <2>3. \A t \in Output_!Tab : t.id \in Output_!Ids /\ t.has \in BOOLEAN
      BY DEF Output_!Tab
    <2> QED BY <1>0, <2>1, <2>2, <2>3, OutputTypes
  <1>d. Output_!Delivered' <=> Output_!Delivered
    BY <1>1 DEF Output_!Delivered
  <1>3. Output_!ListsInOrder'
    <2>1. list.id <= tab'.id /\ (list.has => Output_!Past(list.id)')
      <3>1. PICK d \in Output_!Ids : d = list.id
        BY <1>t
      <3>2. list.has => Output_!Past(d)'
        BY <1>0, <1>2, <3>1 DEF Output_!ListsInOrder
      <3>3. list.id <= tab'.id
        BY <1>0, <1>1, <1>t DEF Output_!ListsInOrder
      <3> QED BY <1>1, <3>1, <3>2, <3>3 DEF Output_!Past
    <2>2. ASSUME Output_!Delivered, NEW t, t = listFetch[2]
          PROVE  /\ t.id \in list.id..tab'.id /\ (t.has => Output_!Past(t.id)')
                 /\ list.has /\ list.id = t.id /\ ~t.has => Output_!Empty(t.id)'
      <3>1. PICK d \in Output_!Ids : d = t.id
        BY <1>t, <2>2
      <3>2. /\ d \in list.id..tab.id /\ (t.has => Output_!Past(d))
            /\ list.has /\ list.id = d /\ ~t.has => Output_!Empty(d)
        BY <1>0, <2>2, <3>1 DEF Output_!ListsInOrder
      <3>3. d \in list.id..tab'.id
        BY <1>1, <1>t, <3>2
      <3>4. (t.has => Output_!Past(d)') /\ (list.has /\ list.id = d /\ ~t.has => Output_!Empty(d)')
        BY <1>2, <3>2, Zenon
      <3> QED BY <3>1, <3>3, <3>4
    <2> QED BY <1>1, <1>d, <2>1, <2>2 DEF Output_!ListsInOrder, Output_!Past, Output_!Empty
  <1>g. ASSUME NEW i \in Output_!Ids
        PROVE  /\ Output_!Gone(i) => Output_!Gone(i)'
               /\ Output_!Over(i) => Output_!Over(i)'
    <2>1. Output_!Gone(i) => Output_!Gone(i)'
      BY <1>1, <1>2, <1>d DEF Output_!Gone
    <2> QED BY <1>1, <2>1 DEF Output_!Over
  <1>4. Output_!AbsentGone'
    <2>1. \A i \in absent' : Output_!Gone(i)'
      BY <1>0, <1>1, <1>g DEF Output_!AbsentGone, Output_!TypeOK
    <2>2. ASSUME clear' # <<"none">>
          PROVE  Output_!Past(clear[2])' /\ (clear'[1] = "done" => Output_!Empty(clear[2])')
      <3>1. clear # <<"none">> /\ clear[2] \in Output_!Ids /\ clear'[2] = clear[2]
        BY <1>0, <1>1, <2>2 DEF Output_!TypeOK
      <3>2. PICK d \in Output_!Ids : d = clear[2] /\ d = clear'[2]
        BY <3>1
      <3>3. Output_!Past(d)'
        BY <1>0, <1>2, <3>1, <3>2 DEF Output_!AbsentGone
      <3>4. ASSUME clear'[1] = "done" PROVE Output_!Empty(d)'
        <4>1. CASE clear' = clear
          BY <1>0, <1>2, <3>1, <3>2, <3>4, <4>1 DEF Output_!AbsentGone
        <4>2. CASE ~tab'.has
          BY <3>3, <4>2 DEF Output_!Empty, Output_!ownsOutput
        <4> QED BY <1>1, <4>1, <4>2
      <3> QED BY <3>2, <3>3, <3>4
    <2> QED BY <2>1, <2>2 DEF Output_!AbsentGone
  <1>5. Output_!ReadsInOrder'
    <2> SUFFICES ASSUME NEW i \in Output_!Ids
                 PROVE  /\ outFetch'[i] # Output_!Idle => Output_!Past(i)'
                             /\ (Output_!ownsOutput(list', i) \/ Output_!Over(i)')
                        /\ outFetch'[i] = Output_!Answer("null") => Output_!Empty(i)'
                        /\ outFetch'[i] = Output_!Answer("error") => i < tab'.id
                        /\ outFetch'[i] = Output_!Answer("shown") /\ i = tab'.id /\ ~tab'.has
                             => Output_!Told(i)'
                        /\ output'[i] # "unread" => Output_!Past(i)'
                        /\ output'[i] = "null" => Output_!Over(i)'
      BY DEF Output_!ReadsInOrder
    <2>1. /\ outFetch[i] # Output_!Idle => Output_!Past(i) /\ (Output_!ownsOutput(list,
               i) \/ Output_!Over(i))
          /\ outFetch[i] = Output_!Answer("null") => Output_!Empty(i)
          /\ outFetch[i] = Output_!Answer("error") => i < tab.id
          /\ outFetch[i] = Output_!Answer("shown") /\ i = tab.id /\ ~tab.has => Output_!Told(i)
          /\ output[i] # "unread" => Output_!Past(i)
          /\ output[i] = "null" => Output_!Over(i)
      BY <1>0 DEF Output_!ReadsInOrder
    <2>2. outFetch'[i] # Output_!Idle => Output_!Past(i)' /\ (Output_!ownsOutput(list',
         i) \/ Output_!Over(i)')
      BY <1>1, <1>2, <1>g, <2>1
    <2>3. outFetch'[i] = Output_!Answer("null") => Output_!Empty(i)'
      BY <1>1, <1>2, <2>1
    <2>4. outFetch'[i] = Output_!Answer("error") => i < tab'.id
      BY <1>1, <1>t, <2>1
    <2>5. outFetch'[i] = Output_!Answer("shown") /\ i = tab'.id /\ ~tab'.has => Output_!Told(i)'
      <3> SUFFICES ASSUME outFetch[i] = Output_!Answer("shown"), i = tab'.id,
           ~tab'.has PROVE Output_!Told(i)'
        BY <1>1
      <3>1. Output_!Past(i)
        BY <2>1 DEF Output_!Answer, Output_!Idle
      <3>2. i = tab.id
        BY <1>1, <1>t, <3>1 DEF Output_!Past
      <3>3. CASE tab.has
        BY <1>2, <3>2, <3>3 DEF Output_!ownsOutput
      <3>4. CASE ~tab.has
        BY <1>2, <2>1, <3>2, <3>4
      <3> QED BY <3>3, <3>4
    <2>6. output'[i] # "unread" => Output_!Past(i)'
      BY <1>1, <1>2, <2>1
    <2>7. output'[i] = "null" => Output_!Over(i)'
      BY <1>1, <1>g, <2>1
    <2> QED BY <2>2, <2>3, <2>4, <2>5, <2>6, <2>7
  <1>6. Output_!ListTold'
    <2>1. ASSUME ~(list.has <=> Output_!ownsOutput(tab', list.id))
          PROVE  Output_!Told(list.id)' \/ listFetch # Output_!Idle
      <3>1. PICK d \in Output_!Ids : d = list.id
        BY <1>t
      <3>2. (~(list.has <=> Output_!ownsOutput(tab, d))
           => Output_!Told(d) \/ listFetch # Output_!Idle)
        BY <1>0, <3>1 DEF Output_!ListTold
      <3>3. /\ Output_!Told(d) => Output_!Told(d)'
            /\ ~(Output_!ownsOutput(tab, d) <=> Output_!ownsOutput(tab', d)) => Output_!Told(d)'
        BY <1>2
      <3>4. Output_!Told(d)' \/ listFetch # Output_!Idle
        BY <2>1, <3>1, <3>2, <3>3, Zenon
      <3> QED BY <1>1, <3>1, <3>4 DEF Output_!Told
    <2>2. ASSUME Output_!Delivered, ~(listFetch[2].has <=> Output_!ownsOutput(tab',
         listFetch[2].id))
          PROVE  Output_!Told(listFetch[2].id)'
      <3>1. PICK d \in Output_!Ids : d = listFetch[2].id
        BY <1>t, <2>2
      <3>2. ~(listFetch[2].has <=> Output_!ownsOutput(tab, d)) => Output_!Told(d)
        BY <1>0, <2>2, <3>1 DEF Output_!ListTold
      <3>3. /\ Output_!Told(d) => Output_!Told(d)'
            /\ ~(Output_!ownsOutput(tab, d) <=> Output_!ownsOutput(tab', d)) => Output_!Told(d)'
        BY <1>2
      <3>4. Output_!Told(d)'
        BY <2>2, <3>1, <3>2, <3>3, Zenon
      <3> QED BY <1>1, <3>1, <3>4 DEF Output_!Told
    <2> QED BY <1>1, <1>d, <2>1, <2>2 DEF Output_!ListTold, Output_!Told
  <1>r. ASSUME NEW i \in Output_!Ids, Output_!Refreshing(i)
        PROVE  Output_!Refreshing(i)'
    BY <1>1, <1>2, <1>r DEF Output_!Refreshing
  <1>7. Output_!OutputComing'
    <2> SUFFICES ASSUME displayed, list.has
                 PROVE  \/ output[list.id] = "shown" \/ outFetch[list.id] # Output_!Idle
                        \/ Output_!Refreshing(list.id)'
                        \/ clear' # <<"none">> /\ clear'[2] = list.id
                        \/ list.id < tab'.id
      BY <1>1 DEF Output_!OutputComing, Output_!Refreshing, Output_!Told
    <2>1. PICK d \in Output_!Ids : d = list.id
      BY <1>t
    <2>2. \/ output[d] = "shown" \/ outFetch[d] # Output_!Idle \/ Output_!Refreshing(d)
          \/ clear # <<"none">> /\ clear[2] = d
          \/ d < tab.id
      BY <1>0, <2>1 DEF Output_!OutputComing
    <2>3. clear # <<"none">> /\ clear[2] = d => clear' # <<"none">> /\ clear'[2] = d
      BY <1>1
    <2>4. d < tab.id => d < tab'.id
      BY <1>1, <1>t
    <2>5. Output_!Refreshing(d) => Output_!Refreshing(d)'
      BY <1>r
    <2>6. Output_!Refreshing(d)' => Output_!Refreshing(list.id)'
      BY <1>1, <2>1 DEF Output_!Refreshing, Output_!Told
    <2> QED BY <2>1, <2>2, <2>3, <2>4, <2>5, <2>6, Zenon
  <1>8. Output_!GhostMarked'
    <2> SUFFICES ASSUME output[tab'.id] = "shown", ~tab'.has
                 PROVE  tab'.id \in stale \/ Output_!Refreshing(tab.id)'
      BY <1>1 DEF Output_!GhostMarked, Output_!Refreshing, Output_!Told
    <2>1. PICK d \in Output_!Ids : d = tab'.id
      BY <1>t
    <2>2. Output_!Past(d)
      BY <1>0, <2>1 DEF Output_!ReadsInOrder
    <2>3. d = tab.id
      BY <1>1, <1>t, <2>1, <2>2 DEF Output_!Past
    <2>4. d \in stale \/ Output_!Refreshing(d)'
      <3>1. CASE tab.has
        BY <1>2, <2>1, <2>3, <3>1 DEF Output_!ownsOutput, Output_!Refreshing
      <3>2. CASE ~tab.has
        BY <1>0, <1>r, <2>1, <2>3, <3>2 DEF Output_!GhostMarked
      <3> QED BY <3>1, <3>2
    <2>5. Output_!Refreshing(d)' => Output_!Refreshing(tab.id)'
      <3> QED BY <2>1 DEF Output_!Refreshing, Output_!Told
    <2> QED BY <2>1, <2>4, <2>5
  <1> QED BY <1>1, <1>3, <1>4, <1>5, <1>6, <1>7, <1>8, OutputSettlesNext

(* Displaying the panel starts the read its output needs.                   *)
LEMMA ShownIsRead ==
    ASSUME Output_!BoundsAssumption, Output_!TypeOK, NEW l \in Output_!Tab, NEW on \in BOOLEAN
    PROVE  LET f == Output_!Shows(l, on, output, stale, outFetch)
           IN  /\ f \in [Output_!Ids -> {Output_!Idle, Output_!Sent}
                    \cup {Output_!Answer(r) : r \in {"shown", "null", "error"}}]
               /\ \A i \in Output_!Ids : f[i] = outFetch[i] \/ (l.has /\ i = l.id
                    /\ f[i] = Output_!Sent)
               /\ on /\ l.has => f[l.id] # Output_!Idle \/ output[l.id] \in {"shown", "null"}
  <1> DEFINE f == Output_!Shows(l, on, output, stale, outFetch)
  <1>0. l.id \in Output_!Ids /\ l.has \in BOOLEAN
    BY DEF Output_!Tab
  <1>1. /\ outFetch \in [Output_!Ids -> {Output_!Idle, Output_!Sent}
             \cup {Output_!Answer(r) : r \in {"shown", "null", "error"}}]
        /\ output[l.id] \in {"unread", "shown", "null"}
    BY <1>0 DEF Output_!TypeOK
  <1>2. Output_!Sent # Output_!Idle
    BY DEF Output_!Sent, Output_!Idle
  <1>3. CASE on /\ l.has /\ outFetch[l.id] = Output_!Idle
       /\ (output[l.id] = "unread" \/ l.id \in stale)
    <2>1. f = [outFetch EXCEPT ![l.id] = Output_!Sent]
      BY <1>3 DEF Output_!Shows
    <2> QED BY <1>0, <1>1, <1>2, <1>3, <2>1
  <1>4. CASE ~(on /\ l.has /\ outFetch[l.id] = Output_!Idle
       /\ (output[l.id] = "unread" \/ l.id \in stale))
    <2>1. f = outFetch
      BY <1>4 DEF Output_!Shows
    <2> QED BY <1>0, <1>1, <1>2, <1>4, <2>1
  <1> QED BY <1>3, <1>4

(* Displaying or hiding the panel, and an answered Run, keep the invariant. *)
LEMMA PanelKeepsOutput ==
    ASSUME Output_!BoundsAssumption, Output_!SavedOutputInv, Output_!Activate \/ Output_!RunSettled
    PROVE  Output_!SavedOutputInv'
  <1>0. /\ Output_!TypeOK /\ Output_!ListsInOrder /\ Output_!AbsentGone /\ Output_!ReadsInOrder
             /\ Output_!ListTold /\ Output_!OutputComing
        /\ Output_!GhostMarked
    BY DEF Output_!SavedOutputInv
  <1>t. tab.id \in Output_!Ids /\ list.id \in Output_!Ids /\ list \in Output_!Tab
       /\ Output_!Sent # Output_!Idle
    BY <1>0, OutputTypes DEF Output_!TypeOK, Output_!Sent, Output_!Idle
  <1>1. CASE Output_!Activate
    <2>1. /\ displayed' = ~displayed
          /\ outFetch' = IF displayed THEN outFetch
                         ELSE Output_!Shows(list, TRUE, output, stale, outFetch)
          /\ UNCHANGED <<tab, running, mine, others, Output_!observer, Output_!tabs, output,
               stale, Output_!clearing, absent>>
      BY <1>1 DEF Output_!Activate, Output_!project
    <2>u. /\ UNCHANGED <<tab, running, mine, others, events, pending, stage, scope, prior, waits>>
          /\ UNCHANGED <<list, listFetch, output, stale, clear, clears, absent>>
      BY <2>1 DEF Output_!observer, Output_!tabs, Output_!clearing
    <2>2. /\ outFetch' \in [Output_!Ids -> {Output_!Idle, Output_!Sent}
               \cup {Output_!Answer(r) : r \in {"shown", "null", "error"}}]
          /\ \A i \in Output_!Ids : outFetch'[i] = outFetch[i] \/ (list.has /\ i = list.id
               /\ outFetch'[i] = Output_!Sent)
          /\ ~displayed /\ list.has
               => outFetch'[list.id] # Output_!Idle \/ output[list.id] \in {"shown", "null"}
      <3>1. CASE displayed
        BY <1>0, <2>1, <3>1 DEF Output_!TypeOK
      <3>2. CASE ~displayed
        BY <1>0, <1>t, <2>1, <3>2, ShownIsRead
      <3> QED BY <3>1, <3>2
    <2>3. Output_!TypeOK'
      <3>1. displayed' \in BOOLEAN
        BY <2>1
      <3> QED BY <1>0, <2>u, <2>2, <3>1 DEF Output_!TypeOK
    <2>4. Output_!ListsInOrder' /\ Output_!AbsentGone' /\ Output_!ListTold' /\ Output_!GhostMarked'
      BY <1>0, <2>u DEF Output_!ListsInOrder, Output_!AbsentGone, Output_!ListTold,
           Output_!GhostMarked, Output_!Past, Output_!Empty, Output_!Gone, Output_!Told,
           Output_!Refreshing, Output_!Delivered
    <2>5. Output_!ReadsInOrder'
      <3> SUFFICES ASSUME NEW i \in Output_!Ids
                   PROVE  /\ outFetch'[i] # Output_!Idle => Output_!Past(i)
                               /\ (Output_!ownsOutput(list, i) \/ Output_!Over(i))
                          /\ outFetch'[i] = Output_!Answer("null") => Output_!Empty(i)
                          /\ outFetch'[i] = Output_!Answer("error") => i < tab.id
                          /\ outFetch'[i] = Output_!Answer("shown") /\ i = tab.id /\ ~tab.has
                               => Output_!Told(i)
                          /\ output[i] # "unread" => Output_!Past(i)
                          /\ output[i] = "null" => Output_!Over(i)
        BY <2>u DEF Output_!ReadsInOrder, Output_!Past, Output_!Empty, Output_!Over, Output_!Gone,
             Output_!Told, Output_!Delivered
      <3>1. CASE outFetch'[i] = outFetch[i]
        BY <1>0, <3>1 DEF Output_!ReadsInOrder
      <3>2. CASE list.has /\ i = list.id /\ outFetch'[i] = Output_!Sent
        BY <1>0, <3>2 DEF Output_!ReadsInOrder, Output_!ListsInOrder, Output_!Sent, Output_!Answer,
             Output_!ownsOutput
      <3> QED BY <2>2, <3>1, <3>2
    <2>6. Output_!OutputComing'
      <3> SUFFICES ASSUME ~displayed, list.has
                   PROVE  output[list.id] = "shown" \/ outFetch'[list.id] # Output_!Idle
        BY <2>u, <2>1 DEF Output_!OutputComing
      <3>1. output[list.id] = "null" => FALSE
        <4>1. ~(list.id > list.id)
          <5>1. list.id \in Nat
            BY <1>0, OutputTypes
          <5> QED BY <5>1
        <4> QED BY <1>0, <1>t, <4>1 DEF Output_!ReadsInOrder, Output_!Over, Output_!Gone,
                     Output_!ownsOutput
      <3> QED BY <2>2, <3>1
    <2> QED BY <2>3, <2>4, <2>5, <2>6, OutputSettlesNext
  <1>2. CASE Output_!RunSettled
    <2>1. /\ running = Output_!Nil /\ mine' = FALSE /\ listFetch' = Output_!Sent
          /\ UNCHANGED <<tab, running, others, events, pending, stage, scope, prior, waits>>
          /\ UNCHANGED <<list, output, stale, outFetch, displayed, clear, clears, absent>>
      BY <1>2 DEF Output_!RunSettled, Output_!observer, Output_!manifests, Output_!clearing
    <2>2. Output_!TypeOK'
      <3>1. mine' \in BOOLEAN
        BY <2>1
      <3> QED BY <1>0, <2>1, <3>1 DEF Output_!TypeOK
    <2>3. ~Output_!Delivered' /\ listFetch' # Output_!Idle
      BY <1>t, <2>1 DEF Output_!Delivered
    <2>g. \A i : Output_!Gone(i) => Output_!Gone(i)'
      BY <2>1, <2>3 DEF Output_!Gone, Output_!Empty, Output_!Past
    <2>4. Output_!ListsInOrder' /\ Output_!ListTold' /\ Output_!GhostMarked'
         /\ Output_!OutputComing'
      BY <1>0, <2>1, <2>3 DEF Output_!ListsInOrder, Output_!ListTold, Output_!GhostMarked,
           Output_!OutputComing, Output_!Past, Output_!Told, Output_!Refreshing
    <2>5. Output_!AbsentGone'
      BY <1>0, <2>1, <2>g DEF Output_!AbsentGone, Output_!Past, Output_!Empty
    <2>6. Output_!ReadsInOrder'
      BY <1>0, <2>1, <2>g DEF Output_!ReadsInOrder, Output_!Past, Output_!Empty, Output_!Told,
           Output_!Over
    <2> QED BY <2>2, <2>4, <2>5, <2>6, OutputSettlesNext
  <1> QED BY <1>1, <1>2

(* Reading the list, and taking its answer, keep the invariant.             *)
LEMMA ListReadsKeepOutput ==
    ASSUME Output_!BoundsAssumption, Output_!SavedOutputInv, Output_!ReadList \/ Output_!DeliverList
    PROVE  Output_!SavedOutputInv'
  <1>0. /\ Output_!TypeOK /\ Output_!ListsInOrder /\ Output_!AbsentGone /\ Output_!ReadsInOrder
             /\ Output_!ListTold /\ Output_!OutputComing
        /\ Output_!GhostMarked
    BY DEF Output_!SavedOutputInv
  <1>t. /\ tab.id \in Output_!Ids /\ list.id \in Output_!Ids /\ list \in Output_!Tab
             /\ tab \in Output_!Tab /\ Output_!Sent # Output_!Idle
        /\ tab.has \in BOOLEAN /\ list.has \in BOOLEAN
        /\ tab.id \in Nat /\ list.id \in Nat /\ \A i \in Output_!Ids : i \in Nat
    BY <1>0, OutputTypes DEF Output_!TypeOK, Output_!Sent, Output_!Idle
  <1>1. CASE Output_!ReadList
    <2>1. /\ listFetch' = Output_!Answer(tab)
          /\ UNCHANGED <<tab, running, mine, others, events, pending, stage, scope, prior, waits>>
          /\ UNCHANGED <<list, output, stale, outFetch, displayed, clear, clears, absent>>
      BY <1>1 DEF Output_!ReadList, Output_!project, Output_!observer, Output_!manifests,
           Output_!clearing
    <2>2. Output_!Delivered' /\ listFetch'[2] = tab /\ listFetch' # Output_!Idle
      BY <2>1 DEF Output_!Delivered, Output_!Answer, Output_!Sent, Output_!Idle
    <2>3. Output_!TypeOK'
      BY <1>0, <1>t, <2>1 DEF Output_!TypeOK
    <2>g. \A i : Output_!Gone(i) => Output_!Gone(i)'
      BY <2>1, <2>2 DEF Output_!Gone, Output_!Empty, Output_!Past
    <2>4. Output_!ListsInOrder'
      <3>1. tab.id \in list.id..tab.id
        BY <1>0, <1>t DEF Output_!ListsInOrder
      <3>2. tab.has => Output_!Past(tab.id)
        <4>1. tab.id # 0
          BY <1>0, OutputTypes
        <4> QED BY <1>0, <1>t, <4>1 DEF Output_!ListsInOrder, Output_!Past, Output_!Nil
      <3>3. list.has /\ list.id = tab.id /\ ~tab.has => Output_!Empty(tab.id)
        BY <1>0 DEF Output_!ListsInOrder, Output_!Empty, Output_!ownsOutput
      <3> QED BY <1>0, <2>1, <2>2, <3>1, <3>2, <3>3 DEF Output_!ListsInOrder, Output_!Past,
                   Output_!Empty
    <2>5. Output_!ListTold'
      BY <1>t, <2>1, <2>2 DEF Output_!ListTold, Output_!ownsOutput
    <2>6. Output_!GhostMarked' /\ Output_!OutputComing'
      BY <1>0, <2>1 DEF Output_!GhostMarked, Output_!OutputComing, Output_!Told, Output_!Refreshing
    <2>7. Output_!AbsentGone'
      BY <1>0, <2>1, <2>g DEF Output_!AbsentGone, Output_!Past, Output_!Empty
    <2>8. Output_!ReadsInOrder'
      BY <1>0, <2>1, <2>g DEF Output_!ReadsInOrder, Output_!Past, Output_!Empty, Output_!Told,
           Output_!Over
    <2> QED BY <2>3, <2>4, <2>5, <2>6, <2>7, <2>8, OutputSettlesNext
  <1>2. CASE Output_!DeliverList
    <2>0. PICK t \in Output_!Tab : Output_!Delivered /\ listFetch = Output_!Answer(t)
         /\ t = listFetch[2]
      BY <1>0, <1>2, OutputTypes DEF Output_!DeliverList, Output_!Delivered
    <2>1. /\ list' = t /\ listFetch' = Output_!Idle /\ waits' = waits \ {Output_!List}
          /\ outFetch' = IF <<t.id, t.has>> = <<list.id, list.has>> THEN outFetch
                         ELSE Output_!Shows(t, displayed, output, stale, outFetch)
          /\ UNCHANGED <<tab, running, mine, others, events, pending, stage, scope, prior>>
          /\ UNCHANGED <<output, stale, displayed, clear, clears, absent>>
      BY <1>2, <2>0 DEF Output_!DeliverList, Output_!project, Output_!clearing
    <2>t. /\ t.id \in Output_!Ids /\ t.has \in BOOLEAN /\ t.id \in Nat /\ displayed \in BOOLEAN
          /\ t.id \in list.id..tab.id /\ (t.has => Output_!Past(t.id))
          /\ list.has /\ list.id = t.id /\ ~t.has => Output_!Empty(t.id)
      <3>1. t.id \in Output_!Ids /\ t.has \in BOOLEAN
        BY DEF Output_!Tab
      <3>2. displayed \in BOOLEAN
        BY <1>0 DEF Output_!TypeOK
      <3>3. /\ t.id \in list.id..tab.id /\ (t.has => Output_!Past(t.id))
            /\ list.has /\ list.id = t.id /\ ~t.has => Output_!Empty(t.id)
        BY <1>0, <2>0 DEF Output_!ListsInOrder
      <3> QED BY <1>t, <3>1, <3>2, <3>3
    <2>2. /\ outFetch' \in [Output_!Ids -> {Output_!Idle, Output_!Sent}
               \cup {Output_!Answer(r) : r \in {"shown", "null", "error"}}]
          /\ \A i \in Output_!Ids : outFetch'[i] = outFetch[i] \/ (t.has /\ i = t.id
               /\ outFetch'[i] = Output_!Sent)
          /\ displayed /\ t.has /\ ~(t.id = list.id /\ t.has = list.has)
               => outFetch'[t.id] # Output_!Idle \/ output[t.id] \in {"shown", "null"}
      <3>1. CASE t.id = list.id /\ t.has = list.has
        BY <1>0, <2>1, <3>1 DEF Output_!TypeOK
      <3>2. CASE ~(t.id = list.id /\ t.has = list.has)
        <4>1. outFetch' = Output_!Shows(t, displayed, output, stale, outFetch)
          BY <2>1, <3>2
        <4> QED BY <1>0, <2>t, <4>1, ShownIsRead
      <3> QED BY <3>1, <3>2
    <2>3. Output_!TypeOK'
      <3>1. waits' \subseteq Output_!Ids \cup {Output_!List} /\ (stage' = "idle" => waits' = {})
        BY <1>0, <2>1 DEF Output_!TypeOK
      <3>2. list' \in Output_!Tab /\ listFetch' = Output_!Idle
        BY <2>1
      <3> QED BY <1>0, <2>1, <2>2, <3>1, <3>2 DEF Output_!TypeOK
    <2>4. ~Output_!Delivered'
      BY <2>1 DEF Output_!Delivered
    <2>g. ASSUME NEW i \in Output_!Ids
          PROVE  /\ Output_!Gone(i) => Output_!Gone(i)'
                 /\ Output_!ownsOutput(list, i) \/ Output_!Over(i)
                      => Output_!ownsOutput(list', i) \/ Output_!Over(i)'
                 /\ Output_!Over(i) => Output_!Over(i)'
      <3>1. Output_!Gone(i) => Output_!Gone(i)'
        BY <2>0, <2>1, <2>4 DEF Output_!Gone, Output_!Empty, Output_!Past
      <3>2. list.id > i => list'.id > i
        BY <1>t, <2>1, <2>t
      <3>3. Output_!Over(i) => Output_!Over(i)'
        BY <3>1, <3>2 DEF Output_!Over
      <3>4. ASSUME Output_!ownsOutput(list, i) PROVE Output_!ownsOutput(list',
           i) \/ Output_!Over(i)'
        <4>1. CASE t.id = i /\ t.has
          BY <2>1, <4>1 DEF Output_!ownsOutput
        <4>2. CASE t.id = i /\ ~t.has
          BY <2>1, <2>4, <2>t, <3>4, <4>2 DEF Output_!ownsOutput, Output_!Over, Output_!Gone,
               Output_!Empty, Output_!Past
        <4>3. CASE t.id # i
          BY <1>t, <2>1, <2>t, <3>4, <4>3 DEF Output_!ownsOutput, Output_!Over
        <4> QED BY <4>1, <4>2, <4>3
      <3> QED BY <3>1, <3>3, <3>4
    <2>5. Output_!ListsInOrder'
      <3>1. list'.id <= tab.id /\ (list'.has => Output_!Past(list.id)')
        BY <1>t, <2>1, <2>t DEF Output_!Past
      <3> QED BY <1>0, <2>1, <2>4, <3>1 DEF Output_!ListsInOrder
    <2>6. Output_!ListTold'
      BY <1>0, <2>0, <2>1, <2>4 DEF Output_!ListTold, Output_!Told
    <2>7. Output_!GhostMarked'
      BY <1>0, <2>1 DEF Output_!GhostMarked, Output_!Told, Output_!Refreshing
    <2>8. Output_!AbsentGone'
      BY <1>0, <2>1, <2>g DEF Output_!AbsentGone, Output_!Past, Output_!Empty, Output_!TypeOK
    <2>9. Output_!ReadsInOrder'
      <3> SUFFICES ASSUME NEW i \in Output_!Ids
                   PROVE  /\ outFetch'[i] # Output_!Idle => Output_!Past(i)
                               /\ (Output_!ownsOutput(list', i) \/ Output_!Over(i)')
                          /\ outFetch'[i] = Output_!Answer("null") => Output_!Empty(i)
                          /\ outFetch'[i] = Output_!Answer("error") => i < tab.id
                          /\ outFetch'[i] = Output_!Answer("shown") /\ i = tab.id /\ ~tab.has
                               => Output_!Told(i)
                          /\ output[i] # "unread" => Output_!Past(i)
                          /\ output[i] = "null" => Output_!Over(i)'
        BY <2>1 DEF Output_!ReadsInOrder, Output_!Past, Output_!Empty, Output_!Told
      <3>1. CASE outFetch'[i] = outFetch[i]
        BY <1>0, <2>g, <3>1 DEF Output_!ReadsInOrder
      <3>2. CASE t.has /\ i = t.id /\ outFetch'[i] = Output_!Sent
        <4>1. Output_!Past(i) /\ Output_!ownsOutput(list', i)
          BY <2>1, <2>t, <3>2 DEF Output_!ownsOutput
        <4>2. \A r : outFetch'[i] # Output_!Answer(r)
          BY <3>2 DEF Output_!Sent, Output_!Answer
        <4>3. output[i] = "null" => Output_!Over(i)'
          BY <1>0, <2>g DEF Output_!ReadsInOrder
        <4> QED BY <4>1, <4>2, <4>3
      <3> QED BY <2>2, <3>1, <3>2
    <2>10. Output_!OutputComing'
      <3>1. CASE t.id = list.id /\ t.has = list.has
        <4>1. outFetch' = outFetch
          BY <2>1, <3>1
        <4> QED BY <1>0, <2>1, <3>1, <4>1 DEF Output_!OutputComing, Output_!Refreshing, Output_!Told
      <3>2. CASE ~(t.id = list.id /\ t.has = list.has)
        <4> SUFFICES ASSUME displayed, t.has
                     PROVE  output[t.id] = "shown" \/ outFetch'[t.id] # Output_!Idle
          BY <2>1 DEF Output_!OutputComing
        <4>1. output[t.id] = "null" => FALSE
          <5>1. output[t.id] = "null" => Output_!Over(t.id)'
            <6>1. PICK d \in Output_!Ids : d = t.id
              BY <2>t
            <6>2. output[d] = "null" => Output_!Over(d)'
              BY <1>0, <2>g, <6>1 DEF Output_!ReadsInOrder
            <6> QED BY <6>1, <6>2
          <5>2. ~Output_!Over(t.id)'
            BY <2>1, <2>t DEF Output_!Over, Output_!Gone, Output_!ownsOutput
          <5> QED BY <5>1, <5>2
        <4> QED BY <2>2, <3>2, <4>1
      <3> QED BY <3>1, <3>2
    <2> QED BY <2>3, <2>5, <2>6, <2>7, <2>8, <2>9, <2>10, OutputSettlesNext
  <1> QED BY <1>1, <1>2

(* A manifest that is read tells what the project has.                      *)
LEMMA ManifestIsRead ==
    ASSUME Output_!BoundsAssumption, Output_!SavedOutputInv, NEW m \in Output_!Ids,
         Output_!ReadOutput(m)
    PROVE  Output_!SavedOutputInv'
  <1>0. /\ Output_!TypeOK /\ Output_!ListsInOrder /\ Output_!AbsentGone /\ Output_!ReadsInOrder
             /\ Output_!ListTold /\ Output_!OutputComing
        /\ Output_!GhostMarked
    BY DEF Output_!SavedOutputInv
  <1>t. /\ tab.id \in Nat /\ \A i \in Output_!Ids : i \in Nat
    BY <1>0, OutputTypes
  <1>1. PICK r \in {"shown", "null", "error"} :
             /\ r = IF tab.id # m THEN "error" ELSE IF tab.has THEN "shown" ELSE "null"
             /\ outFetch' = [outFetch EXCEPT ![m] = Output_!Answer(r)]
    BY DEF Output_!ReadOutput
  <1>2. /\ outFetch[m] = Output_!Sent /\ outFetch[m] # Output_!Idle
        /\ UNCHANGED <<tab, running, mine, others, events, pending, stage, scope, prior, waits>>
        /\ UNCHANGED <<list, listFetch, output, stale, displayed, clear, clears, absent>>
    BY DEF Output_!ReadOutput, Output_!project, Output_!observer, Output_!tabs, Output_!clearing,
         Output_!Sent, Output_!Idle
  <1>3. /\ outFetch' \in [Output_!Ids -> {Output_!Idle, Output_!Sent}
             \cup {Output_!Answer(q) : q \in {"shown", "null", "error"}}]
        /\ outFetch'[m] = Output_!Answer(r)
             /\ \A i \in Output_!Ids \ {m} : outFetch'[i] = outFetch[i]
    BY <1>0, <1>1 DEF Output_!TypeOK
  <1>4. Output_!TypeOK'
    BY <1>0, <1>2, <1>3 DEF Output_!TypeOK
  <1>5. Output_!ListsInOrder' /\ Output_!AbsentGone' /\ Output_!ListTold' /\ Output_!GhostMarked'
    BY <1>0, <1>2 DEF Output_!ListsInOrder, Output_!AbsentGone, Output_!ListTold,
         Output_!GhostMarked, Output_!Past, Output_!Empty, Output_!Gone, Output_!Told,
         Output_!Refreshing, Output_!Delivered
  <1>6. Output_!ReadsInOrder'
    <2> SUFFICES ASSUME NEW i \in Output_!Ids
                 PROVE  /\ outFetch'[i] # Output_!Idle => Output_!Past(i)
                             /\ (Output_!ownsOutput(list, i) \/ Output_!Over(i))
                        /\ outFetch'[i] = Output_!Answer("null") => Output_!Empty(i)
                        /\ outFetch'[i] = Output_!Answer("error") => i < tab.id
                        /\ outFetch'[i] = Output_!Answer("shown") /\ i = tab.id /\ ~tab.has
                             => Output_!Told(i)
                        /\ output[i] # "unread" => Output_!Past(i)
                        /\ output[i] = "null" => Output_!Over(i)
      BY <1>2 DEF Output_!ReadsInOrder, Output_!Past, Output_!Empty, Output_!Over, Output_!Gone,
           Output_!Told, Output_!Delivered
    <2>1. CASE i # m
      BY <1>0, <1>3, <2>1 DEF Output_!ReadsInOrder
    <2>2. CASE i = m
      <3>1. Output_!Past(i) /\ (Output_!ownsOutput(list, i) \/ Output_!Over(i))
        BY <1>0, <1>2, <2>2 DEF Output_!ReadsInOrder
      <3>2. \A q : outFetch'[i] = Output_!Answer(q) => q = r
        BY <1>3, <2>2 DEF Output_!Answer
      <3>3. r = "null" => Output_!Empty(i)
        BY <1>1, <2>2, <3>1 DEF Output_!Empty, Output_!ownsOutput
      <3>4. r = "error" => i < tab.id
        BY <1>1, <1>t, <2>2, <3>1 DEF Output_!Past
      <3>5. r = "shown" => tab.has
        BY <1>1
      <3>6. (output[i] # "unread" => Output_!Past(i)) /\ (output[i] = "null" => Output_!Over(i))
        BY <1>0 DEF Output_!ReadsInOrder
      <3> QED BY <3>1, <3>2, <3>3, <3>4, <3>5, <3>6
    <2> QED BY <2>1, <2>2
  <1>7. Output_!OutputComing'
    <2>1. \A i \in Output_!Ids : outFetch[i] # Output_!Idle => outFetch'[i] # Output_!Idle
      BY <1>3 DEF Output_!Answer, Output_!Idle
    <2>2. list.id \in Output_!Ids
      BY <1>0, OutputTypes
    <2> QED BY <1>0, <1>2, <2>1, <2>2 DEF Output_!OutputComing, Output_!Refreshing, Output_!Told
  <1> QED BY <1>4, <1>5, <1>6, <1>7, OutputSettlesNext

(* Marking an analysis in the cached list.                                  *)
LEMMA MarkedAbsent ==
    ASSUME NEW l \in Output_!Tab, NEW i
    PROVE  /\ Output_!markOutputAbsent(l, i) \in Output_!Tab
           /\ Output_!markOutputAbsent(l, i).id = l.id
           /\ ~Output_!ownsOutput(Output_!markOutputAbsent(l, i), i)
           /\ \A j : Output_!ownsOutput(Output_!markOutputAbsent(l, i), j)
                <=> Output_!ownsOutput(l, j) /\ j # i
           /\ Output_!markOutputAbsent(l, i).has => l.has /\ l.id # i
           /\ l.id # i => Output_!markOutputAbsent(l, i) = l
  <1>0. l = [id |-> l.id, has |-> l.has, name |-> l.name] /\ l.has \in BOOLEAN
    BY DEF Output_!Tab
  <1>1. CASE l.id = i
    <2>1. Output_!markOutputAbsent(l, i) = [id |-> l.id, has |-> FALSE, name |-> l.name]
      BY <1>0, <1>1 DEF Output_!markOutputAbsent
    <2>2. Output_!markOutputAbsent(l, i) \in Output_!Tab
      BY <2>1 DEF Output_!Tab
    <2> QED BY <1>1, <2>1, <2>2 DEF Output_!ownsOutput
  <1>2. CASE l.id # i
    BY <1>0, <1>2 DEF Output_!markOutputAbsent, Output_!ownsOutput
  <1> QED BY <1>1, <1>2

(* The answer of a manifest keeps the invariant.                            *)
LEMMA ManifestKeepsOutput ==
    ASSUME Output_!BoundsAssumption, Output_!SavedOutputInv, NEW m \in Output_!Ids,
         Output_!AnswerOutput(m)
    PROVE  Output_!SavedOutputInv'
  <1>0. /\ Output_!TypeOK /\ Output_!ListsInOrder /\ Output_!AbsentGone /\ Output_!ReadsInOrder
             /\ Output_!ListTold /\ Output_!OutputComing
        /\ Output_!GhostMarked
    BY DEF Output_!SavedOutputInv
  <1>t. /\ tab.id \in Nat /\ tab.id \in Output_!Ids /\ tab.has \in BOOLEAN
        /\ list \in Output_!Tab /\ list.id \in Output_!Ids /\ list.id \in Nat
             /\ list.has \in BOOLEAN
        /\ \A i \in Output_!Ids : i \in Nat
    BY <1>0, OutputTypes DEF Output_!TypeOK
  <1>1. PICK r \in {"shown", "null", "error"} : outFetch[m] = Output_!Answer(r)
       /\ r = outFetch[m][2]
    BY <1>0 DEF Output_!AnswerOutput, Output_!TypeOK, Output_!Answer, Output_!Idle, Output_!Sent
  <1> DEFINE own == Output_!ownsOutput(list, m)
  <1>2. /\ outFetch' = [outFetch EXCEPT ![m] = Output_!Idle]
        /\ output' = [output EXCEPT ![m] = IF ~own THEN "null" ELSE IF r = "error" THEN @ ELSE r]
        /\ stale' = IF own /\ r = "error" THEN stale \cup {m} ELSE stale \ {m}
        /\ IF own /\ r = "null"
           THEN /\ list' = Output_!markOutputAbsent(list, m) /\ absent' = absent \cup {m}
                /\ listFetch' = Output_!Idle /\ waits' = waits \ {Output_!List, m}
           ELSE waits' = waits \ {m} /\ UNCHANGED <<list, listFetch, absent>>
        /\ UNCHANGED <<tab, running, mine, others, events, pending, stage, scope, prior>>
        /\ UNCHANGED <<displayed, clear, clears>>
    BY <1>1 DEF Output_!AnswerOutput, Output_!project, Output_!clearing, Output_!tabs
  <1>f. /\ outFetch' \in [Output_!Ids -> {Output_!Idle, Output_!Sent}
             \cup {Output_!Answer(q) : q \in {"shown", "null", "error"}}]
        /\ outFetch'[m] = Output_!Idle /\ \A i \in Output_!Ids \ {m} : outFetch'[i] = outFetch[i]
    BY <1>0, <1>2 DEF Output_!TypeOK
  <1>o. /\ output' \in [Output_!Ids -> {"unread", "shown", "null"}]
        /\ output'[m] = IF ~own THEN "null" ELSE IF r = "error" THEN output[m] ELSE r
        /\ \A i \in Output_!Ids \ {m} : output'[i] = output[i]
    <2>1. output \in [Output_!Ids -> {"unread", "shown", "null"}]
      BY <1>0 DEF Output_!TypeOK
    <2>2. (IF ~own THEN "null" ELSE IF r = "error" THEN output[m]
         ELSE r) \in {"unread", "shown", "null"}
      BY <2>1
    <2> HIDE DEF own
    <2> QED BY <1>2, <2>1, <2>2
  <1>w. waits' \subseteq Output_!Ids \cup {Output_!List} /\ (stage = "idle" => waits' = {})
    BY <1>0, <1>2 DEF Output_!TypeOK
  <1>r. /\ Output_!Past(m) /\ (own \/ Output_!Over(m))
        /\ r = "null" => Output_!Empty(m)
        /\ r = "error" => m < tab.id
        /\ r = "shown" /\ m = tab.id /\ ~tab.has => Output_!Told(m)
    BY <1>0, <1>1 DEF Output_!ReadsInOrder, Output_!Answer, Output_!Idle
  <1>3. Output_!TypeOK'
    <2>1. list' \in Output_!Tab /\ listFetch' \in {Output_!Idle, Output_!Sent}
         \cup {Output_!Answer(t) : t \in Output_!Tab} /\ absent' \subseteq Output_!Ids
      <3>1. CASE own /\ r = "null"
        BY <1>0, <1>2, <1>t, <3>1, MarkedAbsent DEF Output_!TypeOK
      <3>2. CASE ~(own /\ r = "null")
        BY <1>0, <1>2, <3>2 DEF Output_!TypeOK
      <3> QED BY <3>1, <3>2
    <2>2. stale' \subseteq Output_!Ids
      BY <1>0, <1>2 DEF Output_!TypeOK
    <2> QED BY <1>0, <1>2, <1>f, <1>o, <1>w, <2>1, <2>2 DEF Output_!TypeOK
  <1>l. /\ list'.id = list.id
        /\ \A i \in Output_!Ids : Output_!ownsOutput(list', i) => Output_!ownsOutput(list, i)
        /\ \A i \in Output_!Ids \ {m} : Output_!ownsOutput(list, i) => Output_!ownsOutput(list', i)
        /\ list'.has => list.has /\ ~(own /\ r = "null")
    <2>1. CASE own /\ r = "null"
      <3>1. list.id = m /\ list' = Output_!markOutputAbsent(list, m)
        BY <1>2, <2>1 DEF Output_!ownsOutput
      <3> QED BY <1>t, <3>1, MarkedAbsent
    <2>2. CASE ~(own /\ r = "null")
      BY <1>2, <2>2
    <2> QED BY <2>1, <2>2
  <1>d. /\ Output_!Delivered' => Output_!Delivered /\ listFetch' = listFetch /\ ~(own /\ r = "null")
        /\ own /\ r = "null" => listFetch' = Output_!Idle
        /\ ~(own /\ r = "null") => list' = list /\ listFetch' = listFetch /\ absent' = absent
    BY <1>2 DEF Output_!Delivered
  <1>g. ASSUME NEW i \in Output_!Ids
        PROVE  /\ Output_!Gone(i) => Output_!Gone(i)'
               /\ Output_!Over(i) => Output_!Over(i)'
               /\ own /\ r = "null" => Output_!Gone(m)'
    <2>1. Output_!Gone(i) => Output_!Gone(i)'
      BY <1>2, <1>l, <1>d DEF Output_!Gone, Output_!Empty, Output_!Past
    <2>2. own /\ r = "null" => Output_!Gone(m)'
      <3> SUFFICES ASSUME own, r = "null" PROVE Output_!Gone(m)'
        OBVIOUS
      <3>1. ~Output_!ownsOutput(list', m)
        BY <1>2, <1>t, MarkedAbsent
      <3>2. Output_!Empty(m)' /\ ~Output_!Delivered'
        BY <1>2, <1>r, <1>d DEF Output_!Empty, Output_!Past
      <3> QED BY <3>1, <3>2 DEF Output_!Gone
    <2> QED BY <1>l, <2>1, <2>2 DEF Output_!Over
  <1>4. Output_!ListsInOrder'
    <2>1. CASE own /\ r = "null"
      BY <1>0, <1>2, <1>l, <1>d, <2>1 DEF Output_!ListsInOrder, Output_!Past
    <2>2. CASE ~(own /\ r = "null")
      <3>1. UNCHANGED <<list, listFetch, tab, running>>
        BY <1>2, <1>d, <2>2
      <3> QED BY <1>0, <3>1 DEF Output_!ListsInOrder, Output_!Past, Output_!Empty, Output_!Delivered
    <2> QED BY <2>1, <2>2
  <1>5. Output_!AbsentGone'
    <2>1. \A i \in absent' : Output_!Gone(i)'
      <3>1. \A i \in absent : i \in Output_!Ids /\ Output_!Gone(i)
        BY <1>0 DEF Output_!AbsentGone, Output_!TypeOK
      <3>2. \A i \in absent' : i \in absent \/ (i = m /\ own /\ r = "null")
        BY <1>2
      <3> QED BY <1>g, <3>1, <3>2
    <2> QED BY <1>0, <1>2, <2>1 DEF Output_!AbsentGone, Output_!Past, Output_!Empty
  <1>6. Output_!ReadsInOrder'
    <2> SUFFICES ASSUME NEW i \in Output_!Ids
                 PROVE  /\ outFetch'[i] # Output_!Idle => Output_!Past(i)
                             /\ (Output_!ownsOutput(list', i) \/ Output_!Over(i)')
                        /\ outFetch'[i] = Output_!Answer("null") => Output_!Empty(i)
                        /\ outFetch'[i] = Output_!Answer("error") => i < tab.id
                        /\ outFetch'[i] = Output_!Answer("shown") /\ i = tab.id /\ ~tab.has
                             => Output_!Told(i)
                        /\ output'[i] # "unread" => Output_!Past(i)
                        /\ output'[i] = "null" => Output_!Over(i)'
      BY <1>2 DEF Output_!ReadsInOrder, Output_!Past, Output_!Empty, Output_!Told
    <2>1. CASE i # m
      <3>1. outFetch'[i] = outFetch[i] /\ output'[i] = output[i]
        BY <1>f, <1>o, <2>1
      <3>2. (Output_!ownsOutput(list, i) => Output_!ownsOutput(list', i)) /\ (Output_!Over(i)
           => Output_!Over(i)')
        BY <1>g, <1>l, <2>1
      <3> QED BY <1>0, <3>1, <3>2 DEF Output_!ReadsInOrder
    <2>2. CASE i = m
      <3>1. outFetch'[i] = Output_!Idle /\ \A q : outFetch'[i] # Output_!Answer(q)
        BY <1>f, <2>2 DEF Output_!Idle, Output_!Answer
      <3>2. output'[i] # "unread" => Output_!Past(i)
        BY <1>r, <2>2
      <3>3. output'[i] = "null" => Output_!Over(i)'
        <4>1. CASE ~own
          BY <1>g, <1>r, <2>2, <4>1
        <4>2. CASE own /\ r = "null"
          BY <1>g, <2>2, <4>2 DEF Output_!Over
        <4>3. CASE own /\ r # "null"
          <5>1. output'[i] = "null" => output[i] = "null"
            BY <1>o, <2>2, <4>3
          <5>2. output[i] = "null" => Output_!Over(i)
            BY <1>0 DEF Output_!ReadsInOrder
          <5> QED BY <1>g, <5>1, <5>2
        <4> QED BY <4>1, <4>2, <4>3
      <3> QED BY <3>1, <3>2, <3>3
    <2> QED BY <2>1, <2>2
  <1>7. Output_!ListTold'
    <2>1. CASE own /\ r = "null"
      <3>1. ~list'.has /\ list'.id = m /\ ~Output_!ownsOutput(tab, m) /\ ~Output_!Delivered'
        BY <1>l, <1>d, <1>r, <2>1 DEF Output_!Empty, Output_!ownsOutput
      <3> QED BY <1>2, <3>1 DEF Output_!ListTold
    <2>2. CASE ~(own /\ r = "null")
      <3>1. UNCHANGED <<list, listFetch, tab, events, pending>>
        BY <1>2, <1>d, <2>2
      <3> QED BY <1>0, <3>1 DEF Output_!ListTold, Output_!Told, Output_!Delivered
    <2> QED BY <2>1, <2>2
  <1>8. Output_!OutputComing'
    <2> SUFFICES ASSUME displayed, list'.has
                 PROVE  \/ output'[list.id] = "shown" \/ outFetch'[list.id] # Output_!Idle
                        \/ Output_!Refreshing(list.id)
                        \/ clear # <<"none">> /\ clear[2] = list.id
                        \/ list.id < tab.id
      BY <1>2, <1>l DEF Output_!OutputComing, Output_!Refreshing, Output_!Told
    <2>1. CASE list.id = m
      <3>1. own /\ r # "null"
        BY <1>l, <2>1 DEF Output_!ownsOutput
      <3>2. CASE r = "error"
        BY <1>r, <2>1, <3>2
      <3>3. CASE r = "shown"
        BY <1>o, <2>1, <3>1, <3>3
      <3> QED BY <3>1, <3>2, <3>3
    <2>2. CASE list.id # m
      BY <1>0, <1>f, <1>o, <1>l, <1>t, <2>2 DEF Output_!OutputComing
    <2> QED BY <2>1, <2>2
  <1>9. Output_!GhostMarked'
    <2> SUFFICES ASSUME output'[tab.id] = "shown", ~tab.has
                 PROVE  tab.id \in stale' \/ Output_!Refreshing(tab.id)
      BY <1>2 DEF Output_!GhostMarked, Output_!Refreshing, Output_!Told
    <2>1. CASE tab.id = m
      <3>1. own
        BY <1>o, <2>1
      <3>2. r # "error"
        <4>1. ~(m < tab.id)
          BY <1>t, <2>1
        <4> QED BY <1>r, <4>1
      <3>3. r = "shown"
        BY <1>o, <2>1, <3>1, <3>2
      <3> QED BY <1>r, <2>1, <3>3 DEF Output_!Refreshing
    <2>2. CASE tab.id # m
      <3>1. output[tab.id] = "shown" /\ (tab.id \in stale => tab.id \in stale')
        BY <1>2, <1>o, <1>t, <2>2
      <3> QED BY <1>0, <3>1 DEF Output_!GhostMarked
    <2> QED BY <2>1, <2>2
  <1> QED BY <1>3, <1>4, <1>5, <1>6, <1>7, <1>8, <1>9, OutputSettlesNext

(* Collecting what was announced, and starting a refresh of it, keep the    *)
(* invariant.                                                               *)
LEMMA CollectKeepsOutput ==
    ASSUME Output_!BoundsAssumption, Output_!SavedOutputInv, Output_!Collect
    PROVE  Output_!SavedOutputInv'
  <1>0. /\ Output_!TypeOK /\ Output_!ListsInOrder /\ Output_!AbsentGone /\ Output_!ReadsInOrder
             /\ Output_!ListTold /\ Output_!OutputComing
        /\ Output_!GhostMarked
    BY DEF Output_!SavedOutputInv
  <1>1. /\ events' \in Seq(SUBSET Output_!Ids) /\ \E ids \in SUBSET Output_!Ids : pending' = <<ids>>
        /\ \A i : Output_!Told(i)' <=> Output_!Told(i)
    BY <1>0, CollectedIsTold
  <1>2. /\ UNCHANGED <<tab, running, mine, others, stage, scope, prior, waits, list, listFetch>>
        /\ UNCHANGED <<output, stale, outFetch, displayed, clear, clears, absent>>
    BY DEF Output_!Collect, Output_!project, Output_!tabs, Output_!manifests, Output_!clearing
  <1>3. Output_!TypeOK'
    BY <1>0, <1>1, <1>2 DEF Output_!TypeOK
  <1>4. Output_!ListsInOrder' /\ Output_!AbsentGone'
    BY <1>0, <1>2 DEF Output_!ListsInOrder, Output_!AbsentGone, Output_!Past, Output_!Empty,
         Output_!Gone, Output_!Delivered
  <1>5. Output_!ReadsInOrder'
    BY <1>0, <1>1, <1>2 DEF Output_!ReadsInOrder, Output_!Past, Output_!Empty, Output_!Over,
         Output_!Gone, Output_!Delivered
  <1>t. list.id \in Output_!Ids /\ (Output_!Delivered => listFetch[2].id \in Output_!Ids)
       /\ tab.id \in Output_!Ids
    BY <1>0, OutputTypes DEF Output_!Tab
  <1>6. Output_!ListTold'
    <2>1. Output_!Told(list.id)' <=> Output_!Told(list.id)
      <3>1. PICK d : d = list.id
        OBVIOUS
      <3>2. Output_!Told(d)' <=> Output_!Told(d)
        BY <1>1
      <3> QED BY <1>2, <3>1, <3>2 DEF Output_!Told
    <2>2. Output_!Told(listFetch[2].id)' <=> Output_!Told(listFetch[2].id)
      <3>1. PICK d : d = listFetch[2].id
        OBVIOUS
      <3>2. Output_!Told(d)' <=> Output_!Told(d)
        BY <1>1
      <3> QED BY <1>2, <3>1, <3>2 DEF Output_!Told
    <2> QED BY <1>0, <1>2, <2>1, <2>2 DEF Output_!ListTold, Output_!Delivered
  <1>r. \A i : Output_!Refreshing(i)' <=> Output_!Refreshing(i)
    BY <1>1, <1>2 DEF Output_!Refreshing
  <1>7. Output_!OutputComing'
    <2>1. Output_!Refreshing(list.id)' <=> Output_!Refreshing(list.id)
      <3>1. PICK d : d = list.id
        OBVIOUS
      <3>2. Output_!Refreshing(d)' <=> Output_!Refreshing(d)
        BY <1>r
      <3> QED BY <1>2, <3>1, <3>2 DEF Output_!Refreshing, Output_!Told
    <2> QED BY <1>0, <1>2, <2>1 DEF Output_!OutputComing
  <1>8. Output_!GhostMarked'
    <2>1. Output_!Refreshing(tab.id)' <=> Output_!Refreshing(tab.id)
      <3>1. PICK d : d = tab.id
        OBVIOUS
      <3>2. Output_!Refreshing(d)' <=> Output_!Refreshing(d)
        BY <1>r
      <3> QED BY <1>2, <3>1, <3>2 DEF Output_!Refreshing, Output_!Told
    <2> QED BY <1>0, <1>2, <2>1 DEF Output_!GhostMarked
  <1> QED BY <1>3, <1>4, <1>5, <1>6, <1>7, <1>8, OutputSettlesNext

LEMMA RefreshKeepsOutput ==
    ASSUME Output_!BoundsAssumption, Output_!SavedOutputInv, Output_!RefreshTabs
    PROVE  Output_!SavedOutputInv'
  <1>0. /\ Output_!TypeOK /\ Output_!ListsInOrder /\ Output_!AbsentGone /\ Output_!ReadsInOrder
             /\ Output_!ListTold /\ Output_!OutputComing
        /\ Output_!GhostMarked
    BY DEF Output_!SavedOutputInv
  <1>1. PICK ids \in SUBSET Output_!Ids : pending = <<ids>> /\ pending # <<>> /\ pending[1] = ids
    BY <1>0 DEF Output_!TypeOK, Output_!RefreshTabs
  <1>2. /\ scope' = ids /\ pending' = <<>> /\ prior' = list.id /\ stage = "idle"
        /\ stage' = "tabs" /\ waits' = {Output_!List} /\ listFetch' = Output_!Sent
        /\ outFetch' = [i \in Output_!Ids |-> IF i \in ids THEN Output_!Idle ELSE outFetch[i]]
        /\ UNCHANGED <<tab, running, mine, others, events, list, output, stale>>
        /\ UNCHANGED <<displayed, clear, clears, absent>>
    BY <1>1 DEF Output_!RefreshTabs, Output_!project, Output_!clearing
  <1>t. list.id \in Output_!Ids /\ tab.id \in Output_!Ids
    BY <1>0, OutputTypes
  <1>f. /\ outFetch' \in [Output_!Ids -> {Output_!Idle, Output_!Sent}
             \cup {Output_!Answer(q) : q \in {"shown", "null", "error"}}]
        /\ \A i \in Output_!Ids : outFetch'[i] = IF i \in ids THEN Output_!Idle ELSE outFetch[i]
    BY <1>0, <1>2 DEF Output_!TypeOK
  <1>3. Output_!TypeOK'
    <2>1. prior' \in Output_!Ids /\ waits' \subseteq Output_!Ids \cup {Output_!List}
         /\ scope' \subseteq Output_!Ids
      BY <1>t, <1>2
    <2> QED BY <1>0, <1>2, <1>f, <2>1 DEF Output_!TypeOK
  <1>4. ~Output_!Delivered' /\ listFetch' # Output_!Idle
    BY <1>2 DEF Output_!Delivered, Output_!Sent, Output_!Idle
  <1>d. ASSUME NEW i
        PROVE  /\ Output_!Told(i) <=> Output_!Told(i)' \/ i \in ids
               /\ Output_!Refreshing(i) => Output_!Refreshing(i)'
    BY <1>1, <1>2 DEF Output_!Told, Output_!Refreshing
  <1>g. ASSUME NEW i
        PROVE  (Output_!Gone(i) => Output_!Gone(i)') /\ (Output_!Over(i) => Output_!Over(i)')
    BY <1>2, <1>4 DEF Output_!Gone, Output_!Over, Output_!Empty, Output_!Past
  <1>5. Output_!ListsInOrder' /\ Output_!ListTold'
    BY <1>0, <1>2, <1>4 DEF Output_!ListsInOrder, Output_!Past, Output_!ListTold
  <1>6. Output_!AbsentGone'
    <2>1. \A i \in absent' : Output_!Gone(i)'
      BY <1>0, <1>2, <1>g DEF Output_!AbsentGone
    <2> QED BY <1>0, <1>2, <2>1 DEF Output_!AbsentGone, Output_!Past, Output_!Empty
  <1>7. Output_!ReadsInOrder'
    <2> SUFFICES ASSUME NEW i \in Output_!Ids
                 PROVE  /\ outFetch'[i] # Output_!Idle => Output_!Past(i)
                             /\ (Output_!ownsOutput(list, i) \/ Output_!Over(i)')
                        /\ outFetch'[i] = Output_!Answer("null") => Output_!Empty(i)
                        /\ outFetch'[i] = Output_!Answer("error") => i < tab.id
                        /\ outFetch'[i] = Output_!Answer("shown") /\ i = tab.id /\ ~tab.has
                             => Output_!Told(i)'
                        /\ output[i] # "unread" => Output_!Past(i)
                        /\ output[i] = "null" => Output_!Over(i)'
      BY <1>2 DEF Output_!ReadsInOrder, Output_!Past, Output_!Empty
    <2>1. output[i] = "null" => Output_!Over(i)'
      BY <1>0, <1>g DEF Output_!ReadsInOrder
    <2>2. CASE i \in ids
      <3>1. outFetch'[i] = Output_!Idle /\ \A q : outFetch'[i] # Output_!Answer(q)
        BY <1>f, <2>2 DEF Output_!Idle, Output_!Answer
      <3> QED BY <1>0, <2>1, <3>1 DEF Output_!ReadsInOrder
    <2>3. CASE i \notin ids
      <3>1. outFetch'[i] = outFetch[i]
        BY <1>f, <2>3
      <3>2. (Output_!Told(i) => Output_!Told(i)') /\ (Output_!Over(i) => Output_!Over(i)')
        BY <1>d, <1>g, <2>3
      <3> QED BY <1>0, <2>1, <3>1, <3>2 DEF Output_!ReadsInOrder
    <2> QED BY <2>2, <2>3
  <1>8. Output_!OutputComing'
    <2>1. PICK d \in Output_!Ids : d = list.id
      BY <1>t
    <2>2. /\ Output_!Refreshing(d) => Output_!Refreshing(d)'
          /\ outFetch'[d] = outFetch[d] \/ Output_!Refreshing(d)'
      BY <1>2, <1>d, <1>f DEF Output_!Refreshing
    <2>3. Output_!Refreshing(d)' => Output_!Refreshing(list.id)'
      BY <1>2, <2>1 DEF Output_!Refreshing, Output_!Told
    <2> QED BY <1>0, <1>2, <2>1, <2>2, <2>3 DEF Output_!OutputComing
  <1>9. Output_!GhostMarked'
    <2>1. PICK d \in Output_!Ids : d = tab.id
      BY <1>t
    <2>2. Output_!Refreshing(d) => Output_!Refreshing(d)'
      BY <1>d
    <2>3. Output_!Refreshing(d)' => Output_!Refreshing(tab.id)'
      BY <1>2, <2>1 DEF Output_!Refreshing, Output_!Told
    <2> QED BY <1>0, <1>2, <2>1, <2>2, <2>3 DEF Output_!GhostMarked
  <1> QED BY <1>3, <1>5, <1>6, <1>7, <1>8, <1>9, OutputSettlesNext

(* The refresh of the manifests: output that is gone leaves the cache, what *)
(* was announced is read again or marked.                                   *)
LEMMA ManifestsKeepOutput ==
    ASSUME Output_!BoundsAssumption, Output_!SavedOutputInv,
         Output_!RefreshManifests \/ Output_!EndRefresh
    PROVE  Output_!SavedOutputInv'
  <1>0. /\ Output_!TypeOK /\ Output_!ListsInOrder /\ Output_!AbsentGone /\ Output_!ReadsInOrder
             /\ Output_!ListTold /\ Output_!OutputComing
        /\ Output_!GhostMarked
    BY DEF Output_!SavedOutputInv
  <1>t. list.id \in Output_!Ids /\ tab.id \in Output_!Ids
    BY <1>0, OutputTypes
  <1>1. CASE Output_!EndRefresh
    <2>1. /\ stage = "manifest" /\ waits = {} /\ stage' = "idle"
          /\ UNCHANGED <<tab, running, mine, others, events, pending, scope, prior, waits, list>>
          /\ UNCHANGED <<listFetch, output, stale, outFetch, displayed, clear, clears, absent>>
      BY <1>1 DEF Output_!EndRefresh, Output_!project, Output_!tabs, Output_!manifests,
           Output_!clearing
    <2>2. Output_!TypeOK'
      BY <1>0, <2>1 DEF Output_!TypeOK
    <2>3. Output_!ListsInOrder' /\ Output_!AbsentGone' /\ Output_!ReadsInOrder' /\ Output_!ListTold'
      BY <1>0, <2>1 DEF Output_!ListsInOrder, Output_!AbsentGone, Output_!ReadsInOrder,
           Output_!ListTold, Output_!Past, Output_!Empty, Output_!Gone, Output_!Over,
           Output_!Told, Output_!Delivered
    <2>4. Output_!OutputComing' /\ Output_!GhostMarked'
      BY <1>0, <2>1 DEF Output_!OutputComing, Output_!GhostMarked, Output_!Refreshing, Output_!Told
    <2> QED BY <2>2, <2>3, <2>4, OutputSettlesNext
  <1>2. CASE Output_!RefreshManifests
    <2> DEFINE gone == {i \in Output_!Ids : (i = list.id /\ ~list.has) \/ (i = prior
         /\ i # list.id)}
               again == {i \in scope \ gone : displayed /\ Output_!ownsOutput(list, i)}
    <2>1. /\ stage = "tabs" /\ stage' = "manifest" /\ waits' = again
          /\ output' = [i \in Output_!Ids |-> IF i \in gone THEN "unread" ELSE output[i]]
          /\ stale' = {i \in (stale \cup scope) \ gone : output[i] # "unread"}
          /\ outFetch' = [i \in Output_!Ids |-> IF i \in again THEN Output_!Refetch(outFetch, i)
                                        ELSE IF i \in gone THEN Output_!Idle ELSE outFetch[i]]
          /\ UNCHANGED <<tab, running, mine, others, events, pending, scope, prior, list>>
          /\ UNCHANGED <<listFetch, displayed, clear, clears, absent>>
      BY <1>2 DEF Output_!RefreshManifests, Output_!project, Output_!tabs, Output_!clearing
    <2>a. again \subseteq Output_!Ids /\ \A i \in again : i = list.id /\ list.has /\ displayed
         /\ i \in scope
      BY <1>0 DEF Output_!TypeOK, Output_!ownsOutput
    <2>b. \A i : i = list.id /\ list.has => i \notin gone
      OBVIOUS
    <2>c. displayed /\ list.has /\ list.id \in scope => list.id \in again
      BY <2>b DEF Output_!ownsOutput
    <2> HIDE DEF gone, again
    <2>f. /\ outFetch' \in [Output_!Ids -> {Output_!Idle, Output_!Sent}
               \cup {Output_!Answer(q) : q \in {"shown", "null", "error"}}]
          /\ \A i \in Output_!Ids \ again : outFetch'[i] = outFetch[i] \/ (i \in gone
               /\ outFetch'[i] = Output_!Idle)
          /\ \A i \in again : outFetch'[i] # Output_!Idle /\ outFetch'[i] \in {outFetch[i],
               Output_!Sent}
      <3>1. \A i \in Output_!Ids : outFetch[i] \in {Output_!Idle, Output_!Sent}
           \cup {Output_!Answer(q) : q \in {"shown", "null", "error"}}
        BY <1>0 DEF Output_!TypeOK
      <3>2. \A i : Output_!Refetch(outFetch, i) # Output_!Idle
           /\ Output_!Refetch(outFetch, i) \in {outFetch[i], Output_!Sent}
        BY DEF Output_!Refetch, Output_!Sent, Output_!Idle
      <3> QED BY <2>1, <2>a, <3>1, <3>2
    <2>o. /\ output' \in [Output_!Ids -> {"unread", "shown", "null"}]
          /\ \A i \in Output_!Ids : output'[i] = IF i \in gone THEN "unread" ELSE output[i]
      BY <1>0, <2>1 DEF Output_!TypeOK
    <2>2. Output_!TypeOK'
      <3>1. waits' \subseteq Output_!Ids \cup {Output_!List} /\ stale' \subseteq Output_!Ids
        BY <1>0, <2>1, <2>a DEF Output_!TypeOK
      <3> QED BY <1>0, <2>1, <2>f, <2>o, <3>1 DEF Output_!TypeOK
    <2>3. Output_!ListsInOrder' /\ Output_!AbsentGone' /\ Output_!ListTold'
      BY <1>0, <2>1 DEF Output_!ListsInOrder, Output_!AbsentGone, Output_!ListTold, Output_!Past,
           Output_!Empty, Output_!Gone, Output_!Told, Output_!Delivered
    <2>4. Output_!ReadsInOrder'
      <3> SUFFICES ASSUME NEW i \in Output_!Ids
                   PROVE  /\ outFetch'[i] # Output_!Idle => Output_!Past(i)
                               /\ (Output_!ownsOutput(list, i) \/ Output_!Over(i))
                          /\ outFetch'[i] = Output_!Answer("null") => Output_!Empty(i)
                          /\ outFetch'[i] = Output_!Answer("error") => i < tab.id
                          /\ outFetch'[i] = Output_!Answer("shown") /\ i = tab.id /\ ~tab.has
                               => Output_!Told(i)
                          /\ output'[i] # "unread" => Output_!Past(i)
                          /\ output'[i] = "null" => Output_!Over(i)
        BY <2>1 DEF Output_!ReadsInOrder, Output_!Past, Output_!Empty, Output_!Over, Output_!Gone,
             Output_!Told, Output_!Delivered
      <3>1. (output'[i] # "unread" => Output_!Past(i)) /\ (output'[i] = "null" => Output_!Over(i))
        BY <1>0, <2>o DEF Output_!ReadsInOrder
      <3>2. CASE outFetch'[i] = outFetch[i]
        BY <1>0, <3>1, <3>2 DEF Output_!ReadsInOrder
      <3>3. CASE outFetch'[i] = Output_!Idle
        <4>1. \A q : outFetch'[i] # Output_!Answer(q)
          BY <3>3 DEF Output_!Idle, Output_!Answer
        <4> QED BY <3>1, <3>3, <4>1
      <3>4. CASE i \in again /\ outFetch'[i] = Output_!Sent
        <4>1. \A q : outFetch'[i] # Output_!Answer(q)
          BY <3>4 DEF Output_!Sent, Output_!Answer
        <4>2. Output_!Past(i) /\ Output_!ownsOutput(list, i)
          BY <1>0, <2>a, <3>4 DEF Output_!ListsInOrder, Output_!ownsOutput
        <4> QED BY <3>1, <4>1, <4>2
      <3> QED BY <2>f, <3>2, <3>3, <3>4
    <2>5. Output_!OutputComing'
      <3> SUFFICES ASSUME displayed, list.has
                   PROVE  \/ output'[list.id] = "shown" \/ outFetch'[list.id] # Output_!Idle
                          \/ Output_!Told(list.id)
                          \/ clear # <<"none">> /\ clear[2] = list.id
                          \/ list.id < tab.id
        BY <2>1 DEF Output_!OutputComing, Output_!Refreshing, Output_!Told
      <3>1. CASE list.id \in scope
        BY <2>c, <2>f, <3>1
      <3>2. CASE list.id \notin scope
        <4>1. list.id \notin gone /\ list.id \notin again
          BY <2>a, <2>b, <3>2
        <4>2. output'[list.id] = output[list.id] /\ outFetch'[list.id] = outFetch[list.id]
          BY <1>t, <2>f, <2>o, <4>1
        <4> QED BY <1>0, <3>2, <4>2 DEF Output_!OutputComing, Output_!Refreshing
      <3> QED BY <3>1, <3>2
    <2>6. Output_!GhostMarked'
      <3> SUFFICES ASSUME output'[tab.id] = "shown", ~tab.has
                   PROVE  tab.id \in stale' \/ Output_!Told(tab.id)
        BY <2>1 DEF Output_!GhostMarked, Output_!Refreshing, Output_!Told
      <3>1. tab.id \notin gone /\ output[tab.id] = "shown"
        BY <1>t, <2>o
      <3> QED BY <1>0, <2>1, <3>1 DEF Output_!GhostMarked, Output_!Refreshing
    <2> QED BY <2>2, <2>3, <2>4, <2>5, <2>6, OutputSettlesNext
  <1> QED BY <1>1, <1>2

(* Asking for a Clear, and its way to the project, keep the invariant.      *)
LEMMA ClearKeepsOutput ==
    ASSUME Output_!BoundsAssumption, Output_!SavedOutputInv,
           Output_!clearSavedAnalysis \/ Output_!AdmitClear \/ Output_!LoseClear
    PROVE  Output_!SavedOutputInv'
  <1>0. /\ Output_!TypeOK /\ Output_!ListsInOrder /\ Output_!AbsentGone /\ Output_!ReadsInOrder
             /\ Output_!ListTold /\ Output_!OutputComing
        /\ Output_!GhostMarked
    BY DEF Output_!SavedOutputInv
  <1>t. list.id \in Output_!Ids /\ tab.id \in Output_!Ids
    BY <1>0, OutputTypes
  <1>1. CASE Output_!clearSavedAnalysis
    <2>1. /\ clear = <<"none">> /\ clears < MaxClears /\ list.has /\ clears' = clears + 1
          /\ clear' = <<"sent", list.id>> /\ outFetch' = [outFetch EXCEPT ![list.id] = Output_!Idle]
          /\ waits' = waits \ {list.id}
          /\ UNCHANGED <<tab, running, mine, others, events, pending, stage, scope, prior>>
          /\ UNCHANGED <<list, listFetch, output, stale, displayed, absent>>
      BY <1>1 DEF Output_!clearSavedAnalysis, Output_!project, Output_!tabs
    <2>f. /\ outFetch' \in [Output_!Ids -> {Output_!Idle, Output_!Sent}
               \cup {Output_!Answer(q) : q \in {"shown", "null", "error"}}]
          /\ outFetch'[list.id] = Output_!Idle
               /\ \A i \in Output_!Ids \ {list.id} : outFetch'[i] = outFetch[i]
      BY <1>0, <1>t, <2>1 DEF Output_!TypeOK
    <2>2. Output_!TypeOK'
      <3>1. clears' \in 0..MaxClears
        <4>1. clears \in Nat /\ MaxClears \in Nat
          BY <1>0, OutputTypes DEF Output_!TypeOK
        <4> QED BY <2>1, <4>1
      <3>2. clear' \in {"sent", "admitted", "done", "failed"} \X Output_!Ids
        BY <1>t, <2>1
      <3>3. waits' \subseteq Output_!Ids \cup {Output_!List} /\ (stage' = "idle" => waits' = {})
        BY <1>0, <2>1 DEF Output_!TypeOK
      <3> QED BY <1>0, <2>1, <2>f, <3>1, <3>2, <3>3 DEF Output_!TypeOK
    <2>3. Output_!ListsInOrder' /\ Output_!ListTold' /\ Output_!GhostMarked'
      BY <1>0, <2>1 DEF Output_!ListsInOrder, Output_!ListTold, Output_!GhostMarked, Output_!Past,
           Output_!Empty, Output_!Told, Output_!Refreshing, Output_!Delivered
    <2>4. Output_!AbsentGone'
      <3>1. clear'[1] # "done" /\ clear'[2] = list.id
        BY <2>1
      <3>2. Output_!Past(list.id)
        BY <1>0, <2>1 DEF Output_!ListsInOrder
      <3>3. Output_!Past(clear[2])'
        BY <2>1, <3>1, <3>2 DEF Output_!Past
      <3>4. \A i \in absent' : Output_!Gone(i)'
        BY <1>0, <2>1 DEF Output_!AbsentGone, Output_!Gone, Output_!Empty, Output_!Past,
             Output_!Delivered
      <3> QED BY <3>1, <3>3, <3>4 DEF Output_!AbsentGone
    <2>5. Output_!ReadsInOrder'
      <3> SUFFICES ASSUME NEW i \in Output_!Ids
                   PROVE  /\ outFetch'[i] # Output_!Idle => Output_!Past(i)
                               /\ (Output_!ownsOutput(list, i) \/ Output_!Over(i))
                          /\ outFetch'[i] = Output_!Answer("null") => Output_!Empty(i)
                          /\ outFetch'[i] = Output_!Answer("error") => i < tab.id
                          /\ outFetch'[i] = Output_!Answer("shown") /\ i = tab.id /\ ~tab.has
                               => Output_!Told(i)
                          /\ output[i] # "unread" => Output_!Past(i)
                          /\ output[i] = "null" => Output_!Over(i)
        BY <2>1 DEF Output_!ReadsInOrder, Output_!Past, Output_!Empty, Output_!Over, Output_!Gone,
             Output_!Told, Output_!Delivered
      <3>1. CASE outFetch'[i] = outFetch[i]
        BY <1>0, <3>1 DEF Output_!ReadsInOrder
      <3>2. CASE outFetch'[i] = Output_!Idle
        <4>1. \A q : outFetch'[i] # Output_!Answer(q)
          BY <3>2 DEF Output_!Idle, Output_!Answer
        <4> QED BY <1>0, <3>2, <4>1 DEF Output_!ReadsInOrder
      <3> QED BY <2>f, <3>1, <3>2
    <2>6. Output_!OutputComing'
      BY <2>1 DEF Output_!OutputComing
    <2> QED BY <2>2, <2>3, <2>4, <2>5, <2>6, OutputSettlesNext
  <1>2. CASE Output_!AdmitClear \/ Output_!LoseClear
    <2>1. /\ clear # <<"none">> /\ clear[2] \in Output_!Ids
          /\ clear' # <<"none">> /\ clear'[2] = clear[2] /\ clear'[1] # "done"
          /\ clear' \in {"sent", "admitted", "done", "failed"} \X Output_!Ids
      <3>1. clear[1] \in {"sent", "done"}
        BY <1>2 DEF Output_!AdmitClear, Output_!LoseClear
      <3>2. clear # <<"none">> /\ clear[2] \in Output_!Ids
        BY <1>0, <3>1 DEF Output_!TypeOK
      <3>3. clear' = <<"admitted", clear[2]>> \/ clear' = <<"failed", clear[2]>>
        BY <1>2 DEF Output_!AdmitClear, Output_!LoseClear
      <3> QED BY <3>2, <3>3
    <2>2. /\ UNCHANGED <<tab, running, mine, others, events, pending, stage, scope, prior, waits>>
          /\ UNCHANGED <<list, listFetch, output, stale, outFetch, displayed, clears, absent>>
      BY <1>2 DEF Output_!AdmitClear, Output_!LoseClear, Output_!project, Output_!observer,
           Output_!tabs, Output_!manifests
    <2>3. Output_!TypeOK'
      BY <1>0, <2>1, <2>2 DEF Output_!TypeOK
    <2>4. Output_!ListsInOrder' /\ Output_!ListTold' /\ Output_!GhostMarked'
         /\ Output_!ReadsInOrder'
      BY <1>0, <2>2 DEF Output_!ListsInOrder, Output_!ListTold, Output_!GhostMarked,
           Output_!ReadsInOrder, Output_!Past, Output_!Empty, Output_!Over, Output_!Gone,
           Output_!Told, Output_!Refreshing, Output_!Delivered
    <2>5. Output_!AbsentGone'
      <3>1. Output_!Past(clear[2])'
        BY <1>0, <2>1, <2>2 DEF Output_!AbsentGone, Output_!Past
      <3>2. \A i \in absent' : Output_!Gone(i)'
        BY <1>0, <2>2 DEF Output_!AbsentGone, Output_!Gone, Output_!Empty, Output_!Past,
             Output_!Delivered
      <3> QED BY <2>1, <3>1, <3>2 DEF Output_!AbsentGone
    <2>6. Output_!OutputComing'
      BY <1>0, <2>1, <2>2 DEF Output_!OutputComing, Output_!Refreshing, Output_!Told
    <2> QED BY <2>3, <2>4, <2>5, <2>6, OutputSettlesNext
  <1> QED BY <1>1, <1>2

(* The end of a Clear keeps the invariant: a failed one resumes the reads   *)
(* it cancelled, a successful one outdates the list's.                      *)
LEMMA EndedClearKeepsOutput ==
    ASSUME Output_!BoundsAssumption, Output_!SavedOutputInv,
         Output_!ClearFailed \/ Output_!ClearDone
    PROVE  Output_!SavedOutputInv'
  <1>0. /\ Output_!TypeOK /\ Output_!ListsInOrder /\ Output_!AbsentGone /\ Output_!ReadsInOrder
             /\ Output_!ListTold /\ Output_!OutputComing
        /\ Output_!GhostMarked
    BY DEF Output_!SavedOutputInv
  <1>t. list.id \in Output_!Ids /\ tab.id \in Output_!Ids /\ list \in Output_!Tab
    BY <1>0, OutputTypes DEF Output_!TypeOK
  <1>1. PICK c \in Output_!Ids : c = clear[2] /\ Output_!Past(c) /\ clear # <<"none">>
                         /\ (clear[1] = "done" => Output_!Empty(c))
    <2>1. clear # <<"none">> /\ clear[2] \in Output_!Ids
      <3>1. clear[1] \in {"failed", "done"}
        BY DEF Output_!ClearFailed, Output_!ClearDone
      <3> QED BY <1>0, <3>1 DEF Output_!TypeOK
    <2> QED BY <1>0, <2>1 DEF Output_!AbsentGone
  <1>2. CASE Output_!ClearFailed
    <2>1. /\ stale' = IF output[c] = "unread" THEN stale ELSE stale \cup {c}
          /\ outFetch' = IF displayed /\ Output_!ownsOutput(list, c)
                         THEN [outFetch EXCEPT ![c] = Output_!Refetch(outFetch, c)] ELSE outFetch
          /\ clear' = <<"none">>
          /\ UNCHANGED <<tab, running, mine, others, events, pending, stage, scope, prior, waits>>
          /\ UNCHANGED <<list, listFetch, output, displayed, clears, absent>>
      BY <1>1, <1>2 DEF Output_!ClearFailed, Output_!project, Output_!observer, Output_!tabs
    <2>f. /\ outFetch' \in [Output_!Ids -> {Output_!Idle, Output_!Sent}
               \cup {Output_!Answer(q) : q \in {"shown", "null", "error"}}]
          /\ \A i \in Output_!Ids : outFetch'[i] = outFetch[i] \/ (i = c
               /\ Output_!ownsOutput(list, c) /\ outFetch'[i] = Output_!Sent)
          /\ displayed /\ Output_!ownsOutput(list, c) => outFetch'[c] # Output_!Idle
      <3>1. \A i \in Output_!Ids : outFetch[i] \in {Output_!Idle, Output_!Sent}
           \cup {Output_!Answer(q) : q \in {"shown", "null", "error"}}
        BY <1>0 DEF Output_!TypeOK
      <3>2. Output_!Refetch(outFetch, c) # Output_!Idle /\ Output_!Refetch(outFetch,
           c) \in {outFetch[c], Output_!Sent}
        BY DEF Output_!Refetch, Output_!Sent, Output_!Idle
      <3>3. outFetch \in [Output_!Ids -> {Output_!Idle, Output_!Sent}
           \cup {Output_!Answer(q) : q \in {"shown", "null", "error"}}]
        BY <1>0 DEF Output_!TypeOK
      <3> QED BY <2>1, <3>1, <3>2, <3>3
    <2>2. Output_!TypeOK'
      <3>1. stale' \subseteq Output_!Ids
        BY <1>0, <2>1 DEF Output_!TypeOK
      <3> QED BY <1>0, <2>1, <2>f, <3>1 DEF Output_!TypeOK
    <2>3. Output_!ListsInOrder' /\ Output_!ListTold'
      BY <1>0, <2>1 DEF Output_!ListsInOrder, Output_!ListTold, Output_!Past, Output_!Empty,
           Output_!Told, Output_!Delivered
    <2>4. Output_!AbsentGone' /\ Output_!GhostMarked'
      BY <1>0, <2>1 DEF Output_!AbsentGone, Output_!GhostMarked, Output_!Gone, Output_!Empty,
           Output_!Past, Output_!Told, Output_!Refreshing, Output_!Delivered
    <2>5. Output_!ReadsInOrder'
      <3> SUFFICES ASSUME NEW i \in Output_!Ids
                   PROVE  /\ outFetch'[i] # Output_!Idle => Output_!Past(i)
                               /\ (Output_!ownsOutput(list, i) \/ Output_!Over(i))
                          /\ outFetch'[i] = Output_!Answer("null") => Output_!Empty(i)
                          /\ outFetch'[i] = Output_!Answer("error") => i < tab.id
                          /\ outFetch'[i] = Output_!Answer("shown") /\ i = tab.id /\ ~tab.has
                               => Output_!Told(i)
                          /\ output[i] # "unread" => Output_!Past(i)
                          /\ output[i] = "null" => Output_!Over(i)
        BY <2>1 DEF Output_!ReadsInOrder, Output_!Past, Output_!Empty, Output_!Over, Output_!Gone,
             Output_!Told, Output_!Delivered
      <3>1. CASE outFetch'[i] = outFetch[i]
        BY <1>0, <3>1 DEF Output_!ReadsInOrder
      <3>2. CASE i = c /\ Output_!ownsOutput(list, c) /\ outFetch'[i] = Output_!Sent
        <4>1. \A q : outFetch'[i] # Output_!Answer(q)
          BY <3>2 DEF Output_!Sent, Output_!Answer
        <4> QED BY <1>0, <1>1, <3>2, <4>1 DEF Output_!ReadsInOrder
      <3> QED BY <2>f, <3>1, <3>2
    <2>6. Output_!OutputComing'
      <3> SUFFICES ASSUME displayed, list.has
                   PROVE  \/ output[list.id] = "shown" \/ outFetch'[list.id] # Output_!Idle
                          \/ Output_!Refreshing(list.id) \/ list.id < tab.id
        BY <2>1 DEF Output_!OutputComing, Output_!Refreshing, Output_!Told
      <3>1. CASE list.id = c
        BY <2>f, <3>1 DEF Output_!ownsOutput
      <3>2. CASE list.id # c
        BY <1>0, <1>1, <1>t, <2>f, <3>2 DEF Output_!OutputComing
      <3> QED BY <3>1, <3>2
    <2> QED BY <2>2, <2>3, <2>4, <2>5, <2>6, OutputSettlesNext
  <1>3. CASE Output_!ClearDone
    <2>1. /\ Output_!Empty(c) /\ list' = Output_!markOutputAbsent(list, c) /\ absent' = absent
               \cup {c}
          /\ output' = [output EXCEPT ![c] = "unread"] /\ stale' = stale \ {c}
          /\ outFetch' = [outFetch EXCEPT ![c] = Output_!Idle] /\ waits' = waits \ {Output_!List, c}
          /\ listFetch' = Output_!Sent /\ clear' = <<"none">>
          /\ UNCHANGED <<tab, running, mine, others, events, pending, stage, scope, prior>>
          /\ UNCHANGED <<displayed, clears>>
      BY <1>1, <1>3 DEF Output_!ClearDone, Output_!project
    <2>f. /\ outFetch' \in [Output_!Ids -> {Output_!Idle, Output_!Sent}
               \cup {Output_!Answer(q) : q \in {"shown", "null", "error"}}]
          /\ outFetch'[c] = Output_!Idle /\ \A i \in Output_!Ids \ {c} : outFetch'[i] = outFetch[i]
          /\ output' \in [Output_!Ids -> {"unread", "shown", "null"}]
          /\ output'[c] = "unread" /\ \A i \in Output_!Ids \ {c} : output'[i] = output[i]
      BY <1>0, <2>1 DEF Output_!TypeOK
    <2>l. /\ list' \in Output_!Tab /\ list'.id = list.id /\ ~Output_!ownsOutput(list', c)
          /\ \A j : Output_!ownsOutput(list', j) <=> Output_!ownsOutput(list, j) /\ j # c
          /\ list'.has => list.has /\ list.id # c /\ list' = list
      BY <1>t, <2>1, MarkedAbsent
    <2>2. Output_!TypeOK'
      <3>1. /\ waits' \subseteq Output_!Ids \cup {Output_!List} /\ (stage' = "idle" => waits' = {})
            /\ stale' \subseteq Output_!Ids /\ absent' \subseteq Output_!Ids
        BY <1>0, <2>1 DEF Output_!TypeOK
      <3> QED BY <1>0, <2>1, <2>f, <2>l, <3>1 DEF Output_!TypeOK
    <2>3. ~Output_!Delivered' /\ listFetch' # Output_!Idle
      BY <2>1 DEF Output_!Delivered, Output_!Sent, Output_!Idle
    <2>g. ASSUME NEW i
          PROVE  (Output_!Gone(i) => Output_!Gone(i)') /\ (Output_!Over(i) => Output_!Over(i)')
               /\ Output_!Gone(c)'
      <3>1. Output_!Gone(i) => Output_!Gone(i)'
        BY <2>1, <2>l, <2>3 DEF Output_!Gone, Output_!Empty, Output_!Past
      <3>2. Output_!Gone(c)'
        BY <2>1, <2>l, <2>3 DEF Output_!Gone, Output_!Empty, Output_!Past
      <3> QED BY <2>l, <3>1, <3>2 DEF Output_!Over
    <2>4. Output_!ListsInOrder' /\ Output_!ListTold'
      <3>1. list'.id <= tab.id /\ (list'.has => Output_!Past(list.id))
        BY <1>0, <2>l DEF Output_!ListsInOrder
      <3> QED BY <1>0, <2>1, <2>l, <2>3, <3>1 DEF Output_!ListsInOrder, Output_!Past,
                   Output_!ListTold
    <2>5. Output_!AbsentGone'
      <3>1. \A i \in absent' : Output_!Gone(i)'
        BY <1>0, <2>1, <2>g DEF Output_!AbsentGone
      <3> QED BY <2>1, <3>1 DEF Output_!AbsentGone
    <2>6. Output_!ReadsInOrder'
      <3> SUFFICES ASSUME NEW i \in Output_!Ids
                   PROVE  /\ outFetch'[i] # Output_!Idle => Output_!Past(i)
                               /\ (Output_!ownsOutput(list', i) \/ Output_!Over(i)')
                          /\ outFetch'[i] = Output_!Answer("null") => Output_!Empty(i)
                          /\ outFetch'[i] = Output_!Answer("error") => i < tab.id
                          /\ outFetch'[i] = Output_!Answer("shown") /\ i = tab.id /\ ~tab.has
                               => Output_!Told(i)
                          /\ output'[i] # "unread" => Output_!Past(i)
                          /\ output'[i] = "null" => Output_!Over(i)'
        BY <2>1 DEF Output_!ReadsInOrder, Output_!Past, Output_!Empty, Output_!Told
      <3>1. CASE i # c
        <4>1. outFetch'[i] = outFetch[i] /\ output'[i] = output[i]
          BY <2>f, <3>1
        <4>2. (Output_!ownsOutput(list, i) => Output_!ownsOutput(list', i)) /\ (Output_!Over(i)
             => Output_!Over(i)')
          BY <2>g, <2>l, <3>1
        <4> QED BY <1>0, <4>1, <4>2 DEF Output_!ReadsInOrder
      <3>2. CASE i = c
        BY <2>f, <3>2 DEF Output_!Idle, Output_!Answer
      <3> QED BY <3>1, <3>2
    <2>7. Output_!OutputComing'
      <3> SUFFICES ASSUME displayed, list'.has
                   PROVE  \/ output'[list.id] = "shown" \/ outFetch'[list.id] # Output_!Idle
                          \/ Output_!Refreshing(list.id) \/ list.id < tab.id
        BY <2>1, <2>l DEF Output_!OutputComing, Output_!Refreshing, Output_!Told
      <3> QED BY <1>0, <1>1, <1>t, <2>f, <2>l DEF Output_!OutputComing
    <2>8. Output_!GhostMarked'
      <3> SUFFICES ASSUME output'[tab.id] = "shown", ~tab.has
                   PROVE  tab.id \in stale' \/ Output_!Refreshing(tab.id)
        BY <2>1 DEF Output_!GhostMarked, Output_!Refreshing, Output_!Told
      <3>1. tab.id # c
        BY <2>f
      <3> QED BY <1>0, <1>t, <2>1, <2>f, <3>1 DEF Output_!GhostMarked
    <2> QED BY <2>2, <2>4, <2>5, <2>6, <2>7, <2>8, OutputSettlesNext
  <1> QED BY <1>2, <1>3

(* What the window shows of an analysis' output is true, or it will be told *)
(* better: an analysis known to be empty does not get its output back from  *)
(* an older read, no panel is left without its output by a read that was    *)
(* cancelled or a Clear that failed, and nothing cleared is displayed.      *)
THEOREM OutputStaysTrue == Spec => []OutputIsTrue
  <1>0. Output_!BoundsAssumption
    BY CachesAssumption
  <1>1. ASSUME Init PROVE OutputIsTrue
    BY <1>0, <1>1, OutputInit DEF Init, OutputIsTrue
  <1>2. ASSUME OutputIsTrue, [Next]_vars PROVE OutputIsTrue'
    <2>0. part' = part
      BY <1>2 DEF Next, vars
    <2>1. ASSUME part = "output" PROVE Output_!SavedOutputInv'
      <3>0. Output_!SavedOutputInv
        BY <1>2, <2>1 DEF OutputIsTrue
      <3>1. Output_!Next \/ UNCHANGED Output_!vars
        BY <1>2, <2>1 DEF Next, vars, outputs, Output_!vars, Output_!project, Output_!observer,
             Output_!tabs, Output_!manifests, Output_!clearing
      <3>2. CASE UNCHANGED Output_!vars
        <4>1. /\ UNCHANGED <<tab, running, mine, others, events, pending, stage, scope, prior>>
              /\ UNCHANGED <<waits, list, listFetch, output, stale, outFetch, displayed, clear>>
              /\ UNCHANGED <<clears, absent>>
          BY <3>2 DEF Output_!vars, Output_!project, Output_!observer, Output_!tabs,
               Output_!manifests, Output_!clearing
        <4>2. /\ Output_!TypeOK' /\ Output_!ListsInOrder' /\ Output_!AbsentGone'
              /\ Output_!ReadsInOrder' /\ Output_!ListTold'
          BY <3>0, <4>1 DEF Output_!SavedOutputInv, Output_!TypeOK, Output_!ListsInOrder,
               Output_!AbsentGone, Output_!ReadsInOrder, Output_!ListTold, Output_!Past,
               Output_!Empty, Output_!Gone, Output_!Over, Output_!Told, Output_!Delivered
        <4>3. Output_!OutputComing' /\ Output_!GhostMarked'
          BY <3>0, <4>1 DEF Output_!SavedOutputInv, Output_!OutputComing, Output_!GhostMarked,
               Output_!Refreshing, Output_!Told
        <4> QED BY <1>0, <4>2, <4>3, OutputSettlesNext
      <3>3. CASE \/ \E own \in BOOLEAN : Output_!begin_analysis_run(own)
                 \/ Output_!publish_analysis \/ Output_!FailRun \/ Output_!update_analysis_tab
                 \/ Output_!ClearElsewhere \/ Output_!clear_analysis_tab
        BY <1>0, <3>0, <3>3, ProjectKeepsOutput
      <3>4. CASE Output_!Activate \/ Output_!RunSettled \/ Output_!ReadList \/ Output_!DeliverList
        BY <1>0, <3>0, <3>4, PanelKeepsOutput, ListReadsKeepOutput
      <3>5. CASE \E i \in Output_!Ids : Output_!ReadOutput(i) \/ Output_!AnswerOutput(i)
        BY <1>0, <3>0, <3>5, ManifestIsRead, ManifestKeepsOutput
      <3>6. CASE \/ Output_!Collect \/ Output_!RefreshTabs
                 \/ Output_!RefreshManifests \/ Output_!EndRefresh
        BY <1>0, <3>0, <3>6, CollectKeepsOutput, RefreshKeepsOutput, ManifestsKeepOutput
      <3>7. CASE \/ Output_!clearSavedAnalysis \/ Output_!AdmitClear \/ Output_!LoseClear
                 \/ Output_!ClearFailed \/ Output_!ClearDone
        BY <1>0, <3>0, <3>7, ClearKeepsOutput, EndedClearKeepsOutput
      <3> QED BY <3>1, <3>2, <3>3, <3>4, <3>5, <3>6, <3>7 DEF Output_!Next
    <2> QED BY <2>0, <2>1 DEF OutputIsTrue
  <1> QED BY <1>1, <1>2, PTL DEF Spec
=============================================================================
