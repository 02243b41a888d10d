---------------------------- MODULE RuntimeLocks ----------------------------
(***************************************************************************)
(* Lemmas about the two locks of Runtime: how a line changes when an actor *)
(* joins or leaves it, and that every step keeps LinesInv and GuardsHeld.  *)
(***************************************************************************)
EXTENDS Runtime, TLAPS, SequenceTheorems

\* How a line changes when a joins it at the end, and when a leaves it.
Joins(old, new, a) ==
    /\ new \in Seq(Actor)
    /\ IsInjective(new)
    /\ Range(new) = Range(old) \cup {a}
    /\ Ahead(new, a) = Range(old)
    /\ \A x \in Range(old) : Ahead(new, x) = Ahead(old, x)

Leaves(old, new, a) ==
    /\ new \in Seq(Actor)
    /\ IsInjective(new)
    /\ Range(new) = Range(old) \ {a}
    /\ \A x \in Range(new) : Ahead(new, x) = Ahead(old, x) \ {a}

\* Waiting for a lock: a place at the end of its line.
LEMMA AppendJoins ==
  ASSUME NEW line \in Seq(Actor), NEW a \in Actor, IsInjective(line), a \notin Range(line)
  PROVE  Joins(line, Append(line, a), a)
  <1> DEFINE new == Append(line, a)
             n == Len(line)
  <1>1. /\ new \in Seq(Actor)
        /\ n \in Nat
        /\ DOMAIN line = 1..n
        /\ DOMAIN new = 1..n + 1
        /\ \A i \in 1..n : new[i] = line[i]
        /\ new[n + 1] = a
    BY AppendProperties, LenProperties
  <1> HIDE DEF new, n
  <1>2. IsInjective(new)
    BY <1>1 DEF IsInjective, Range
  <1>3. Range(new) = Range(line) \cup {a}
    BY <1>1 DEF Range
  <1>4. Ahead(new, a) = Range(line)
    BY <1>1 DEF Range, Ahead
  <1>5. ASSUME NEW x \in Range(line)
        PROVE  Ahead(new, x) = Ahead(line, x)
    BY <1>1 DEF Range, Ahead
  <1> QED BY <1>1, <1>2, <1>3, <1>4, <1>5 DEF new, Joins

\* Giving up a place: everybody else keeps the order.
LEMMA WithoutLeaves ==
  ASSUME NEW line \in Seq(Actor), NEW a, IsInjective(line)
  PROVE  Leaves(line, Without(line, a), a)
  <1>1. CASE a \notin Range(line)
    BY <1>1 DEF Without, Ahead, Range, Leaves
  <1>2. CASE a \in Range(line)
    <2> DEFINE new == Without(line, a)
               p == CHOOSE i \in DOMAIN line : line[i] = a
               n == Len(line)
    <2>1. /\ n \in Nat
          /\ DOMAIN line = 1..n
          /\ \A i \in 1..n : line[i] \in Actor
      BY LenProperties, ElementOfSeq
    <2>2. p \in 1..n /\ line[p] = a
      BY <1>2, <2>1 DEF Range
    <2>3. new = SubSeq(line, 1, p - 1) \o SubSeq(line, p + 1, n)
      BY <1>2 DEF Without, RemoveAt
    <2> HIDE DEF new, p, n
    <2>4. /\ SubSeq(line, 1, p - 1) \in Seq(Actor)
          /\ Len(SubSeq(line, 1, p - 1)) = p - 1
          /\ \A i \in 1..p - 1 : SubSeq(line, 1, p - 1)[i] = line[i]
      BY <2>1, <2>2 
    <2>5. /\ SubSeq(line, p + 1, n) \in Seq(Actor)
          /\ Len(SubSeq(line, p + 1, n)) = n - p
          /\ \A i \in 1..n - p : SubSeq(line, p + 1, n)[i] = line[p + i]
      BY <2>1, <2>2
    <2>6. /\ new \in Seq(Actor)
          /\ Len(new) = n - 1
          /\ \A i \in 1..n - 1 : new[i] = IF i < p THEN line[i] ELSE line[i + 1]
      <3>1. /\ new \in Seq(Actor)
            /\ Len(new) = (p - 1) + (n - p)
            /\ \A i \in 1..(p - 1) + (n - p) :
                  new[i] = IF i <= p - 1 THEN SubSeq(line, 1, p - 1)[i]
                           ELSE SubSeq(line, p + 1, n)[i - (p - 1)]
        BY <2>3, <2>4, <2>5, ConcatProperties
      <3>2. ASSUME NEW i \in 1..n - 1, ~(i < p)
            PROVE  new[i] = line[i + 1]
        <4>1. new[i] = SubSeq(line, p + 1, n)[i - (p - 1)]
          BY <2>1, <2>2, <3>1, <3>2
        <4>2. i - (p - 1) \in 1..n - p /\ p + (i - (p - 1)) = i + 1
          BY <2>1, <2>2, <3>2
        <4> QED BY <2>5, <4>1, <4>2
      <3>3. ASSUME NEW i \in 1..n - 1, i < p
            PROVE  new[i] = line[i]
        BY <2>1, <2>2, <2>4, <3>1, <3>3
      <3>4. Len(new) = n - 1
        BY <2>1, <2>2, <3>1
      <3> QED BY <3>1, <3>2, <3>3, <3>4
    <2>7. DOMAIN new = 1..n - 1
      BY <2>1, <2>6, LenProperties
    <2> DEFINE old(i) == IF i < p THEN i ELSE i + 1
    <2>8. /\ \A i \in 1..n - 1 : old(i) \in 1..n /\ old(i) # p /\ new[i] = line[old(i)]
          /\ \A i, j \in 1..n - 1 : i < j <=> old(i) < old(j)
          /\ \A i, j \in 1..n - 1 : old(i) = old(j) => i = j
      BY <2>1, <2>2, <2>6
    <2>9. ASSUME NEW i \in 1..n, i # p
          PROVE  \E j \in 1..n - 1 : old(j) = i
      <3>1. CASE i < p
        <4>1. i \in 1..n - 1
          BY <2>1, <2>2, <3>1
        <4> QED BY <3>1, <4>1
      <3>2. CASE i > p
        <4>1. i - 1 \in 1..n - 1 /\ ~(i - 1 < p) /\ (i - 1) + 1 = i
          BY <2>1, <2>2, <3>2
        <4> QED BY <4>1
      <3> QED BY <2>2, <2>9, <3>1, <3>2
    <2> HIDE DEF old
    <2>10. IsInjective(new)
      BY <2>1, <2>7, <2>8 DEF IsInjective
    <2>11. \A i \in 1..n - 1 : new[i] \in Range(line) \ {a}
      BY <2>1, <2>2, <2>8 DEF Range, IsInjective
    <2>12. \A i \in 1..n : i # p => line[i] \in Range(new)
      BY <2>7, <2>8, <2>9 DEF Range
    <2>13. Range(new) = Range(line) \ {a}
      BY <2>1, <2>2, <2>7, <2>11, <2>12 DEF Range
    <2>14. ASSUME NEW x \in Range(new)
           PROVE  Ahead(new, x) = Ahead(line, x) \ {a}
      <3>1. x # a
        BY <2>13
      <3>2. ASSUME NEW i \in 1..n - 1, NEW j \in 1..n - 1, i < j, new[j] = x
            PROVE  new[i] \in Ahead(line, x) \ {a}
        <4>1. old(i) < old(j) /\ new[i] = line[old(i)] /\ line[old(j)] = x
          BY <2>8, <3>2
        <4>2. new[i] \in Ahead(line, x)
          BY <2>1, <2>8, <4>1 DEF Ahead
        <4> QED BY <2>11, <4>2
      <3>3. ASSUME NEW i \in 1..n, NEW j \in 1..n, i < j, line[j] = x, line[i] # a
            PROVE  line[i] \in Ahead(new, x)
        <4>1. i # p /\ j # p
          BY <2>2, <3>1, <3>3
        <4>2. PICK k \in 1..n - 1 : old(k) = i
          BY <2>9, <4>1
        <4>3. PICK m \in 1..n - 1 : old(m) = j
          BY <2>9, <4>1
        <4>4. k < m /\ new[k] = line[i] /\ new[m] = x
          BY <2>8, <3>3, <4>2, <4>3
        <4> QED BY <2>7, <4>4 DEF Ahead
      <3> QED BY <2>1, <2>7, <3>2, <3>3 DEF Ahead
    <2> QED BY <2>6, <2>10, <2>13, <2>14 DEF new, Leaves
  <1> QED BY <1>1, <1>2

\* Of two in a line one is ahead.
LEMMA OrderInLine ==
  ASSUME NEW line \in Seq(Actor)
  PROVE  /\ \A x : Ahead(line, x) \subseteq Range(line)
         /\ \A x, y \in Range(line) : x = y \/ x \in Ahead(line, y) \/ y \in Ahead(line, x)
  BY LenProperties DEF Ahead, Range

\* try_lock on a free mutex.
LEMMA EmptyLine ==
  ASSUME NEW a \in Actor
  PROVE  Range(<<>>) = {} /\ Joins(<<>>, <<a>>, a)
  BY DEF Joins, Ahead, Range, IsInjective
-----------------------------------------------------------------------------
\* Every actor is one thing.
LEMMA Actors ==
  /\ Client \cap (Savers \cup Discarders) = {}
  /\ Savers \cap Discarders = {}
  BY RuntimeAssumption DEF Savers, Discarders

\* One holder of the editor's lock, and a writer holds the lifecycle lock alone.
LEMMA OneEditor ==
  ASSUME TypeOK, NEW a, NEW b, HoldsEditor(a), HoldsEditor(b)
  PROVE  a = b
  BY OrderInLine DEF HoldsEditor, TypeOK

LEMMA WriterAlone ==
  ASSUME TypeOK, NEW a, NEW b, HoldsLifecycle(a), HoldsLifecycle(b), Writes(a)
  PROVE  a = b
  BY OrderInLine DEF HoldsLifecycle, TypeOK

Locks == TypeOK /\ LinesInv /\ GuardsHeld /\ KindsFit

LinesKept == {lifecycle, editor}' \subseteq Seq(Actor) /\ LinesInv' /\ GuardsHeld'
-----------------------------------------------------------------------------
\* What the steps of a client leave alone.
ClientOnly(c) ==
    /\ UNCHANGED <<admissionVars, table, saver, discard, host, closing>>
    /\ pc' = [pc EXCEPT ![c] = pc'[c]] /\ pc'[c] \in Position
    /\ kind' = [kind EXCEPT ![c] = kind'[c]] /\ kind'[c] \in Kinds
    /\ token' = [token EXCEPT ![c] = token'[c]] /\ token'[c] \in BOOLEAN
    /\ stages' = [stages EXCEPT ![c] = stages'[c]] /\ stages'[c] \in 0..MaxStages + 1

ClientMoves(c) ==
    \/ \E k \in Requests : operation(c, k)
    \/ \E k \in StageKinds : Stage(c, k)
    \/ Submit(c) \/ CancelTask(c)
    \/ ClientStep(c)

\* A client moves only itself.
LEMMA ClientsAlone ==
  ASSUME TypeOK, NEW c \in Client, ClientMoves(c)
  PROVE  ClientOnly(c)
  <1> USE DEF ClientOnly, Go, Position, Kinds, TypeOK, admissionVars
  <1>0. MaxStages \in Nat /\ Requests \subseteq Kinds
    BY RuntimeAssumption DEF RunKinds, EditorKinds
  <1> USE <1>0
  <1>1. CASE EndTask(c) BY <1>1 DEF EndTask
  <1>2. CASE Line(c) BY <1>2 DEF Line, Others
  <1>3. CASE with_editor(c) BY <1>3 DEF with_editor, Others
  <1>4. CASE begin_editor(c) BY <1>4 DEF begin_editor, Others, Refuse, Drop
  <1>5. CASE snapshot(c) BY <1>5 DEF snapshot, Others, Refuse, Drop
  <1>6. CASE GetEditor(c) BY <1>6 DEF GetEditor, Others
  <1>7. CASE Abandon(c) BY <1>7 DEF Abandon, Others, Refuse, Drop
  <1>8. CASE GetLife(c) BY <1>8 DEF GetLife, Others
  <1>9. CASE Protection_refuses(c) BY <1>9 DEF Protection_refuses, Others, Refuse, Drop
  <1>10. CASE ready(c) BY <1>10 DEF ready, Others, Refuse, Drop
  <1>11. CASE Enter(c) BY <1>11 DEF Enter, Others, Refuse, Drop
  <1>12. CASE Leave(c) BY <1>12 DEF Leave, Others, Drop
  <1>13. CASE End(c) BY <1>13 DEF End, RunKinds
  <1>14. CASE CancelTask(c) BY <1>14 DEF CancelTask
  <1>15. ASSUME NEW k \in StageKinds, Stage(c, k)
         PROVE  ClientOnly(c)
    BY <1>15 DEF Stage, StageKinds, RunKinds
  <1>16. ASSUME NEW k \in Requests, operation(c, k)
         PROVE  ClientOnly(c)
    BY <1>16 DEF operation
  <1>17. CASE Submit(c) BY <1>17 DEF Submit
  <1> QED
    BY <1>1, <1>2, <1>3, <1>4, <1>5, <1>6, <1>7, <1>8, <1>9, <1>10, <1>11, <1>12,
       <1>13, <1>14, <1>15, <1>16, <1>17 DEF ClientMoves, ClientStep

\* The drop of an accepted future gives up both places, and nobody else's lock.
LEMMA DropLines ==
  ASSUME Locks, NEW c \in Client, ClientOnly(c), Drop(c), kind' = kind
  PROVE  {lifecycle, editor}' \subseteq Seq(Actor) /\ LinesInv' /\ GuardsHeld'
  <1> USE DEF Locks, TypeOK
  <1>1. Leaves(lifecycle, lifecycle', c) /\ Leaves(editor, editor', c)
    BY WithoutLeaves DEF Drop, LinesInv
  <1>2. pc' = [pc EXCEPT ![c] = "Ending"] /\ UNCHANGED <<saver, discard, closing>>
    BY DEF Drop, Go, ClientOnly
  <1>3. LifecycleUsers' = LifecycleUsers \ {c} /\ EditorUsers' = EditorUsers \ {c}
    BY <1>2, Actors DEF LifecycleUsers, EditorUsers
  <1>4. LinesInv'
    BY <1>1, <1>3 DEF LinesInv, Leaves
  <1>5. GuardsHeld'
    <2>1. \A a \in Actor : Writes(a)' = Writes(a)
      BY <1>2 DEF Writes
    <2>2. \A a \in LifecycleUsers \ {c} : HoldsLifecycle(a) => HoldsLifecycle(a)'
      BY <1>1, <1>2, OrderInLine, RangeOfSeq DEF HoldsLifecycle, Leaves, Writes, LinesInv
    <2>3. \A a \in EditorUsers \ {c} : HoldsEditor(a) => HoldsEditor(a)'
      BY <1>1 DEF HoldsEditor, Leaves, LinesInv
    <2> QED BY <1>2, <1>3, <2>2, <2>3, Actors DEF GuardsHeld, LifecycleUsers, EditorUsers
  <1> QED BY <1>1, <1>4, <1>5 DEF Leaves

\* Nobody moves in a line: who held a lock still does.
LEMMA StayInLines ==
  ASSUME Locks, NEW c \in Client, ClientOnly(c), UNCHANGED lockVars,
         LifecycleUsers' = LifecycleUsers, EditorUsers' = EditorUsers,
         c \in LifecycleUsers => kind'[c] = kind[c],
         pc'[c] \in {"Waiting", "Blocking", "Using"} => HoldsLifecycle(c),
         c \in EditorUsers /\ pc'[c] # "WantEditor" => HoldsEditor(c)
  PROVE  LinesKept
  <1> USE DEF Locks, TypeOK, lockVars, LinesKept
  <1>1. LinesInv'
    BY DEF LinesInv
  <1>2. \A a \in LifecycleUsers : Writes(a)' = Writes(a)
    BY Actors DEF Writes, ClientOnly
  <1>3. \A a \in LifecycleUsers : HoldsLifecycle(a) => HoldsLifecycle(a)'
    BY <1>2, OrderInLine DEF HoldsLifecycle, LinesInv
  <1>4. \A a \in Actor : HoldsEditor(a) => HoldsEditor(a)'
    BY DEF HoldsEditor
  <1>5. \A d \in Client \ {c} : pc'[d] = pc[d]
    BY DEF ClientOnly
  <1>6. UNCHANGED <<saver, discard>>
    BY DEF ClientOnly
  <1>7. GuardsHeld'
    <2>1. \A d \in Client : pc'[d] \in {"Waiting", "Blocking", "Using"} => HoldsLifecycle(d)'
      <3>1. \A d \in Client : pc'[d] \in {"Waiting", "Blocking", "Using"} => d \in LifecycleUsers
        BY DEF LifecycleUsers
      <3> QED BY <1>3, <1>5, <3>1 DEF GuardsHeld
    <2>2. \A d \in Client : d \in EditorUsers' /\ pc'[d] # "WantEditor" => HoldsEditor(d)'
      BY <1>4, <1>5 DEF GuardsHeld, Actor
    <2>3. \A k \in Savers : saver[k] \in {"Wait", "Saving"} => k \in LifecycleUsers
      BY DEF LifecycleUsers
    <2> QED BY <1>3, <1>4, <1>6, <2>1, <2>2, <2>3 DEF GuardsHeld, Actor
  <1> QED BY <1>1, <1>7

\* A client lines up for the project, with the editor's guard if it needs it.
LEMMA JoinLifecycle ==
  ASSUME Locks, NEW c \in Client, ClientOnly(c), kind' = kind, c \notin LifecycleUsers,
         pc'[c] = "WantLife", lifecycle' = Append(lifecycle, c),
         \/ /\ editor' = editor
            /\ \/ pc[c] = "WantEditor" /\ HoldsEditor(c)
               \/ c \notin EditorUsers /\ kind[c] \notin EditorKinds \cup {"BeginEdit", "Snapshot"}
         \/ editor = <<>> /\ editor' = <<c>> /\ kind[c] = "Snapshot"
  PROVE  LinesKept
  <1> USE DEF Locks, TypeOK, lockVars, LinesKept
  <1>1. Joins(lifecycle, lifecycle', c)
    BY AppendJoins DEF LinesInv, Actor
  <1>2. \A d \in Client : pc'[d] = IF d = c THEN "WantLife" ELSE pc[d]
    BY DEF ClientOnly
  <1>3. UNCHANGED <<saver, discard, closing>>
    BY DEF ClientOnly
  <1>4. LifecycleUsers' = LifecycleUsers \cup {c}
    BY <1>2, <1>3 DEF LifecycleUsers
  <1>5. \A a \in LifecycleUsers : HoldsLifecycle(a) => HoldsLifecycle(a)'
    BY <1>1, <1>3 DEF HoldsLifecycle, Joins, LinesInv, Writes
  <1>6. /\ editor' \in Seq(Actor)
        /\ IsInjective(editor') /\ Range(editor') = EditorUsers'
        /\ \A a \in EditorUsers : HoldsEditor(a) => HoldsEditor(a)'
        /\ c \in EditorUsers' => HoldsEditor(c)'
    <2>1. CASE editor' = editor /\ pc[c] = "WantEditor" /\ HoldsEditor(c)
      <3>1. kind[c] \in EditorKinds \cup {"BeginEdit"}
        BY <2>1 DEF KindsFit
      <3>2. EditorUsers' = EditorUsers
        BY <1>2, <1>3, <2>1, <3>1 DEF EditorUsers
      <3> QED BY <2>1, <3>2 DEF LinesInv, HoldsEditor
    <2>2. CASE /\ editor' = editor /\ c \notin EditorUsers
               /\ kind[c] \notin EditorKinds \cup {"BeginEdit", "Snapshot"}
      <3>1. EditorUsers' = EditorUsers
        BY <1>2, <1>3, <2>2, Actors DEF EditorUsers
      <3> QED BY <2>2, <3>1 DEF LinesInv, HoldsEditor
    <2>3. CASE editor = <<>> /\ editor' = <<c>> /\ kind[c] = "Snapshot"
      <3>1. EditorUsers = {} /\ Joins(editor, editor', c)
        BY <2>3, EmptyLine DEF LinesInv, Actor
      <3>2. EditorUsers' = EditorUsers \cup {c}
        BY <1>2, <1>3, <2>3 DEF EditorUsers
      <3> QED BY <3>1, <3>2 DEF LinesInv, HoldsEditor, Joins
    <2> QED BY <2>1, <2>2, <2>3
  <1>7. LinesInv'
    BY <1>1, <1>4, <1>6 DEF LinesInv, Joins
  <1>8. GuardsHeld'
    <2>1. \A d \in Client : d \in EditorUsers' /\ d # c => d \in EditorUsers
      BY <1>2, <1>3, Actors DEF EditorUsers
    <2> QED BY <1>2, <1>3, <1>5, <1>6, <2>1, Actors DEF GuardsHeld, LifecycleUsers, EditorUsers
  <1> QED BY <1>1, <1>6, <1>7, <1>8 DEF Joins

\* A client lines up for the editor.
LEMMA JoinEditor ==
  ASSUME Locks, NEW c \in Client, ClientOnly(c), kind' = kind,
         pc[c] = "Admitted", pc'[c] = "WantEditor",
         lifecycle' = lifecycle, editor' = Append(editor, c)
  PROVE  LinesKept
  <1> USE DEF Locks, TypeOK, lockVars, LinesKept
  <1>1. c \notin EditorUsers /\ c \notin LifecycleUsers
    BY Actors DEF EditorUsers, LifecycleUsers
  <1>2. Joins(editor, editor', c)
    BY <1>1, AppendJoins DEF LinesInv, Actor
  <1>3. \A d \in Client : pc'[d] = IF d = c THEN "WantEditor" ELSE pc[d]
    BY DEF ClientOnly
  <1>4. UNCHANGED <<saver, discard, closing>>
    BY DEF ClientOnly
  <1>5. LifecycleUsers' = LifecycleUsers /\ EditorUsers' = EditorUsers \cup {c}
    BY <1>3, <1>4 DEF LifecycleUsers, EditorUsers
  <1>6. LinesInv'
    BY <1>2, <1>5 DEF LinesInv, Joins
  <1>7. /\ \A a : HoldsLifecycle(a) => HoldsLifecycle(a)'
        /\ \A a \in EditorUsers : HoldsEditor(a) => HoldsEditor(a)'
    BY <1>2, <1>4 DEF HoldsLifecycle, HoldsEditor, Writes, Joins, LinesInv
  <1>8. GuardsHeld'
    <2>1. \A d \in Client : d \in EditorUsers' /\ d # c => d \in EditorUsers
      BY <1>5
    <2> QED BY <1>3, <1>4, <1>7, <2>1, Actors DEF GuardsHeld, EditorUsers
  <1> QED BY <1>2, <1>6, <1>8 DEF Joins

\* The locks under every step of a client.
LEMMA ClientsKeepLines ==
  ASSUME Locks, NEW c \in Client, ClientMoves(c)
  PROVE  LinesKept
  <1>0. ClientOnly(c) /\ \A d \in Client : pc'[d] = IF d = c THEN pc'[c] ELSE pc[d]
    <2>1. ClientOnly(c) /\ TypeOK
      BY ClientsAlone DEF Locks
    <2> QED BY <2>1 DEF ClientOnly, TypeOK
  <1>1. ASSUME UNCHANGED lockVars, kind' = kind,
               pc'[c] = pc[c] \/ {pc[c], pc'[c]} \subseteq {"Idle", "Task", "Admitted", "Ending"}
        PROVE  LinesKept
    <2>1. LifecycleUsers' = LifecycleUsers /\ EditorUsers' = EditorUsers
      BY <1>0, <1>1 DEF LifecycleUsers, EditorUsers, ClientOnly
    <2> QED BY <1>0, <1>1, <2>1, StayInLines, Actors DEF Locks, GuardsHeld
  <1>2. ASSUME Refuse(c), kind' = kind
        PROVE  LinesKept
    BY <1>0, <1>2, DropLines DEF Refuse, LinesKept
  <1>3. ASSUME UNCHANGED lockVars, kind' = kind,
               pc[c] \in {"WantLife", "Waiting", "Blocking"}, HoldsLifecycle(c),
               pc'[c] \in {"Waiting", "Blocking", "Using"}
        PROVE  LinesKept
    <2>1. LifecycleUsers' = LifecycleUsers /\ EditorUsers' = EditorUsers
      BY <1>0, <1>3 DEF LifecycleUsers, EditorUsers, ClientOnly
    <2> QED BY <1>0, <1>3, <2>1, StayInLines DEF Locks, GuardsHeld
  <1>4. ASSUME UNCHANGED lockVars, {pc[c], pc'[c]} \subseteq {"Idle", "Task", "Admitted", "Ending"}
        PROVE  LinesKept
    <2>1. c \notin LifecycleUsers /\ c \notin EditorUsers
      BY <1>4, Actors DEF LifecycleUsers, EditorUsers
    <2>2. LifecycleUsers' = LifecycleUsers
      BY <1>0, <1>4 DEF LifecycleUsers, ClientOnly
    <2>3. EditorUsers' = EditorUsers
      BY <1>0, <1>4 DEF EditorUsers, ClientOnly, Locks, TypeOK
    <2> QED BY <1>0, <1>4, <2>1, <2>2, <2>3, StayInLines 
  <1> USE DEF Go, Locks, TypeOK
  <1>5. pc[c] \in {"Admitted", "WantEditor"} => c \notin LifecycleUsers
    BY Actors DEF LifecycleUsers
  <1>6. pc[c] = "Admitted" => c \notin EditorUsers
    BY Actors DEF EditorUsers
  <1>11. CASE EndTask(c) BY <1>4, <1>11 DEF EndTask
  <1>12. CASE Line(c)
    BY <1>0, <1>5, <1>6, <1>12, JoinLifecycle DEF Line, Others, RunKinds, EditorKinds
  <1>13. CASE with_editor(c)
    BY <1>0, <1>13, JoinEditor DEF with_editor, Others
  <1>14. CASE begin_editor(c)
    BY <1>0, <1>2, <1>14, JoinEditor DEF begin_editor, Others
  <1>15. CASE snapshot(c)
    BY <1>0, <1>2, <1>5, <1>15, JoinLifecycle DEF snapshot, Others, is_editing
  <1>16. CASE GetEditor(c)
    BY <1>0, <1>5, <1>16, JoinLifecycle DEF GetEditor, Others
  <1>17. CASE Abandon(c) BY <1>2, <1>17 DEF Abandon, Others
  <1>18. CASE GetLife(c) BY <1>3, <1>18 DEF GetLife, Others
  <1>19. CASE Protection_refuses(c) BY <1>2, <1>19 DEF Protection_refuses, Others
  <1>20. CASE ready(c) BY <1>2, <1>3, <1>20 DEF ready, Others, GuardsHeld
  <1>21. CASE Enter(c) BY <1>2, <1>3, <1>21 DEF Enter, Others, GuardsHeld
  <1>22. CASE Leave(c) BY <1>0, <1>22, DropLines DEF Leave, Others, LinesKept
  <1>23. CASE End(c) BY <1>4, <1>23 DEF End
  <1>24. CASE CancelTask(c) BY <1>1, <1>24 DEF CancelTask
  <1>25. ASSUME NEW k \in StageKinds, Stage(c, k)
         PROVE  LinesKept
    BY <1>4, <1>25 DEF Stage
  <1>26. ASSUME NEW k \in Requests, operation(c, k)
         PROVE  LinesKept
    BY <1>4, <1>26 DEF operation
  <1>27. CASE Submit(c) BY <1>4, <1>27 DEF Submit
  <1> QED
    BY <1>11, <1>12, <1>13, <1>14, <1>15, <1>16, <1>17, <1>18, <1>19, <1>20, <1>21, <1>22,
       <1>23, <1>24, <1>25, <1>26, <1>27 DEF ClientMoves, ClientStep
-----------------------------------------------------------------------------
\* The clients do not move.
Clients == UNCHANGED <<protectionVars, pc, kind, table, stages>>

\* Nobody moves in a line, whatever else happens to savers and the close.
LEMMA QuietLines ==
  ASSUME Locks, Clients, UNCHANGED <<lockVars, discard>>,
         closing = "Release" <=> closing' = "Release",
         \A k \in Savers : saver[k] \in {"Wait", "Saving"} <=> saver'[k] \in {"Wait", "Saving"},
         \A k \in Savers : saver'[k] = "Saving" => HoldsLifecycle(k)
  PROVE  LinesKept
  <1> USE DEF Locks, TypeOK, LinesKept, lockVars, Clients
  <1>1. LifecycleUsers' = LifecycleUsers
    BY DEF LifecycleUsers
  <1>2. EditorUsers' = EditorUsers
    BY DEF EditorUsers
  <1>3. LinesInv'
    BY <1>1, <1>2 DEF LinesInv
  <1>4. /\ \A a : HoldsLifecycle(a)' <=> HoldsLifecycle(a)
        /\ \A a : HoldsEditor(a)' <=> HoldsEditor(a)
    BY DEF HoldsLifecycle, HoldsEditor, Writes
  <1>5. GuardsHeld'
    BY <1>2, <1>4 DEF GuardsHeld
  <1> QED BY <1>3, <1>5

\* A saver takes both locks' lines, or finds an editor.
LEMMA SaveStartsLines ==
  ASSUME Locks, Clients, UNCHANGED <<discard, closing>>,
         NEW k \in Savers, saver[k] \in {"Idle", "Start"}, save_project(k)
  PROVE  LinesKept
  <1> USE DEF Locks, TypeOK, LinesKept, Clients
  <1>1. \A j \in Savers \ {k} : saver'[j] = saver[j]
    BY DEF save_project
  <1>2. k \notin LifecycleUsers /\ k \notin EditorUsers
    BY Actors DEF LifecycleUsers, EditorUsers
  <1>3. CASE is_editing
    <2>1. saver'[k] = "Failed" /\ UNCHANGED lockVars
      BY <1>3 DEF save_project
    <2>2. LifecycleUsers' = LifecycleUsers
      BY <1>1, <2>1 DEF LifecycleUsers
    <2>3. EditorUsers' = EditorUsers
      BY <1>1, <2>1 DEF EditorUsers
    <2>4. LinesInv'
      BY <2>1, <2>2, <2>3 DEF LinesInv, lockVars
    <2>5. /\ \A a : HoldsLifecycle(a)' <=> HoldsLifecycle(a)
          /\ \A a : HoldsEditor(a)' <=> HoldsEditor(a)
      BY <2>1 DEF HoldsLifecycle, HoldsEditor, Writes, lockVars
    <2>6. GuardsHeld'
      BY <1>1, <2>1, <2>3, <2>5 DEF GuardsHeld
    <2> QED BY <2>1, <2>4, <2>6 DEF lockVars
  <1>4. CASE ~is_editing
    <2>1. /\ saver'[k] = "Wait" /\ editor = <<>> /\ editor' = <<k>>
          /\ lifecycle' = Append(lifecycle, k)
      BY <1>4 DEF save_project, is_editing
    <2>2. Joins(lifecycle, lifecycle', k)
      BY <1>2, <2>1, AppendJoins DEF LinesInv, Actor
    <2>3. Joins(editor, editor', k) /\ EditorUsers = {}
      BY <2>1, EmptyLine DEF LinesInv, Actor
    <2>4. LifecycleUsers' = LifecycleUsers \cup {k}
      BY <1>1, <2>1 DEF LifecycleUsers
    <2>5. EditorUsers' = EditorUsers \cup {k}
      BY <1>1, <2>1 DEF EditorUsers
    <2>6. LinesInv'
      BY <2>2, <2>3, <2>4, <2>5 DEF LinesInv, Joins
    <2>7. \A a \in LifecycleUsers : HoldsLifecycle(a) => HoldsLifecycle(a)'
      BY <2>2 DEF HoldsLifecycle, Writes, Joins, LinesInv
    <2>8. HoldsEditor(k)' /\ EditorUsers' = {k}
      BY <2>3, <2>5 DEF HoldsEditor, Joins, LinesInv
    <2>9. GuardsHeld'
      <3>1. \A c \in Client : pc[c] \in {"Waiting", "Blocking", "Using"} => HoldsLifecycle(c)'
        BY <2>7 DEF GuardsHeld, LifecycleUsers
      <3>2. \A j \in Savers : saver'[j] = "Saving" => HoldsLifecycle(j)'
        BY <1>1, <2>1, <2>7 DEF GuardsHeld, LifecycleUsers
      <3>3. \A j \in Savers : saver'[j] \in {"Wait", "Saving"} => j = k
        BY <2>8 DEF EditorUsers
      <3>4. \A d \in Discarders : discard[d] # "WantLife"
        BY <2>3 DEF EditorUsers
      <3> QED BY <2>8, <3>1, <3>2, <3>3, <3>4, Actors DEF GuardsHeld
    <2> QED BY <2>2, <2>3, <2>6, <2>9 DEF Joins
  <1> QED BY <1>3, <1>4

\* A saver gives up both.
LEMMA SaveEndsLines ==
  ASSUME Locks, Clients, UNCHANGED <<discard, closing>>,
         NEW k \in Savers, NEW r \in {"Done", "Failed"}, DropSave(k, r)
  PROVE  LinesKept
  <1> USE DEF Locks, TypeOK, LinesKept, Clients
  <1>1. \A j \in Savers : saver'[j] = IF j = k THEN r ELSE saver[j]
    BY DEF DropSave
  <1>2. Leaves(lifecycle, lifecycle', k) /\ Leaves(editor, editor', k)
    BY WithoutLeaves DEF DropSave, LinesInv
  <1>3. LifecycleUsers' = LifecycleUsers \ {k}
    BY <1>1, Actors DEF LifecycleUsers
  <1>4. EditorUsers' = EditorUsers \ {k}
    BY <1>1, Actors DEF EditorUsers
  <1>5. LinesInv'
    BY <1>2, <1>3, <1>4 DEF LinesInv, Leaves
  <1>6. \A a \in LifecycleUsers \ {k} : HoldsLifecycle(a) => HoldsLifecycle(a)'
    BY <1>2 DEF HoldsLifecycle, Leaves, Writes, LinesInv
  <1>7. \A a \in EditorUsers \ {k} : HoldsEditor(a) => HoldsEditor(a)'
    BY <1>2 DEF HoldsEditor, Leaves, LinesInv
  <1>8. GuardsHeld'
    <2>1. \A c \in Client : pc[c] \in {"Waiting", "Blocking", "Using"} => HoldsLifecycle(c)'
      BY <1>6, Actors DEF GuardsHeld, LifecycleUsers
    <2>2. \A c \in Client : c \in EditorUsers' /\ pc[c] # "WantEditor" => HoldsEditor(c)'
      BY <1>4, <1>7 DEF GuardsHeld
    <2>3. \A j \in Savers : saver'[j] = "Saving" => HoldsLifecycle(j)'
      BY <1>1, <1>6 DEF GuardsHeld, LifecycleUsers
    <2>4. \A j \in Savers : saver'[j] \in {"Wait", "Saving"} => HoldsEditor(j)'
      BY <1>1, <1>7 DEF GuardsHeld, EditorUsers
    <2>5. \A d \in Discarders : discard[d] = "WantLife" => HoldsEditor(d)'
      BY <1>7, Actors DEF GuardsHeld, EditorUsers
    <2> QED BY <2>1, <2>2, <2>3, <2>4, <2>5 DEF GuardsHeld
  <1> QED BY <1>2, <1>5, <1>8 DEF Leaves

\* A cleanup lines up for the editor.
LEMMA DiscardJoinsEditor ==
  ASSUME Locks, Clients, UNCHANGED <<saver, lifecycle>>,
         NEW d \in Discarders, discard[d] = "Idle", discard_cell_edit(d),
         closing' = closing \/ {closing, closing'} \cap {"Release"} = {}
  PROVE  LinesKept
  <1> USE DEF Locks, TypeOK, LinesKept, Clients, discard_cell_edit
  <1>1. \A e \in Discarders : discard'[e] = IF e = d THEN "WantEditor" ELSE discard[e]
    OBVIOUS
  <1>2. d \notin EditorUsers
    BY Actors DEF EditorUsers
  <1>3. Joins(editor, editor', d)
    BY <1>2, AppendJoins DEF LinesInv, Actor
  <1>4. LifecycleUsers' = LifecycleUsers
    BY <1>1 DEF LifecycleUsers
  <1>5. EditorUsers' = EditorUsers \cup {d}
    BY <1>1 DEF EditorUsers
  <1>6. LinesInv'
    BY <1>3, <1>4, <1>5 DEF LinesInv, Joins
  <1>7. /\ \A a : HoldsLifecycle(a)' <=> HoldsLifecycle(a)
        /\ \A a \in EditorUsers : HoldsEditor(a) => HoldsEditor(a)'
    BY <1>3 DEF HoldsLifecycle, HoldsEditor, Writes, Joins, LinesInv
  <1>8. GuardsHeld'
    <2>1. \A c \in Client : c \in EditorUsers' /\ pc[c] # "WantEditor" => HoldsEditor(c)'
      BY <1>5, <1>7, Actors DEF GuardsHeld
    <2>2. \A k \in Savers : saver[k] \in {"Wait", "Saving"} => HoldsEditor(k)'
      BY <1>7 DEF GuardsHeld, EditorUsers
    <2>3. \A e \in Discarders : discard'[e] = "WantLife" => HoldsEditor(e)'
      BY <1>1, <1>7 DEF GuardsHeld, EditorUsers
    <2> QED BY <1>7, <2>1, <2>2, <2>3 DEF GuardsHeld
  <1> QED BY <1>3, <1>6, <1>8 DEF Joins

\* A discarder, or the close behind it, lines up for the project.
LEMMA CleanupJoinsLifecycle ==
  ASSUME Locks, Clients, UNCHANGED <<saver, editor>>,
         NEW d \in Discarders, d \notin LifecycleUsers, lifecycle' = Append(lifecycle, d),
         \/ /\ discard[d] = "WantEditor" /\ HoldsEditor(d)
            /\ discard' = [discard EXCEPT ![d] = "WantLife"] /\ closing' = closing
         \/ /\ d = "Closer" /\ UNCHANGED discard
            /\ closing # "Release" /\ closing' = "Release"
  PROVE  LinesKept
  <1> USE DEF Locks, TypeOK, LinesKept, Clients
  <1>1. \A e \in Discarders \ {d} : discard'[e] = discard[e]
    OBVIOUS
  <1>2. Joins(lifecycle, lifecycle', d)
    BY AppendJoins DEF LinesInv, Actor
  <1>3. LifecycleUsers' = LifecycleUsers \cup {d}
    BY <1>1 DEF LifecycleUsers
  <1>4. EditorUsers' = EditorUsers
    BY <1>1 DEF EditorUsers
  <1>5. LinesInv'
    BY <1>2, <1>3, <1>4 DEF LinesInv, Joins
  <1>6. \A a \in LifecycleUsers : Writes(a)' <=> Writes(a)
    BY Actors DEF Writes
  <1>7. /\ \A a \in LifecycleUsers : HoldsLifecycle(a) => HoldsLifecycle(a)'
        /\ \A a : HoldsEditor(a)' <=> HoldsEditor(a)
    BY <1>2, <1>6, OrderInLine DEF HoldsLifecycle, HoldsEditor, Joins, LinesInv
  <1>8. GuardsHeld'
    <2>1. \A c \in Client : pc[c] \in {"Waiting", "Blocking", "Using"} => HoldsLifecycle(c)'
      BY <1>7 DEF GuardsHeld, LifecycleUsers
    <2>2. \A k \in Savers : saver[k] = "Saving" => HoldsLifecycle(k)'
      BY <1>7 DEF GuardsHeld, LifecycleUsers
    <2>3. \A e \in Discarders : discard'[e] = "WantLife" => HoldsEditor(e)'
      BY <1>1, <1>7 DEF GuardsHeld
    <2> QED BY <1>4, <1>7, <2>1, <2>2, <2>3 DEF GuardsHeld
  <1> QED BY <1>2, <1>5, <1>8 DEF Joins

\* A discarder leaves both lines.
LEMMA DiscardLeavesLines ==
  ASSUME Locks, UNCHANGED <<pc, kind, saver, closing>>, NEW d \in Discarders,
         discard[d] = "WantLife", d = "Closer" => closing # "Release",
         discard' = [discard EXCEPT ![d] = IF d = "Closer" THEN "Done" ELSE "Idle"],
         lifecycle' = Without(lifecycle, d), editor' = Without(editor, d)
  PROVE  LinesKept
  <1> USE DEF Locks, TypeOK, LinesKept
  <1>1. \A e \in Discarders :
           discard'[e] = IF e # d THEN discard[e] ELSE IF d = "Closer" THEN "Done" ELSE "Idle"
    OBVIOUS
  <1>2. Leaves(lifecycle, lifecycle', d) /\ Leaves(editor, editor', d)
    BY WithoutLeaves DEF LinesInv
  <1>3. LifecycleUsers' = LifecycleUsers \ {d}
    BY <1>1, Actors DEF LifecycleUsers
  <1>4. EditorUsers' = EditorUsers \ {d}
    BY <1>1, Actors DEF EditorUsers
  <1>5. LinesInv'
    BY <1>2, <1>3, <1>4 DEF LinesInv, Leaves
  <1>6. \A a \in LifecycleUsers \ {d} : HoldsLifecycle(a) => HoldsLifecycle(a)'
    BY <1>2 DEF HoldsLifecycle, Leaves, Writes, LinesInv
  <1>7. \A a \in EditorUsers \ {d} : HoldsEditor(a) => HoldsEditor(a)'
    BY <1>2 DEF HoldsEditor, Leaves, LinesInv
  <1>8. GuardsHeld'
    <2>1. \A c \in Client : pc[c] \in {"Waiting", "Blocking", "Using"} => HoldsLifecycle(c)'
      BY <1>6, Actors DEF GuardsHeld, LifecycleUsers
    <2>2. \A c \in Client : c \in EditorUsers' /\ pc[c] # "WantEditor" => HoldsEditor(c)'
      BY <1>4, <1>7 DEF GuardsHeld
    <2>3. \A k \in Savers : saver[k] = "Saving" => HoldsLifecycle(k)'
      BY <1>6, Actors DEF GuardsHeld, LifecycleUsers
    <2>4. \A k \in Savers : saver[k] \in {"Wait", "Saving"} => HoldsEditor(k)'
      BY <1>7, Actors DEF GuardsHeld, EditorUsers
    <2>5. \A e \in Discarders : discard'[e] = "WantLife" => HoldsEditor(e)'
      BY <1>1, <1>7 DEF GuardsHeld, EditorUsers
    <2> QED BY <2>1, <2>2, <2>3, <2>4, <2>5 DEF GuardsHeld
  <1> QED BY <1>2, <1>5, <1>8 DEF Leaves

\* The project has been released.
LEMMA ReleaseLeavesLifecycle ==
  ASSUME Locks, Clients, UNCHANGED <<saver, discard, editor>>,
         discard["Closer"] = "Done",
         closing = "Release", closing' = "Closed", lifecycle' = Without(lifecycle, "Closer")
  PROVE  LinesKept
  <1> USE DEF Locks, TypeOK, LinesKept, Clients
  <1>1. Leaves(lifecycle, lifecycle', "Closer")
    BY WithoutLeaves DEF LinesInv
  <1>2. LifecycleUsers' = LifecycleUsers \ {"Closer"}
    BY Actors DEF LifecycleUsers, Discarders
  <1>3. EditorUsers' = EditorUsers
    BY DEF EditorUsers
  <1>4. LinesInv'
    BY <1>1, <1>2, <1>3 DEF LinesInv, Leaves
  <1>5. \A a \in LifecycleUsers \ {"Closer"} : HoldsLifecycle(a) => HoldsLifecycle(a)'
    BY <1>1 DEF HoldsLifecycle, Leaves, Writes, LinesInv
  <1>6. \A a : HoldsEditor(a)' <=> HoldsEditor(a)
    BY DEF HoldsEditor
  <1>7. GuardsHeld'
    <2>1. \A c \in Client : pc[c] \in {"Waiting", "Blocking", "Using"} => HoldsLifecycle(c)'
      BY <1>5, Actors DEF GuardsHeld, LifecycleUsers, Discarders
    <2>2. \A k \in Savers : saver[k] = "Saving" => HoldsLifecycle(k)'
      BY <1>5, Actors DEF GuardsHeld, LifecycleUsers, Discarders
    <2> QED BY <1>3, <1>6, <2>1, <2>2 DEF GuardsHeld
  <1> QED BY <1>1, <1>4, <1>7 DEF Leaves
=============================================================================
