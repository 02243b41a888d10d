--------------------------- MODULE RuntimeProofs ---------------------------
(***************************************************************************)
(* Theorems about Runtime, for any number of clients, tables and stages:   *)
(* the invariants of the two locks, of admission, of the reservations and  *)
(* of the final close, and that an accepted Save is not robbed.            *)
(***************************************************************************)
EXTENDS RuntimeLocks

\* What no step of a client touches, and what it may not start.
Untouched ==
    UNCHANGED <<available, closed, attempt, tracker, saver, host, closing>>

Quieter ==
    /\ pc' \in [Client -> Position]
    /\ \A c \in Client : pc[c] = "Idle" => pc'[c] = "Idle"

LEMMA FrameKeepsAdmission ==
  ASSUME AdmissionInv, Untouched, Quieter
  PROVE  AdmissionInv'
  BY DEF AdmissionInv, AdmissionRestored, RenameWhenIdle, has_work, Tracked,
         Untouched, Quieter

\* Accepted work only moves on: it asks admission for nothing.
LEMMA ClientStepsFrame ==
  ASSUME NEW c \in Client, pc \in [Client -> Position],
         ClientStep(c) \/ CancelTask(c) \/ (\E k \in StageKinds : Stage(c, k))
  PROVE  Untouched /\ Quieter
  <1> USE DEF Untouched, Quieter, Position, Go, admissionVars
  <1>1. CASE EndTask(c) BY <1>1 DEF EndTask
  <1>2. CASE Line(c) BY <1>2 DEF Line, Others
  <1>3. CASE with_editor(c) BY <1>3 DEF with_editor, Others
  <1>4. CASE begin_editor(c) BY <1>4 DEF begin_editor, Others, Refuse, Drop
  <1>5. CASE snapshot(c) BY <1>5 DEF snapshot, Others, Refuse, Drop
  <1>6. CASE GetEditor(c) BY <1>6 DEF GetEditor, Others
  <1>7. CASE Abandon(c) BY <1>7 DEF Abandon, Others, Refuse, Drop
  <1>8. CASE GetLife(c) BY <1>8 DEF GetLife, Others
  <1>9. CASE Protection_refuses(c) BY <1>9 DEF Protection_refuses, Others, Refuse, Drop
  <1>10. CASE ready(c) BY <1>10 DEF ready, Others, Refuse, Drop
  <1>11. CASE Enter(c) BY <1>11 DEF Enter, Others, Refuse, Drop
  <1>12. CASE Leave(c) BY <1>12 DEF Leave, Others, Drop
  <1>13. CASE End(c) BY <1>13 DEF End
  <1>14. CASE CancelTask(c) BY <1>14 DEF CancelTask
  <1>15. ASSUME NEW k \in StageKinds, Stage(c, k)
         PROVE  Untouched /\ Quieter
    BY <1>15 DEF Stage
  <1> QED
    BY <1>1, <1>2, <1>3, <1>4, <1>5, <1>6, <1>7, <1>8, <1>9, <1>10, <1>11, <1>12,
       <1>13, <1>14, <1>15 DEF ClientStep

\* A new operation needs the admission token, so no rename is at work.
LEMMA AdmittingKeepsAdmission ==
  ASSUME AdmissionInv, NEW c \in Client,
         Submit(c) \/ (\E k \in Requests : operation(c, k))
  PROVE  AdmissionInv'
  <1>1. /\ available /\ ~closed
        /\ Untouched
        /\ pc' \in [Client -> Position]
    BY DEF Submit, operation, check, Untouched, Go, Position, admissionVars, AdmissionInv
  <1>2. saver["Rename"] = "Idle"
    BY <1>1 DEF AdmissionInv, AdmissionRestored
  <1>3. AdmissionRestored' /\ RenameWhenIdle'
    BY <1>1, <1>2 DEF AdmissionInv, AdmissionRestored, RenameWhenIdle, Untouched
  <1> QED BY <1>1, <1>3 DEF AdmissionInv, Untouched

\* Saves never change who may enter, except that rename pauses and resumes.
LEMMA SavingKeepsAdmission ==
  ASSUME AdmissionInv,
         UserSave \/ rename \/ RenameSave \/ (\E k \in Savers : SaveStep(k))
  PROVE  AdmissionInv'
  <1> USE DEF AdmissionInv, AdmissionRestored, RenameWhenIdle, has_work, Tracked, Savers,
              SaveRest, clientVars, admissionVars
  <1>1. CASE UserSave
    BY <1>1 DEF UserSave, save_project
  <1>2. CASE rename
    BY <1>2 DEF rename, begin_close, check
  <1>3. CASE RenameSave
    BY <1>3 DEF RenameSave, save_project
  <1>4. ASSUME NEW k \in Savers, EnterSave(k)
        PROVE  AdmissionInv'
    BY <1>4 DEF EnterSave, DropSave
  <1>5. ASSUME NEW k \in Savers, LeaveSave(k)
        PROVE  AdmissionInv'
    BY <1>5 DEF LeaveSave, DropSave
  <1>6. ASSUME NEW k \in Savers, EndSave(k)
        PROVE  AdmissionInv'
    <2>1. CASE k = "Rename"
      BY <1>6, <2>1 DEF EndSave, DropAttempt
    <2>2. CASE k = "User"
      BY <1>6, <2>2 DEF EndSave
    <2> QED BY <1>6, <2>1, <2>2 DEF EndSave
  <1> QED BY <1>1, <1>2, <1>3, <1>4, <1>5, <1>6 DEF SaveStep

\* The final close and the cleanup of sessions.
LEMMA ClosingKeepsAdmission ==
  ASSUME AdmissionInv,
         \/ close \/ CloseStep \/ webview_unloaded
         \/ \E d \in Discarders : DiscardLine(d) \/ Discard(d)
  PROVE  AdmissionInv'
  <1> USE DEF AdmissionInv, AdmissionRestored, RenameWhenIdle, has_work, Tracked,
              clientVars, admissionVars, CloseRest
  <1>1. CASE close
    BY <1>1 DEF close
  <1>2. CASE Interrupt
    BY <1>2 DEF Interrupt
  <1>3. CASE Drained
    BY <1>3 DEF Drained
  <1>4. CASE AwaitLast
    BY <1>4 DEF AwaitLast
  <1>5. CASE Release
    BY <1>5 DEF Release
  <1>6. CASE webview_unloaded
    BY <1>6 DEF webview_unloaded
  <1>7. ASSUME NEW d \in Discarders, DiscardLine(d) \/ Discard(d)
        PROVE  AdmissionInv'
    <2>1. Untouched /\ pc' = pc
      BY <1>7 DEF DiscardLine, Discard, Untouched
    <2>2. Quieter
      BY <2>1 DEF Quieter
    <2> QED BY <2>1, <2>2, FrameKeepsAdmission
  <1> QED BY <1>1, <1>2, <1>3, <1>4, <1>5, <1>6, <1>7 DEF CloseStep

\* The owner of a pause gives it up.
LEMMA DropKeepsAdmission ==
  ASSUME AdmissionInv, DropAttempt, host' \in {"Idle", "Done"},
         saver' = saver \/ saver' = [saver EXCEPT !["Host"] = "Idle"],
         saver["Rename"] = "Idle", UNCHANGED <<pc, closing>>
  PROVE  AdmissionInv'
  <1> USE DEF AdmissionInv, AdmissionRestored, RenameWhenIdle, Savers, DropAttempt
  <1>1. DOMAIN saver' = Savers /\ saver'["Rename"] = "Idle"
    OBVIOUS
  <1>2. AdmissionRestored'
    OBVIOUS
  <1> QED BY <1>1, <1>2

\* The owner keeps it: nothing about admission changes.
LEMMA HostMovesOn ==
  ASSUME AdmissionInv, UNCHANGED <<available, closed, attempt, tracker, pc, closing>>,
         DOMAIN saver' = Savers, saver'["Rename"] = saver["Rename"],
         host \notin {"Idle", "Done"}, host' \notin {"Idle", "Done"}
  PROVE  AdmissionInv'
  BY DEF AdmissionInv, AdmissionRestored, RenameWhenIdle, has_work, Tracked

\* The desktop dialog: one owner of the pause from begin_close to its drop.
LEMMA HostKeepsAdmission ==
  ASSUME AdmissionInv, HostBegin \/ HostAnswer \/ HostSave \/ HostStep
  PROVE  AdmissionInv'
  <1>1. CASE HostBegin
    BY <1>1 DEF HostBegin, begin_close, check, AdmissionInv, AdmissionRestored,
                RenameWhenIdle, has_work, Tracked, HostRest
  <1>2. ASSUME host \notin {"Idle", "Done"}
        PROVE  saver["Rename"] = "Idle" /\ DOMAIN saver = Savers
    BY <1>2 DEF AdmissionInv
  <1> USE DEF HostRest, admissionVars
  <1>3. CASE HostAnswer
    BY <1>2, <1>3, DropKeepsAdmission, HostMovesOn DEF HostAnswer
  <1>4. CASE HostSave
    <2>1. host \notin {"Idle", "Done"} /\ UNCHANGED <<pc, closing>>
      BY <1>4 DEF HostSave
    <2>2. CASE host' = "Idle" /\ DropAttempt /\ UNCHANGED <<lockVars, saver>>
      BY <1>2, <2>1, <2>2, DropKeepsAdmission
    <2>3. CASE host' = "Approved" /\ UNCHANGED <<admissionVars, lockVars, saver>>
      BY <1>2, <2>1, <2>3, HostMovesOn
    <2>4. CASE host' = "Saving" /\ save_project("Host") /\ UNCHANGED admissionVars
      <3>1. DOMAIN saver' = Savers /\ saver'["Rename"] = saver["Rename"]
        BY <1>2, <2>1, <2>4 DEF save_project, Savers
      <3> QED BY <2>1, <2>4, <3>1, HostMovesOn
    <2> QED BY <1>4, <2>2, <2>3, <2>4 DEF HostSave
  <1>5. CASE HostCheck
    BY <1>2, <1>5, DropKeepsAdmission, HostMovesOn DEF HostCheck
  <1>6. CASE HostWork
    BY <1>2, <1>6, HostMovesOn DEF HostWork
  <1>7. CASE HostInterrupt
    BY <1>7 DEF HostInterrupt, AdmissionInv, AdmissionRestored, RenameWhenIdle, has_work,
                Tracked
  <1>8. CASE HostDrained
    BY <1>2, <1>8, HostMovesOn DEF HostDrained
  <1>9. CASE HostSaved
    <2>1. host \notin {"Idle", "Done"} /\ UNCHANGED <<pc, closing>>
      BY <1>9 DEF HostSaved
    <2>2. /\ saver' = [saver EXCEPT !["Host"] = "Idle"]
          /\ DOMAIN saver' = Savers /\ saver'["Rename"] = saver["Rename"]
      BY <1>2, <1>9, <2>1 DEF HostSaved, Savers
    <2> QED BY <1>2, <1>9, <2>1, <2>2, DropKeepsAdmission, HostMovesOn DEF HostSaved
  <1>10. CASE HostDone
    BY <1>2, <1>10, DropKeepsAdmission DEF HostDone
  <1> QED
    BY <1>1, <1>3, <1>4, <1>5, <1>6, <1>7, <1>8, <1>9, <1>10 DEF HostStep

LEMMA AdmissionInvInit == Init => AdmissionInv
  BY ZenonT(30) DEF Init, AdmissionInv, AdmissionRestored, RenameWhenIdle, has_work, Tracked,
         Position, Savers

LEMMA AdmissionInvStep == AdmissionInv /\ [Next]_vars => AdmissionInv'
  <1> SUFFICES ASSUME AdmissionInv, [Next]_vars
               PROVE  AdmissionInv'
    OBVIOUS
  <1>1. ASSUME NEW c \in Client,
               ClientStep(c) \/ CancelTask(c) \/ (\E k \in StageKinds : Stage(c, k))
        PROVE  AdmissionInv'
    <2>1. pc \in [Client -> Position]
      BY DEF AdmissionInv
    <2> QED BY <1>1, <2>1, ClientStepsFrame, FrameKeepsAdmission
  <1>2. ASSUME NEW c \in Client, Submit(c) \/ (\E k \in Requests : operation(c, k))
        PROVE  AdmissionInv'
    BY <1>2, AdmittingKeepsAdmission
  <1>3. CASE UserSave \/ rename \/ RenameSave \/ (\E k \in Savers : SaveStep(k))
    BY <1>3, SavingKeepsAdmission
  <1>4. CASE \/ close \/ CloseStep \/ webview_unloaded
             \/ \E d \in Discarders : DiscardLine(d) \/ Discard(d)
    BY <1>4, ClosingKeepsAdmission
  <1>5. CASE HostBegin \/ HostAnswer \/ HostSave \/ HostStep
    BY <1>5, HostKeepsAdmission
  <1>6. CASE UNCHANGED vars
    <2>1. Untouched /\ pc' = pc
      BY <1>6 DEF vars, Untouched, admissionVars, clientVars
    <2>2. Quieter
      BY <2>1 DEF Quieter, AdmissionInv
    <2> QED BY <2>1, <2>2, FrameKeepsAdmission
  <1> QED BY <1>1, <1>2, <1>3, <1>4, <1>5, <1>6 DEF Next

LEMMA AdmissionInvAlways == Spec => []AdmissionInv
  BY AdmissionInvInit, AdmissionInvStep, PTL DEF Spec

(* Admission is open exactly when no CloseAttempt is alive and no final    *)
(* close has begun, and the destructor of an attempt never reopens the     *)
(* tracker of a final close (runtime.rs, CloseAttempt::drop).              *)
THEOREM PauseIsUndone == Spec => []AdmissionRestored
  <1>1. AdmissionInv => AdmissionRestored
    BY DEF AdmissionInv
  <1> QED BY <1>1, AdmissionInvAlways, PTL

(* rename moves the file only when no accepted work remains, whatever is   *)
(* submitted, closed or answered meanwhile (runtime.rs, rename).           *)
THEOREM RenameFindsRest == Spec => []RenameWhenIdle
  <1>1. AdmissionInv => RenameWhenIdle
    BY DEF AdmissionInv
  <1> QED BY <1>1, AdmissionInvAlways, PTL
-----------------------------------------------------------------------------
\* What Exclusion promises, by induction: an exclusive use is granted when no
\* mutation holds its table, and from its reservation on none can come.
TablesInv ==
    /\ entries \in [Client -> Tables!Entry]
    /\ granted \subseteq Client
    /\ \A c \in granted : Tables!IsExclusive(c)
    /\ Tables!ExclusiveUse

\* It does not matter which lease came first.
LEMMA OverlapsSymmetric ==
  ASSUME NEW a, NEW b, Tables!overlaps(a, b)
  PROVE  Tables!overlaps(b, a)
  BY DEF Tables!overlaps, Tables!same

\* A new lease overlaps no exclusive one.
LEMMA ReserveKeepsTables ==
  ASSUME TablesInv, NEW c \in Client, NEW p \in Tables!Purpose, NEW s \in Tables!Scope,
         Tables!Reserve(c, p, s)
  PROVE  TablesInv'
  <1> USE DEF TablesInv, Tables!Reserve, Tables!Held, Tables!IsExclusive, Tables!IsMutation
  <1>1. entries' \in [Client -> Tables!Entry]
    BY DEF Tables!Entry
  <1>2. c \notin granted
    OBVIOUS
  <1>3. Tables!ExclusiveUse'
    <2> SUFFICES ASSUME NEW a \in Client, NEW b \in Client, a # b,
                        Tables!IsExclusive(a)',
                        Tables!overlaps(entries[a].targets, entries[b].targets)'
                 PROVE  /\ ~Tables!IsExclusive(b)'
                        /\ (a \in granted' => ~Tables!IsMutation(b)')
      BY DEF Tables!ExclusiveUse
    <2>1. CASE a = c
      <3>1. ~Tables!IsExclusive(b)
        BY <2>1, OverlapsSymmetric DEF Tables!Unprotected
      <3> QED BY <1>2, <2>1, <3>1
    <2>2. CASE b = c
      BY <2>2 DEF Tables!Unprotected
    <2>3. CASE a # c /\ b # c
      BY <2>3 DEF Tables!ExclusiveUse
    <2> QED BY <2>1, <2>2, <2>3
  <1>4. \A d \in granted' : Tables!IsExclusive(d)'
    BY <1>2
  <1> QED BY <1>1, <1>3, <1>4

\* An exclusive use starts when no mutation holds its table.
LEMMA GrantKeepsTables ==
  ASSUME TablesInv, NEW c \in Client, Tables!Grant(c)
  PROVE  TablesInv'
  BY DEF TablesInv, Tables!Grant, Tables!busy, Tables!ExclusiveUse, Tables!IsExclusive,
         Tables!IsMutation

\* Any set of leases may be released together.
LEMMA ReleaseKeepsTables ==
  ASSUME TablesInv, NEW R \in SUBSET Client,
         entries' = [c \in Client |-> IF c \in R THEN Tables!NoEntry ELSE entries[c]],
         granted' = granted \ R
  PROVE  TablesInv'
  <1> USE DEF TablesInv, Tables!IsExclusive, Tables!IsMutation
  <1>1. entries' \in [Client -> Tables!Entry]
    BY DEF Tables!Entry, Tables!NoEntry, Tables!Scope
  <1>2. \A d \in granted' : Tables!IsExclusive(d)'
    OBVIOUS
  <1>3. Tables!ExclusiveUse'
    BY DEF Tables!ExclusiveUse, Tables!NoEntry
  <1> QED BY <1>1, <1>2, <1>3

\* How a client's step changes the table of reservations.
TablesStep(c) ==
    \/ UNCHANGED <<entries, granted>>
    \/ \E p \in Tables!Purpose, s \in Tables!Scope : Tables!Reserve(c, p, s)
    \/ Tables!Grant(c)
    \/ Tables!Release(c)

\* Clients use the table of reservations through what it promises.
LEMMA ClientsTables ==
  ASSUME TypeOK, NEW c \in Client, ClientMoves(c)
  PROVE  TablesStep(c)
  <1> USE DEF TablesStep, protectionVars
  <1>0. \A s \in {{}, {table[c]}, Arbitrary} : s \in Tables!Scope
    BY DEF TypeOK, Tables!Scope
  <1>1. CASE EndTask(c) BY <1>1 DEF EndTask
  <1>2. CASE Line(c) BY <1>2 DEF Line
  <1>3. CASE with_editor(c) BY <1>3 DEF with_editor
  <1>4. CASE begin_editor(c)
    BY <1>0, <1>4 DEF begin_editor, Refuse, Drop, Tables!Purpose
  <1>5. CASE snapshot(c) BY <1>5 DEF snapshot, Refuse, Drop
  <1>6. CASE GetEditor(c) BY <1>6 DEF GetEditor
  <1>7. CASE Abandon(c) BY <1>7 DEF Abandon, Refuse, Drop
  <1>8. CASE GetLife(c)
    <2>1. scope(c) \in Tables!Scope
      BY <1>0 DEF scope
    <2> QED BY <1>0, <1>8, <2>1 DEF GetLife, Tables!Purpose
  <1>9. CASE Protection_refuses(c) BY <1>9 DEF Protection_refuses, Refuse, Drop
  <1>10. CASE ready(c) BY <1>10 DEF ready, Refuse, Drop
  <1>11. CASE Enter(c) BY <1>11 DEF Enter, Refuse, Drop
  <1>12. CASE Leave(c) BY <1>12 DEF Leave, Drop
  <1>13. CASE End(c) BY <1>13 DEF End
  <1>14. CASE CancelTask(c) BY <1>14 DEF CancelTask
  <1>15. ASSUME NEW k \in StageKinds, Stage(c, k)
         PROVE  TablesStep(c)
    BY <1>15 DEF Stage
  <1>16. ASSUME NEW k \in Requests, operation(c, k)
         PROVE  TablesStep(c)
    BY <1>16 DEF operation
  <1>17. CASE Submit(c) BY <1>17 DEF Submit
  <1> QED
    BY <1>1, <1>2, <1>3, <1>4, <1>5, <1>6, <1>7, <1>8, <1>9, <1>10, <1>11, <1>12,
       <1>13, <1>14, <1>15, <1>16, <1>17 DEF ClientMoves, ClientStep

\* So the promise is kept.
LEMMA ClientsKeepTables ==
  ASSUME TypeOK, TablesInv, NEW c \in Client, ClientMoves(c)
  PROVE  TablesInv'
  <1>1. TablesStep(c)
    BY ClientsTables
  <1>2. CASE UNCHANGED <<entries, granted>>
    BY <1>2 DEF TablesInv, Tables!ExclusiveUse, Tables!IsExclusive, Tables!IsMutation
  <1>3. CASE Tables!Release(c)
    <2>1. entries' = [d \in Client |-> IF d \in {c} THEN Tables!NoEntry ELSE entries[d]]
      BY <1>3 DEF Tables!Release, TypeOK
    <2> QED BY <1>3, <2>1, ReleaseKeepsTables DEF Tables!Release
  <1> QED BY <1>1, <1>2, <1>3, ReserveKeepsTables, GrantKeepsTables DEF TablesStep
-----------------------------------------------------------------------------
\* What a client is doing fits where it stands.
LEMMA KindsStep ==
  ASSUME TypeOK, KindsFit, NEW c \in Client, ClientMoves(c)
  PROVE  KindsFit'
  <1> USE DEF KindsFit, Go, TypeOK, Tracked, IsTask
  <1>0. MaxStages \in Nat /\ Requests \subseteq Kinds
    BY RuntimeAssumption DEF Kinds, RunKinds, EditorKinds
  <1> USE <1>0
  <1>1. CASE EndTask(c) BY <1>1 DEF EndTask, protectionVars
  <1>2. CASE Line(c) BY <1>2 DEF Line, Others, protectionVars, RunKinds, EditorKinds
  <1>3. CASE with_editor(c) BY <1>3 DEF with_editor, Others, protectionVars
  <1>4. CASE begin_editor(c) BY <1>4 DEF begin_editor, Others, Refuse, Drop
  <1>5. CASE snapshot(c) BY <1>5 DEF snapshot, Others, Refuse, Drop, protectionVars
  <1>6. CASE GetEditor(c) BY <1>6 DEF GetEditor, Others, protectionVars
  <1>7. CASE Abandon(c) BY <1>7 DEF Abandon, Others, Refuse, Drop
  <1>8. CASE GetLife(c) BY <1>8 DEF GetLife, Others
  <1>9. CASE Protection_refuses(c) BY <1>9 DEF Protection_refuses, Others, Refuse, Drop
  <1>10. CASE ready(c) BY <1>10 DEF ready, Others, Refuse, Drop
  <1>11. CASE Enter(c) BY <1>11 DEF Enter, Others, Refuse, Drop, protectionVars
  <1>12. CASE Leave(c)
    <2>1. \/ sessions' = sessions
          \/ sessions' = sessions \ {c}
          \/ sessions' = sessions \cup {c} /\ kind[c] = "BeginEdit"
      BY <1>12 DEF Leave, Edited
    <2> QED BY <1>12, <2>1 DEF Leave, Drop, Others, StageKinds
  <1>13. CASE End(c) BY <1>13 DEF End, protectionVars
  <1>14. CASE CancelTask(c) BY <1>14 DEF CancelTask, protectionVars
  <1>15. ASSUME NEW k \in StageKinds, Stage(c, k)
         PROVE  KindsFit'
    BY <1>15 DEF Stage, protectionVars
  <1>16. ASSUME NEW k \in Requests, operation(c, k)
         PROVE  KindsFit'
    BY <1>16 DEF operation, protectionVars
  <1>17. CASE Submit(c) BY <1>17 DEF Submit, protectionVars
  <1> QED
    BY <1>1, <1>2, <1>3, <1>4, <1>5, <1>6, <1>7, <1>8, <1>9, <1>10, <1>11, <1>12,
       <1>13, <1>14, <1>15, <1>16, <1>17 DEF ClientMoves, ClientStep

\* Every reservation has an owner that drops it.
LEMMA ClientsOwn ==
  ASSUME TypeOK, KindsFit, ReservationsOwned, TablesInv', NEW c \in Client, ClientMoves(c)
  PROVE  ReservationsOwned'
  <1> USE DEF TypeOK, protectionVars, AtWork, Tables!Held, Go
  <1>0. ClientOnly(c) /\ \A d \in Client : pc'[d] = IF d = c THEN pc'[c] ELSE pc[d]
    <2>1. ClientOnly(c)
      BY ClientsAlone
    <2> QED BY <2>1 DEF ClientOnly
  <1>1. granted' \subseteq Client /\ \A d \in granted' : Tables!IsExclusive(d)'
    BY DEF TablesInv
  <1>2. ASSUME UNCHANGED <<sessions, entries, granted>>, kind' = kind,
               AtWork(c) <=> AtWork(c)'
        PROVE  ReservationsOwned'
    BY <1>0, <1>1, <1>2 DEF ReservationsOwned
  <1>3. ASSUME UNCHANGED <<sessions, entries, granted>>, ~AtWork(c), ~AtWork(c)'
        PROVE  ReservationsOwned'
    <2>1. \A d \in Client \ {c} : kind'[d] = kind[d]
      BY <1>0 DEF ClientOnly
    <2> QED BY <1>0, <1>1, <1>3, <2>1 DEF ReservationsOwned
  <1>4. ASSUME Drop(c), kind' = kind, \A d \in Client \ {c} : d \in sessions' <=> d \in sessions,
               c \in sessions' /\ c \notin sessions => kind[c] = "BeginEdit" /\ AtWork(c),
               sessions' \subseteq Client
        PROVE  ReservationsOwned'
    <2>1. \A d \in Client \ {c} : entries'[d] = entries[d]
      BY <1>4 DEF Drop, Tables!Release
    <2>2. ~AtWork(c)'
      BY <1>4 DEF Drop
    <2>3. Tables!Held(c)' => c \in sessions'
      BY <1>4 DEF Drop, Tables!Release, Tables!NoEntry
    <2>4. c \in sessions' => entries'[c].purpose = "Manual"
      BY <1>4 DEF Drop, ReservationsOwned
    <2> QED BY <1>0, <1>1, <1>4, <2>1, <2>2, <2>3, <2>4, ZenonT(30) DEF ReservationsOwned
  <1>5. ASSUME Refuse(c), kind' = kind
        PROVE  ReservationsOwned'
    BY <1>4, <1>5 DEF Refuse
  <1>6. ASSUME NEW p \in Tables!Purpose, NEW s \in Tables!Scope, Tables!Reserve(c, p, s),
               kind' = kind, UNCHANGED sessions, AtWork(c)', kind[c] = "BeginEdit" <=> p = "Manual"
        PROVE  ReservationsOwned'
    <2>1. \A d \in Client \ {c} : entries'[d] = entries[d]
      BY <1>6 DEF Tables!Reserve
    <2>2. c \notin sessions /\ entries'[c].purpose = p
      BY <1>6 DEF Tables!Reserve, ReservationsOwned
    <2>3. \A d \in Client \ {c} :
             (AtWork(d)' <=> AtWork(d)) /\ (Tables!Held(d)' <=> Tables!Held(d))
      BY <1>0, <2>1
    <2>4. \A d \in Client : Tables!Held(d)' => AtWork(d)' \/ d \in sessions'
      BY <1>6, <2>3 DEF ReservationsOwned
    <2>5. \A d \in Client : kind'[d] = "BeginEdit" /\ AtWork(d)' => entries'[d].purpose = "Manual"
      <3>1. \A d \in Client \ {c} :
               kind[d] = "BeginEdit" /\ AtWork(d)' => entries[d].purpose = "Manual"
        BY <2>3 DEF ReservationsOwned
      <3>2. kind[c] = "BeginEdit" => entries'[c].purpose = "Manual"
        BY <1>6, <2>2
      <3> QED BY <1>6, <2>1, <3>1, <3>2
    <2>6. \A d \in sessions' : entries'[d].purpose = "Manual"
      BY <1>6, <2>1, <2>2 DEF ReservationsOwned
    <2> QED BY <1>1, <2>4, <2>5, <2>6 DEF ReservationsOwned
  <1>11. CASE EndTask(c) BY <1>3, <1>11 DEF EndTask
  <1>12. CASE Line(c)
    <2>1. kind[c] # "BeginEdit" /\ kind' = kind /\ UNCHANGED <<sessions, entries, granted>>
      BY <1>12 DEF Line, Others, RunKinds
    <2> QED BY <1>0, <1>1, <1>12, <2>1 DEF Line, ReservationsOwned
  <1>13. CASE with_editor(c)
    <2>1. kind[c] # "BeginEdit" /\ kind' = kind /\ UNCHANGED <<sessions, entries, granted>>
      BY <1>13 DEF with_editor, Others, EditorKinds
    <2> QED BY <1>0, <1>1, <1>13, <2>1 DEF with_editor, ReservationsOwned
  <1>14. CASE begin_editor(c)
    BY <1>5, <1>6, <1>14 DEF begin_editor, Others, Tables!Purpose, Tables!Scope
  <1>15. CASE snapshot(c)
    BY <1>0, <1>1, <1>5, <1>15 DEF snapshot, Others, ReservationsOwned
  <1>16. CASE GetEditor(c) BY <1>2, <1>16 DEF GetEditor, Others
  <1>17. CASE Abandon(c) BY <1>5, <1>17 DEF Abandon, Others
  <1>18. CASE GetLife(c)
    <2>1. scope(c) \in Tables!Scope /\ {table[c]} \in Tables!Scope
      BY DEF scope, Tables!Scope
    <2> QED BY <1>2, <1>6, <1>18, <2>1 DEF GetLife, Others, Tables!Purpose
  <1>19. CASE Protection_refuses(c) BY <1>5, <1>19 DEF Protection_refuses, Others
  <1>20. CASE ready(c)
    BY <1>0, <1>1, <1>5, <1>20 DEF ready, Others, Tables!Grant, ReservationsOwned
  <1>21. CASE Enter(c) BY <1>2, <1>5, <1>21 DEF Enter, Others
  <1>22. CASE Leave(c)
    <2>1. \/ sessions' = sessions
          \/ sessions' = sessions \ {c}
          \/ sessions' = sessions \cup {c} /\ kind[c] = "BeginEdit"
      BY <1>22 DEF Leave, Edited
    <2> QED BY <1>4, <1>22, <2>1 DEF Leave, Others
  <1>23. CASE End(c) BY <1>3, <1>23 DEF End
  <1>24. CASE CancelTask(c) BY <1>2, <1>24 DEF CancelTask
  <1>25. ASSUME NEW k \in StageKinds, Stage(c, k)
         PROVE  ReservationsOwned'
    BY <1>3, <1>25 DEF Stage
  <1>26. ASSUME NEW k \in Requests, operation(c, k)
         PROVE  ReservationsOwned'
    BY <1>3, <1>26 DEF operation
  <1>27. CASE Submit(c) BY <1>3, <1>27 DEF Submit
  <1> QED
    BY <1>11, <1>12, <1>13, <1>14, <1>15, <1>16, <1>17, <1>18, <1>19, <1>20, <1>21, <1>22,
       <1>23, <1>24, <1>25, <1>26, <1>27 DEF ClientMoves, ClientStep

\* When a client's step changes the sessions or the project, and when it is let
\* into the project.
UseStep(c) ==
    /\ \/ UNCHANGED <<project, sessions>>
       \/ /\ pc[c] = "Using" /\ pc'[c] = "Ending" /\ kind' = kind
          /\ project' \in Published(c) /\ sessions' \in Edited(c)
    /\ InUse(c)' => InUse(c) \/ (pc[c] = "Blocking" /\ project # "None")
    /\ kind'[c] = "Snapshot" /\ AtWork(c)' =>
          sessions = {} \/ (kind[c] = "Snapshot" /\ AtWork(c))
    /\ pc[c] = "Idle" /\ pc'[c] # "Idle" => ~closed

\* Sessions and project change only in the hands of who uses them.
LEMMA ClientsUse ==
  ASSUME TypeOK, KindsFit, NEW c \in Client, ClientMoves(c)
  PROVE  UseStep(c)
  <1> USE DEF TypeOK, UseStep, InUse, AtWork, Go, protectionVars
  <1>0. ASSUME Refuse(c), kind' = kind, pc[c] # "Idle"
        PROVE  UseStep(c)
    BY <1>0 DEF Refuse, Drop
  <1>1. CASE EndTask(c) BY <1>1 DEF EndTask
  <1>2. CASE Line(c) BY <1>2 DEF Line, Others, RunKinds
  <1>3. CASE with_editor(c) BY <1>3 DEF with_editor, Others, EditorKinds
  <1>4. CASE begin_editor(c) BY <1>0, <1>4 DEF begin_editor, Others
  <1>5. CASE snapshot(c) BY <1>0, <1>5 DEF snapshot, Others, is_editing
  <1>6. CASE GetEditor(c) BY <1>6 DEF GetEditor, Others
  <1>7. CASE Abandon(c) BY <1>0, <1>7 DEF Abandon, Others
  <1>8. CASE GetLife(c) BY <1>8 DEF GetLife, Others
  <1>9. CASE Protection_refuses(c) BY <1>0, <1>9 DEF Protection_refuses, Others
  <1>10. CASE ready(c) BY <1>0, <1>10 DEF ready, Others
  <1>11. CASE Enter(c) BY <1>0, <1>11 DEF Enter, Others, Proceeds
  <1>12. CASE Leave(c) BY <1>12 DEF Leave, Others, Drop
  <1>13. CASE End(c) BY <1>13 DEF End
  <1>14. CASE CancelTask(c) BY <1>14 DEF CancelTask, IsTask, KindsFit, Tracked
  <1>15. ASSUME NEW k \in StageKinds, Stage(c, k)
         PROVE  UseStep(c)
    BY <1>15 DEF Stage
  <1>16. ASSUME NEW k \in Requests, operation(c, k)
         PROVE  UseStep(c)
    BY <1>16 DEF operation, check
  <1>17. CASE Submit(c) BY <1>17 DEF Submit, check
  <1> QED
    BY <1>1, <1>2, <1>3, <1>4, <1>5, <1>6, <1>7, <1>8, <1>9, <1>10, <1>11, <1>12,
       <1>13, <1>14, <1>15, <1>16, <1>17 DEF ClientMoves, ClientStep

\* All steps of a client.
LEMMA ClientsKeepInv ==
  ASSUME RuntimeInv, AdmissionInv', NEW c \in Client, ClientMoves(c)
  PROVE  RuntimeInv'
  <1> USE DEF RuntimeInv
  <1>1. ClientOnly(c) /\ UseStep(c)
    BY ClientsAlone, ClientsUse
  <1>2. LinesKept
    BY ClientsKeepLines DEF Locks
  <1>3. KindsFit'
    BY KindsStep
  <1>4. TablesInv'
    BY ClientsKeepTables DEF TablesInv, TypeOK, ReservationsOwned
  <1>5. ReservationsOwned'
    BY <1>4, ClientsOwn
  <1>6. sessions' \subseteq Client
    BY <1>1 DEF UseStep, Edited, TypeOK
  <1>7. TypeOK'
    <2>1. project' \in {"None", "Untitled", "Saved"}
      BY <1>1 DEF UseStep, Published, TypeOK
    <2>2. UNCHANGED <<available, closed, attempt, cut, tracker, table, saver, discard,
                      host, closing>>
      BY <1>1 DEF ClientOnly, admissionVars
    <2>3. /\ pc' \in [Client -> Position] /\ kind' \in [Client -> Kinds]
          /\ token' \in [Client -> BOOLEAN] /\ stages' \in [Client -> 0..MaxStages + 1]
      BY <1>1 DEF ClientOnly, TypeOK
    <2> QED BY <1>2, <1>4, <1>6, <2>1, <2>2, <2>3 DEF TypeOK, LinesKept, TablesInv
  <1>8. \A d \in Client : pc'[d] = IF d = c THEN pc'[c] ELSE pc[d]
    BY <1>1 DEF ClientOnly, TypeOK
  <1>9. \A d \in Client : kind'[d] = IF d = c THEN kind'[c] ELSE kind[d]
    BY <1>1 DEF ClientOnly, TypeOK
  <1>10. UNCHANGED <<saver, discard, host, closing, closed>>
    BY <1>1 DEF ClientOnly, admissionVars
  <1>11. \A d \in Client :
            kind[d] \in {"BeginEdit", "Snapshot"} /\ AtWork(d) /\ pc[d] # "WantEditor"
                => HoldsEditor(d)
    BY DEF GuardsHeld, EditorUsers, AtWork
  <1>12. CopiersFindRest'
    <2>1. CASE sessions' \subseteq sessions
      BY <1>1, <1>8, <1>9, <1>10, <2>1 DEF CopiersFindRest, UseStep, AtWork
    <2>2. CASE ~(sessions' \subseteq sessions)
      <3>1. kind[c] = "BeginEdit" /\ pc[c] = "Using" /\ pc'[c] = "Ending" /\ kind' = kind
        BY <1>1, <2>2 DEF UseStep, Edited
      <3>2. HoldsEditor(c)
        BY <1>11, <3>1 DEF AtWork
      <3>3. \A k \in Savers : saver[k] \notin {"Wait", "Saving"}
        BY <3>2, OneEditor, Actors DEF GuardsHeld
      <3>4. \A d \in Client : ~(kind[d] = "Snapshot" /\ AtWork(d))
        BY <1>11, <3>1, <3>2, OneEditor DEF KindsFit, EditorKinds
      <3> QED BY <1>8, <1>10, <3>1, <3>3, <3>4 DEF CopiersFindRest, AtWork
    <2> QED BY <2>1, <2>2
  <1>13. ProjectOutlivesUse'
    <2>1. CASE project' = project
      BY <1>1, <1>8, <1>9, <1>10, <2>1 DEF ProjectOutlivesUse, UseStep, InUse
    <2>2. CASE project' # project
      <3>1. kind[c] = "Initialize" /\ pc[c] = "Using" /\ pc'[c] = "Ending" /\ kind' = kind
        BY <1>1, <2>2 DEF UseStep, Published
      <3>2. HoldsLifecycle(c) /\ Writes(c)
        BY <3>1 DEF GuardsHeld, Writes
      <3>3. \A d \in Client : pc[d] = "Using" => d = c
        BY <3>2, WriterAlone DEF GuardsHeld
      <3>4. \A k \in Savers : saver[k] # "Saving"
        BY <3>2, WriterAlone, Actors DEF GuardsHeld
      <3> QED BY <1>8, <1>10, <3>1, <3>3, <3>4 DEF ProjectOutlivesUse, InUse
    <2> QED BY <2>1, <2>2
  <1>14. CloseInv'
    <2>1. CASE closing \in {"Discard", "Release", "Closed"}
      <3>1. closed /\ ~has_work
        BY <2>1 DEF AdmissionInv, CloseInv
      <3>2. pc[c] = "Idle" /\ pc'[c] = "Idle" /\ UNCHANGED <<project, sessions>>
        BY <1>1, <3>1 DEF UseStep, has_work, Tracked
      <3> QED BY <1>8, <1>10, <3>2 DEF CloseInv, has_work, Tracked
    <2>2. CASE closing \notin {"Discard", "Release", "Closed"}
      BY <1>10, <2>2 DEF CloseInv, TypeOK
    <2> QED BY <2>1, <2>2
  <1> QED BY <1>2, <1>3, <1>4, <1>5, <1>7, <1>12, <1>13, <1>14 DEF LinesKept, TablesInv
-----------------------------------------------------------------------------
\* What only the tokens and the others touch.
LEMMA ClientsFrame ==
  ASSUME RuntimeInv, Clients, token' = token \/ CancelAll
  PROVE  /\ KindsFit' /\ ReservationsOwned' /\ Tables!ExclusiveUse'
         /\ token' \in [Client -> BOOLEAN]
         /\ has_work' <=> has_work
  <1> USE DEF RuntimeInv, TypeOK, Clients, protectionVars
  <1>1. token' \in [Client -> BOOLEAN]
    BY DEF CancelAll
  <1>2. KindsFit'
    BY DEF KindsFit, Tracked, IsTask, CancelAll
  <1>3. ReservationsOwned'
    BY DEF ReservationsOwned, Tables!IsExclusive, Tables!Held, AtWork
  <1>4. Tables!ExclusiveUse'
    BY DEF Tables!ExclusiveUse, Tables!IsExclusive, Tables!IsMutation
  <1>5. has_work' <=> has_work
    BY DEF has_work, Tracked
  <1> QED BY <1>1, <1>2, <1>3, <1>4, <1>5

\* What a step of a saver or of the host may do besides moving in the lines.
SavingOnly ==
    /\ Clients /\ UNCHANGED <<discard, closing>>
    /\ cut' \in BOOLEAN /\ tracker' \in {"Open", "Closed"}
    /\ \/ project' = project
       \/ project' = "Saved" /\ closing # "Closed"
    /\ saver' \in [Savers -> {"Idle", "Start", "Wait", "Saving", "Done", "Failed"}]
    /\ host' \in {"Idle", "Paused", "Unedited", "Prompt", "Interrupting", "Waiting",
                  "SavePrompt", "Saving", "Approved", "Stopping", "Done"}
    /\ host' = "Saving" <=> saver'["Host"] # "Idle"
    /\ \A k \in Savers :
          saver'[k] \in {"Wait", "Saving"} => saver[k] \in {"Wait", "Saving"} \/ sessions = {}
    /\ \A k \in Savers :
          saver'[k] = "Saving" => saver[k] = "Saving" \/ (project # "None" /\ ~closed)

\* What saves and the host's dialog may do keeps the invariant.
LEMMA SavingKeepsRest ==
  ASSUME RuntimeInv, AdmissionInv', SavingOnly, LinesKept, token' = token \/ CancelAll
  PROVE  RuntimeInv'
  <1> USE DEF RuntimeInv, SavingOnly
  <1>1. /\ KindsFit' /\ ReservationsOwned' /\ Tables!ExclusiveUse'
        /\ token' \in [Client -> BOOLEAN]
        /\ has_work' <=> has_work
    BY ClientsFrame
  <1>2. UNCHANGED <<sessions, entries, granted, pc, kind, table, stages>>
    BY DEF Clients, protectionVars
  <1>3. TypeOK'
    BY <1>1, <1>2 DEF TypeOK, LinesKept, AdmissionInv
  <1>4. CopiersFindRest'
    BY <1>2 DEF CopiersFindRest, AtWork
  <1>5. CloseInv'
    BY <1>1, <1>2 DEF CloseInv, AdmissionInv
  <1>6. ProjectOutlivesUse'
    BY <1>2 DEF ProjectOutlivesUse, InUse
  <1> QED BY <1>1, <1>3, <1>4, <1>5, <1>6 DEF LinesKept

\* Save, Save As and rename.
LEMMA SaversKeepInv ==
  ASSUME RuntimeInv, AdmissionInv',
         UserSave \/ rename \/ RenameSave \/ (\E k \in Savers : SaveStep(k))
  PROVE  RuntimeInv'
  <1> USE DEF RuntimeInv, Locks, Savers, SaveRest, clientVars, admissionVars
  <1>0. /\ Clients /\ UNCHANGED <<discard, closing, token>>
        /\ cut' \in BOOLEAN /\ tracker' \in {"Open", "Closed"}
    BY DEF UserSave, rename, RenameSave, SaveStep, EnterSave, LeaveSave, EndSave, Clients,
           begin_close, DropAttempt, TypeOK
  <1>1. ASSUME NEW k \in {"User", "Rename"}, saver[k] \in {"Idle", "Start"}, save_project(k),
               UNCHANGED <<project, host>>
        PROVE  RuntimeInv'
    <2>1. LinesKept
      BY <1>0, <1>1, SaveStartsLines
    <2>2. ~is_editing => sessions = {}
      BY DEF is_editing
    <2>3. SavingOnly
      BY <1>0, <1>1, <2>2 DEF SavingOnly, save_project, TypeOK, CloseInv
    <2> QED BY <1>0, <2>1, <2>3, SavingKeepsRest
  <1>2. CASE UserSave BY <1>1, <1>2 DEF UserSave
  <1>3. CASE rename
    <2>1. SavingOnly
      BY <1>0, <1>3 DEF rename, SavingOnly, TypeOK, CloseInv
    <2>2. LinesKept
      BY <1>0, <1>3, QuietLines DEF rename, TypeOK, GuardsHeld
    <2> QED BY <1>0, <2>1, <2>2, SavingKeepsRest
  <1>4. CASE RenameSave
    <2>1. CASE has_work /\ saver' = [saver EXCEPT !["Rename"] = "Failed"] /\ UNCHANGED lockVars
      <3>1. SavingOnly
        BY <1>0, <1>4, <2>1 DEF RenameSave, SavingOnly, TypeOK, CloseInv
      <3>2. LinesKept
        BY <1>0, <1>4, <2>1, QuietLines DEF RenameSave, TypeOK, GuardsHeld
      <3> QED BY <1>0, <3>1, <3>2, SavingKeepsRest
    <2>2. CASE save_project("Rename")
      BY <1>1, <1>4, <2>2 DEF RenameSave
    <2> QED BY <1>4, <2>1, <2>2 DEF RenameSave
  <1>5. ASSUME NEW k \in Savers, NEW r \in {"Done", "Failed"}, DropSave(k, r),
               saver[k] \in {"Wait", "Saving"},
               project' = project \/ (project' = "Saved" /\ saver[k] = "Saving"),
               UNCHANGED host
        PROVE  RuntimeInv'
    <2>1. LinesKept
      BY <1>0, <1>5, SaveEndsLines
    <2>2. SavingOnly
      BY <1>0, <1>5 DEF SavingOnly, DropSave, TypeOK, CloseInv
    <2> QED BY <1>0, <2>1, <2>2, SavingKeepsRest
  <1>6. ASSUME NEW k \in Savers, EnterSave(k)
        PROVE  RuntimeInv'
    <2>1. CASE DropSave(k, "Failed")
      BY <1>5, <1>6, <2>1 DEF EnterSave
    <2>2. CASE /\ ~closed /\ project # "None"
               /\ saver' = [saver EXCEPT ![k] = "Saving"] /\ UNCHANGED lockVars
      <3>1. SavingOnly
        BY <1>0, <1>6, <2>2 DEF EnterSave, SavingOnly, TypeOK, CloseInv
      <3>2. LinesKept
        BY <1>0, <1>6, <2>2, QuietLines DEF EnterSave, TypeOK, GuardsHeld
      <3> QED BY <1>0, <3>1, <3>2, SavingKeepsRest
    <2> QED BY <1>6, <2>1, <2>2 DEF EnterSave
  <1>7. ASSUME NEW k \in Savers, LeaveSave(k)
        PROVE  RuntimeInv'
    BY <1>5, <1>7 DEF LeaveSave
  <1>8. ASSUME NEW k \in Savers, EndSave(k)
        PROVE  RuntimeInv'
    <2>1. SavingOnly
      BY <1>0, <1>8 DEF EndSave, SavingOnly, TypeOK, CloseInv
    <2>2. LinesKept
      BY <1>0, <1>8, QuietLines DEF EndSave, TypeOK, GuardsHeld
    <2> QED BY <1>0, <2>1, <2>2, SavingKeepsRest
  <1> QED BY <1>2, <1>3, <1>4, <1>6, <1>7, <1>8 DEF SaveStep

\* The desktop's close dialog.
LEMMA HostsKeepInv ==
  ASSUME RuntimeInv, AdmissionInv', HostBegin \/ HostAnswer \/ HostSave \/ HostStep
  PROVE  RuntimeInv'
  <1> USE DEF RuntimeInv, Locks, HostRest, admissionVars
  <1>0. /\ Clients /\ UNCHANGED <<project, discard, closing>>
        /\ cut' \in BOOLEAN /\ tracker' \in {"Open", "Closed"}
        /\ token' = token \/ CancelAll
    BY DEF HostBegin, HostAnswer, HostSave, HostStep, HostCheck, HostWork, HostInterrupt,
           HostDrained, HostSaved, HostDone, Clients, begin_close, DropAttempt, TypeOK
  <1>1. ASSUME UNCHANGED <<lockVars, saver>>, host # "Saving",
               host' \in {"Idle", "Paused", "Unedited", "Prompt", "Interrupting", "Waiting",
                          "SavePrompt", "Approved", "Done"}
        PROVE  RuntimeInv'
    <2>1. SavingOnly
      BY <1>0, <1>1 DEF SavingOnly, TypeOK, CloseInv
    <2>2. LinesKept
      BY <1>0, <1>1, QuietLines DEF GuardsHeld
    <2> QED BY <1>0, <2>1, <2>2, SavingKeepsRest
  <1>2. CASE HostBegin BY <1>1, <1>2 DEF HostBegin
  <1>3. CASE HostAnswer BY <1>1, <1>3 DEF HostAnswer
  <1>4. CASE HostSave
    <2>1. saver["Host"] = "Idle"
      BY <1>4 DEF HostSave, CloseInv
    <2>2. CASE host' = "Saving" /\ save_project("Host")
      <3>1. ~is_editing => sessions = {}
        BY DEF is_editing
      <3>2. SavingOnly
        BY <1>0, <2>1, <2>2, <3>1 DEF SavingOnly, save_project, TypeOK, Savers
      <3>3. LinesKept
        BY <1>0, <2>1, <2>2, SaveStartsLines DEF Savers
      <3> QED BY <1>0, <3>2, <3>3, SavingKeepsRest
    <2> QED BY <1>1, <1>4, <2>2 DEF HostSave
  <1>5. CASE HostCheck BY <1>1, <1>5 DEF HostCheck
  <1>6. CASE HostWork BY <1>1, <1>6 DEF HostWork
  <1>7. CASE HostInterrupt BY <1>1, <1>7 DEF HostInterrupt
  <1>8. CASE HostDrained BY <1>1, <1>8 DEF HostDrained
  <1>9. CASE HostSaved
    <2>1. SavingOnly
      BY <1>0, <1>9 DEF HostSaved, SavingOnly, TypeOK, Savers
    <2>2. LinesKept
      BY <1>0, <1>9, QuietLines DEF HostSaved, TypeOK, GuardsHeld, Savers
    <2> QED BY <1>0, <2>1, <2>2, SavingKeepsRest
  <1>10. CASE HostDone BY <1>1, <1>10 DEF HostDone
  <1> QED BY <1>2, <1>3, <1>4, <1>5, <1>6, <1>7, <1>8, <1>9, <1>10 DEF HostStep
-----------------------------------------------------------------------------
\* The conjuncts about savers and uses, when only the close, its cleanup and the
\* tokens move.
LEMMA CleanupFrame ==
  ASSUME RuntimeInv, Clients, UNCHANGED <<saver, project>>
  PROVE  CopiersFindRest' /\ ProjectOutlivesUse'
  <1> USE DEF RuntimeInv, Clients, protectionVars
  <1>1. CopiersFindRest'
    BY DEF CopiersFindRest, AtWork
  <1>2. ProjectOutlivesUse'
    BY DEF ProjectOutlivesUse, InUse
  <1> QED BY <1>1, <1>2

\* The final close, and the cleanup of an unloaded window.
LEMMA ClosesKeepInv ==
  ASSUME RuntimeInv, AdmissionInv', close \/ CloseStep \/ webview_unloaded
  PROVE  RuntimeInv'
  <1> USE DEF RuntimeInv, Locks, CloseRest, Discarders
  <1>0. /\ Clients /\ UNCHANGED <<saver, cut, attempt>>
        /\ token' = token \/ CancelAll
        /\ project' = project \/ Release
        /\ tracker' \in {"Open", "Closed"}
    BY DEF close, CloseStep, Interrupt, Drained, AwaitLast, Release, webview_unloaded,
           Clients, clientVars, admissionVars, TypeOK
  <1>1. /\ KindsFit' /\ ReservationsOwned' /\ Tables!ExclusiveUse'
        /\ token' \in [Client -> BOOLEAN]
        /\ has_work' <=> has_work
    BY <1>0, ClientsFrame
  <1>2. UNCHANGED <<sessions, entries, granted, pc, kind, table, stages>>
    BY <1>0 DEF Clients, protectionVars
  <1>3. ASSUME LinesKept, CloseInv', CopiersFindRest', ProjectOutlivesUse',
               project' \in {"None", "Untitled", "Saved"},
               discard' \in [Discarders -> {"Idle", "WantEditor", "WantLife", "Done"}],
               host' \in {"Idle", "Paused", "Unedited", "Prompt", "Interrupting", "Waiting",
                          "SavePrompt", "Saving", "Approved", "Stopping", "Done"},
               closing' \in {"Open", "Interrupt", "Wait", "Discard", "Release", "Closed"}
        PROVE  RuntimeInv'
    <2>1. TypeOK'
      BY <1>0, <1>1, <1>2, <1>3 DEF TypeOK, LinesKept, AdmissionInv
    <2> QED BY <1>1, <1>3, <2>1 DEF LinesKept
  <1>4. CASE close
    <2>1. closing = "Open"
      BY <1>4 DEF close, AdmissionInv
    <2>2. LinesKept
      BY <1>0, <1>4, <2>1, QuietLines DEF close, GuardsHeld
    <2>3. CloseInv'
      BY <1>1, <1>2, <1>4, <2>1 DEF close, CloseInv
    <2>4. CopiersFindRest' /\ ProjectOutlivesUse'
      BY <1>0, <1>4, CleanupFrame DEF close
    <2> QED BY <1>3, <1>4, <2>2, <2>3, <2>4 DEF close, TypeOK
  <1>5. CASE Interrupt
    <2>1. LinesKept
      BY <1>0, <1>5, QuietLines DEF Interrupt, GuardsHeld
    <2>2. CloseInv'
      BY <1>1, <1>2, <1>5 DEF Interrupt, CloseInv
    <2>3. CopiersFindRest' /\ ProjectOutlivesUse'
      BY <1>0, <1>5, CleanupFrame DEF Interrupt
    <2> QED BY <1>3, <1>5, <2>1, <2>2, <2>3 DEF Interrupt, TypeOK
  <1>6. CASE Drained
    <2>1. discard["Closer"] = "Idle"
      BY <1>6 DEF Drained, CloseInv
    <2>2. LinesKept
      BY <1>0, <1>6, <2>1, DiscardJoinsEditor DEF Drained
    <2>3. CloseInv'
      BY <1>1, <1>2, <1>6, <2>1 DEF Drained, discard_cell_edit, CloseInv, TypeOK
    <2>4. CopiersFindRest' /\ ProjectOutlivesUse'
      BY <1>0, <1>6, CleanupFrame DEF Drained
    <2> QED BY <1>3, <1>6, <2>2, <2>3, <2>4 DEF Drained, discard_cell_edit, TypeOK
  <1>7. CASE AwaitLast
    <2>1. "Closer" \notin LifecycleUsers
      BY <1>7, Actors DEF AwaitLast, LifecycleUsers
    <2>2. LinesKept
      BY <1>0, <1>7, <2>1, CleanupJoinsLifecycle DEF AwaitLast
    <2>3. CloseInv'
      BY <1>1, <1>2, <1>7 DEF AwaitLast, CloseInv
    <2>4. CopiersFindRest' /\ ProjectOutlivesUse'
      BY <1>0, <1>7, CleanupFrame DEF AwaitLast
    <2> QED BY <1>3, <1>7, <2>2, <2>3, <2>4 DEF AwaitLast, TypeOK
  <1>8. CASE Release
    <2>1. LinesKept
      BY <1>0, <1>8, ReleaseLeavesLifecycle DEF Release, CloseInv
    <2>2. HoldsLifecycle("Closer") /\ Writes("Closer")
      BY <1>8 DEF Release, Writes
    <2>3. \A c \in Client : pc[c] # "Using"
      BY <2>2, WriterAlone, Actors DEF GuardsHeld
    <2>4. \A k \in Savers : saver[k] # "Saving"
      BY <2>2, WriterAlone, Actors DEF GuardsHeld
    <2>5. CopiersFindRest'
      BY <1>0, <1>2 DEF CopiersFindRest, AtWork
    <2>6. ProjectOutlivesUse'
      BY <1>0, <1>2, <2>3, <2>4 DEF ProjectOutlivesUse, InUse
    <2>7. CloseInv'
      BY <1>0, <1>1, <1>2, <1>8, <2>4 DEF Release, CloseInv
    <2> QED BY <1>3, <1>8, <2>1, <2>5, <2>6, <2>7 DEF Release, TypeOK
  <1>9. CASE webview_unloaded
    <2>1. LinesKept
      BY <1>0, <1>9, DiscardJoinsEditor DEF webview_unloaded
    <2>2. CloseInv'
      BY <1>1, <1>2, <1>9 DEF webview_unloaded, discard_cell_edit, CloseInv, TypeOK
    <2>3. CopiersFindRest' /\ ProjectOutlivesUse'
      BY <1>0, <1>9, CleanupFrame DEF webview_unloaded
    <2> QED BY <1>3, <1>9, <2>1, <2>2, <2>3 DEF webview_unloaded, discard_cell_edit, TypeOK
  <1> QED BY <1>4, <1>5, <1>6, <1>7, <1>8, <1>9 DEF CloseStep

\* discard_cell_edit, which takes the sessions from their owners.
LEMMA DiscardsKeepInv ==
  ASSUME RuntimeInv, AdmissionInv', NEW d \in Discarders, DiscardLine(d) \/ Discard(d)
  PROVE  RuntimeInv'
  <1> USE DEF RuntimeInv, Locks, admissionVars, clientVars
  <1>1. CASE DiscardLine(d)
    <2>0. Clients /\ UNCHANGED <<project, token, saver, closing, host>>
      BY <1>1 DEF DiscardLine, Clients
    <2>1. /\ KindsFit' /\ ReservationsOwned' /\ Tables!ExclusiveUse'
          /\ has_work' <=> has_work
      BY <2>0, ClientsFrame
    <2>2. d \notin LifecycleUsers
      BY <1>1, Actors DEF DiscardLine, LifecycleUsers, CloseInv
    <2>3. LinesKept
      BY <1>1, <2>0, <2>2, CleanupJoinsLifecycle DEF DiscardLine
    <2>4. CopiersFindRest' /\ ProjectOutlivesUse'
      BY <2>0, CleanupFrame
    <2>5. CloseInv'
      BY <1>1, <2>0, <2>1 DEF DiscardLine, CloseInv, TypeOK, Discarders, Clients, protectionVars
    <2>6. TypeOK'
      BY <1>1, <2>3 DEF DiscardLine, TypeOK, LinesKept, protectionVars
    <2> QED BY <2>1, <2>3, <2>4, <2>5, <2>6 DEF LinesKept
  <1>2. CASE Discard(d)
    <2>0. UNCHANGED <<project, available, closed, attempt, cut, tracker, pc, kind, table, token,
                      stages, saver, host, closing>>
      BY <1>2 DEF Discard
    <2>1. /\ sessions' = {}
          /\ entries' = [c \in Client |-> IF c \in sessions THEN Tables!NoEntry ELSE entries[c]]
          /\ granted' = granted \ sessions
      BY <1>2 DEF Discard
    <2>2. LinesKept
      BY <1>2, <2>0, DiscardLeavesLines DEF Discard, CloseInv
    <2>3. TablesInv'
      BY <2>1, ReleaseKeepsTables DEF TablesInv, TypeOK, ReservationsOwned
    <2>4. KindsFit'
      BY <2>0, <2>1 DEF KindsFit, Tracked, IsTask
    <2>5. ReservationsOwned'
      <3>1. \A c \in granted' : Tables!IsExclusive(c)'
        BY <2>3 DEF TablesInv
      <3>2. \A c \in Client : c \in sessions => ~Tables!Held(c)'
        BY <2>1 DEF Tables!Held, Tables!NoEntry
      <3>3. \A c \in Client : c \notin sessions => entries'[c] = entries[c]
        BY <2>1
      <3>4. \A c \in Client : Tables!Held(c)' => AtWork(c)'
        BY <2>0, <3>2, <3>3 DEF ReservationsOwned, Tables!Held, AtWork
      <3>5. \A c \in Client : kind'[c] = "BeginEdit" /\ AtWork(c)' => entries'[c].purpose = "Manual"
        <4>1. \A c \in Client : kind[c] = "BeginEdit" /\ AtWork(c) => c \notin sessions
          BY DEF KindsFit, AtWork, EditorKinds
        <4> QED BY <2>0, <3>3, <4>1 DEF ReservationsOwned, AtWork
      <3> QED BY <2>1, <3>1, <3>4, <3>5 DEF ReservationsOwned
    <2>6. CopiersFindRest'
      BY <2>1 DEF CopiersFindRest
    <2>7. ProjectOutlivesUse'
      BY <2>0 DEF ProjectOutlivesUse, InUse
    <2>8. CloseInv'
      BY <1>2, <2>0, <2>1 DEF Discard, CloseInv, TypeOK, Discarders, has_work, Tracked
    <2>9. TypeOK'
      BY <1>2, <2>0, <2>1, <2>2, <2>3 DEF Discard, TypeOK, LinesKept, TablesInv
    <2> QED BY <2>2, <2>3, <2>4, <2>5, <2>6, <2>7, <2>8, <2>9 DEF LinesKept, TablesInv
  <1> QED BY <1>1, <1>2
-----------------------------------------------------------------------------
\* A new runtime.
LEMMA RuntimeInvInit == Init => RuntimeInv
  <1> SUFFICES ASSUME Init PROVE RuntimeInv
    OBVIOUS
  <1> USE DEF Init
  <1>1. Range(<<>>) = {} /\ IsInjective(<<>>) /\ <<>> \in Seq(Actor)
    BY EmptySeq DEF Range, IsInjective
  <1>2. TypeOK
    <2>1. entries \in [Client -> Tables!Entry] /\ granted \subseteq Client
      BY DEF Tables!ExclusionInit, Tables!Entry, Tables!NoEntry, Tables!Scope
    <2>2. stages \in [Client -> 0..MaxStages + 1]
      BY RuntimeAssumption
    <2>3. pc \in [Client -> Position] /\ kind \in [Client -> Kinds]
      BY DEF Position, Kinds, RunKinds
    <2> QED BY <1>1, <2>1, <2>2, <2>3 DEF TypeOK
  <1>3. LifecycleUsers = {} /\ EditorUsers = {}
    BY DEF LifecycleUsers, EditorUsers, Savers, Discarders
  <1>4. LinesInv /\ GuardsHeld
    BY <1>1, <1>3 DEF LinesInv, GuardsHeld, Savers, Discarders
  <1>5. KindsFit /\ CopiersFindRest /\ CloseInv
    BY DEF KindsFit, CopiersFindRest, CloseInv, Tracked, IsTask, AtWork, Savers, Discarders
  <1>6. ReservationsOwned /\ Tables!ExclusiveUse
    BY DEF ReservationsOwned, Tables!ExclusionInit, Tables!NoEntry, Tables!Held,
           Tables!ExclusiveUse, Tables!IsExclusive, AtWork
  <1>7. ProjectOutlivesUse
    BY DEF ProjectOutlivesUse, InUse, Savers
  <1> QED
    BY <1>2, <1>4, <1>5, <1>6, <1>7, AdmissionInvInit DEF RuntimeInv

\* Every step keeps the inductive invariant.
LEMMA RuntimeInvStep == RuntimeInv /\ [Next]_vars => RuntimeInv'
  <1> SUFFICES ASSUME RuntimeInv, [Next]_vars
               PROVE  RuntimeInv'
    OBVIOUS
  <1>0. AdmissionInv'
    BY AdmissionInvStep DEF RuntimeInv
  <1>1. ASSUME NEW c \in Client, ClientMoves(c)
        PROVE  RuntimeInv'
    BY <1>0, <1>1, ClientsKeepInv
  <1>2. CASE UserSave \/ rename \/ RenameSave \/ (\E k \in Savers : SaveStep(k))
    BY <1>0, <1>2, SaversKeepInv
  <1>3. ASSUME NEW d \in Discarders, DiscardLine(d) \/ Discard(d)
        PROVE  RuntimeInv'
    BY <1>0, <1>3, DiscardsKeepInv
  <1>4. CASE close \/ CloseStep \/ webview_unloaded
    BY <1>0, <1>4, ClosesKeepInv
  <1>5. CASE HostBegin \/ HostAnswer \/ HostSave \/ HostStep
    BY <1>0, <1>5, HostsKeepInv
  <1>6. CASE UNCHANGED vars
    <2>1. SavingOnly /\ token' = token
      BY <1>6 DEF vars, SavingOnly, Clients, protectionVars, clientVars, admissionVars, RuntimeInv,
                  TypeOK, CloseInv
    <2>2. LinesKept
      BY <1>6, <2>1, QuietLines DEF vars, lockVars, RuntimeInv, Locks, GuardsHeld, SavingOnly
    <2> QED BY <1>0, <2>1, <2>2, SavingKeepsRest
  <1> QED BY <1>1, <1>2, <1>3, <1>4, <1>5, <1>6 DEF Next, ClientMoves

(* The types, and what every step keeps: nobody leaks, loses or takes twice *)
(* one of the two locks of runtime.rs, guards are held in the order of the *)
(* lines, and reservations, sessions, tokens and tasks have their owners.  *)
THEOREM RuntimeCorrect == Spec => []RuntimeInv
  BY RuntimeInvInit, RuntimeInvStep, PTL DEF Spec

(* close() drops the project only after every reader, snapshot and save,   *)
(* tracked or not, has left it (runtime.rs, the lifecycle lock).           *)
THEOREM ReleaseWaits == Spec => []ProjectOutlivesUse
  <1>1. RuntimeInv => ProjectOutlivesUse
    BY DEF RuntimeInv
  <1> QED BY <1>1, RuntimeCorrect, PTL

(* A save or a snapshot copies the project alone and with no session open, *)
(* whoever was admitted meanwhile (runtime.rs, save_project and snapshot). *)
THEOREM CopiersAreAlone == Spec => []CopiesAtRest
  <1>1. RuntimeInv => CopiesAtRest
    <2> SUFFICES ASSUME RuntimeInv PROVE CopiesAtRest
      OBVIOUS
    <2> USE DEF RuntimeInv
    <2>1. ASSUME NEW k \in Savers, saver[k] = "Saving"
          PROVE  /\ sessions = {}
                 /\ \A c \in Client : pc[c] # "Using"
                 /\ \A j \in Savers \ {k} : saver[j] # "Saving"
      <3>1. HoldsLifecycle(k) /\ Writes(k) /\ sessions = {}
        BY <2>1 DEF GuardsHeld, Writes, CopiersFindRest
      <3> QED BY <3>1, WriterAlone, Actors DEF GuardsHeld
    <2>2. ASSUME NEW c \in Client, pc[c] = "Using", kind[c] = "Snapshot"
          PROVE  sessions = {} /\ \A d \in Client \ {c} : pc[d] # "Using"
      <3>1. HoldsLifecycle(c) /\ Writes(c) /\ sessions = {}
        BY <2>2 DEF GuardsHeld, Writes, CopiersFindRest, AtWork
      <3> QED BY <3>1, WriterAlone DEF GuardsHeld
    <2> QED BY <2>1, <2>2 DEF CopiesAtRest
  <1> QED BY <1>1, RuntimeCorrect, PTL

(* After the final close nothing is left or comes back: the tracker was    *)
(* closed before the last drop (runtime.rs, close).                        *)
THEOREM CloseIsFinal == Spec => []ClosedForGood
  <1>1. RuntimeInv => ClosedForGood
    BY DEF RuntimeInv, ClosedForGood, CloseInv, has_work, Tracked, ReservationsOwned, AtWork
  <1> QED BY <1>1, RuntimeCorrect, PTL

(* A manual edit or an Annotation run shares its table with no mutation,   *)
(* and a reservation never outlives its work or its session (protection.rs *)
(* as runtime.rs uses it).                                                 *)
THEOREM TablesStayExclusive == Spec => []TablesExclusive
  <1>1. RuntimeInv => TablesExclusive
    BY DEF RuntimeInv, TablesExclusive, ReservationsOwned, Tracked, AtWork
  <1> QED BY <1>1, RuntimeCorrect, PTL

(* discard_cell_edit takes no session from a Save or Cancel ahead of it in *)
(* the editor's line: it holds the editor's lock, so it is at the head     *)
(* (runtime.rs, with_editor and discard_cell_edit).                        *)
THEOREM SavesAreNotRobbed == Spec => AcceptedSaveOwned
  <1> DEFINE Step == \A c \in Client : Owed(c) /\ c \notin sessions' => pc'[c] = "Ending"
  <1>1. RuntimeInv /\ [Next]_vars => [Step]_vars
    <2> SUFFICES ASSUME RuntimeInv, Next, NEW c \in Client, Owed(c), c \notin sessions'
                 PROVE  pc'[c] = "Ending"
      OBVIOUS
    <2> USE DEF RuntimeInv
    <2>1. c \in sessions /\ c \in EditorUsers
      BY DEF Owed, EditorUsers
    <2>2. ASSUME NEW d \in Client, ClientMoves(d)
          PROVE  pc'[c] = "Ending"
      <3>1. /\ pc[d] = "Using" /\ pc'[d] = "Ending"
            /\ sessions' \in Edited(d)
        BY <2>1, <2>2, ClientsUse DEF UseStep
      <3>2. c = d
        BY <2>1, <3>1 DEF Edited
      <3> QED BY <3>1, <3>2
    <2>3. ASSUME NEW d \in Discarders, Discard(d)
          PROVE  FALSE
      <3>1. HoldsEditor(d)
        BY <2>3 DEF Discard, GuardsHeld
      <3>2. d \in Ahead(editor, c)
        <4>1. {c, d} \subseteq Range(editor) /\ c # d
          BY <2>1, <3>1, Actors DEF LinesInv, HoldsEditor
        <4> QED BY <3>1, <4>1, OrderInLine DEF HoldsEditor, TypeOK
      <3> QED BY <2>3, <3>2 DEF Owed
    <2>4. ASSUME UNCHANGED sessions
          PROVE  FALSE
      BY <2>1, <2>4
    <2>5. CASE UserSave \/ rename \/ RenameSave \/ (\E k \in Savers : SaveStep(k))
      BY <2>4, <2>5 DEF UserSave, rename, RenameSave, SaveStep, EnterSave, LeaveSave, EndSave,
                        SaveRest, protectionVars
    <2>6. CASE close \/ CloseStep \/ webview_unloaded \/ (\E d \in Discarders : DiscardLine(d))
      BY <2>4, <2>6 DEF close, CloseStep, Interrupt, Drained, AwaitLast, Release,
                        webview_unloaded, DiscardLine, protectionVars
    <2>7. CASE HostBegin \/ HostAnswer \/ HostSave \/ HostStep
      BY <2>4, <2>7 DEF HostBegin, HostAnswer, HostSave, HostStep, HostCheck, HostWork,
                        HostInterrupt, HostDrained, HostSaved, HostDone, HostRest, protectionVars
    <2> QED BY <2>2, <2>3, <2>5, <2>6, <2>7 DEF Next, ClientMoves
  <1> QED BY <1>1, RuntimeCorrect, PTL DEF Spec, AcceptedSaveOwned
=============================================================================
