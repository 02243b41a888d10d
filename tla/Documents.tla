----------------------------- MODULE Documents ------------------------------
(***************************************************************************)
(* The desktop's documents (Documents in documents.rs, BackendSupervisor   *)
(* in supervisor.rs): windows that open, save and close projects, each     *)
(* with a backend of its own, beside exports, Quit and the updater.        *)
(*                                                                         *)
(* The registry's path of a document and the file its backend has open are *)
(* two pieces of state.  One gate orders Open, Save As, exports and the    *)
(* snapshot that Quit takes; a lock of its own makes Quit unique; and every *)
(* document has a lock that a save or a close holds across its dialogs.    *)
(***************************************************************************)
EXTENDS Naturals, FiniteSets

CONSTANTS
  Docs,     \* bound: documents that are opened, in any order
  Paths,    \* canonical project paths
  None,
  Export,   \* an export, as the holder of the gate
  Quitters, \* who quits: the menu, the updater or both
  MaxSaves  \* bound: saves from the menu

DocumentsAssumption ==
  /\ Quitters \subseteq {"menu", "update"}
  /\ MaxSaves \in Nat /\ {None, Export} \cap (Docs \cup Paths) = {} /\ None # Export
  /\ None \notin Quitters

VARIABLES
  open,      \* the request that opens a document: none, queued, gated, done
  path,      \* the path in the registry
  listed,    \* documents in the registry, with their windows
  status,    \* what the supervisor publishes
  run,       \* the supervisor's task: none, opening, serving, closing, finished
  file,      \* the file the backend has open
  actions,   \* documents whose action lock is held
  save,      \* a save: none, wait, choose, gate, saving, record
  dest,      \* its destination
  close,     \* a close: none, wait, ask, save, stop, finish
  gate,      \* holder of opening_gate
  quit,      \* holder of the quit lock
  outcome,   \* what it protects: an approved Quit
  q, left, visit,  \* each quitter: where it stands, documents to close, the one it waits for
  exporting, \* target of an export
  exited,
  saves

document == <<open, path, listed>>
backend == <<status, run, file>>
saving == <<actions, save, dest, saves>>
quitting == <<quit, outcome, q, left, visit, exited>>
vars == <<document, backend, saving, close, gate, quitting, exporting>>

cancelled == {d \in Docs : status[d] \in {"stopping", "stopped"}}
Owned(p) == \E d \in listed : path[d] = p
Set(f, d, v) == [f EXCEPT ![d] = v]

(* --------------------------------- open --------------------------------- *)

\* A command, a file association or a second instance asks for a document;
\* without a path it is Untitled.
enqueue_open(d, p) ==
  /\ ~exited /\ open[d] = "none" /\ open' = Set(open, d, "queued") /\ path' = Set(path, d, p)
  /\ UNCHANGED <<listed, backend, saving, close, gate, quitting, exporting>>

OpenGate(d) ==
  /\ ~exited /\ open[d] = "queued" /\ gate = None
  /\ gate' = d /\ open' = Set(open, d, "gated")
  /\ UNCHANGED <<path, listed, backend, saving, close, quitting, exporting>>

\* While Quit asks, and once it is approved, nothing opens.  A path that has
\* an owner brings its window to the front.
Bug_Quitting == outcome
Quitting == quit # None \/ outcome
open_window(d) ==
  /\ ~exited /\ open[d] = "gated" /\ gate' = None /\ open' = Set(open, d, "done")
  /\ \/ path' = Set(path, d, None) /\ UNCHANGED <<listed, run>>
     \/ /\ ~Quitting /\ (path[d] = None \/ ~Owned(path[d]))
        /\ listed' = listed \cup {d} /\ run' = Set(run, d, "opening")
        /\ UNCHANGED path
  /\ UNCHANGED <<status, file, saving, close, quitting, exporting>>

(* ------------------------------- supervisor ----------------------------- *)

\* The project opens, or does not.  A stop that came first is not overtaken.
RunOpens(d) ==
  /\ ~exited /\ run[d] = "opening"
  /\ \/ /\ file' = Set(file, d, path[d])
        /\ IF status[d] = "starting"
           THEN status' = Set(status, d, "ready") /\ run' = Set(run, d, "serving")
           ELSE UNCHANGED status /\ run' = Set(run, d, "closing")
     \/ /\ status' = IF d \in cancelled THEN status ELSE Set(status, d, "failed")
        /\ run' = Set(run, d, "closing") /\ UNCHANGED file
  /\ UNCHANGED <<document, saving, close, gate, quitting, exporting>>

\* The server ends: it was told to, or it fails.
RunEnds(d) ==
  /\ ~exited /\ run[d] = "serving" /\ run' = Set(run, d, "closing")
  /\ status' = IF d \in cancelled THEN status ELSE Set(status, d, "failed")
  /\ UNCHANGED <<document, file, saving, close, gate, quitting, exporting>>

\* The project is closed in either case, then the task is finished.
RunFinishes(d) ==
  /\ ~exited /\ run[d] = "closing" /\ run' = Set(run, d, "finished") /\ file' = Set(file, d, None)
  /\ status' = IF d \in cancelled THEN Set(status, d, "stopped") ELSE status
  /\ UNCHANGED <<document, saving, close, gate, quitting, exporting>>

(* --------------------------------- close -------------------------------- *)

\* A close that ends answers everyone who waits for it.
EndClose(d, closed) ==
  /\ close' = Set(close, d, "none") /\ actions' = actions \ {d}
  /\ q' = [k \in Quitters |-> IF visit[k] = d
                              THEN IF closed THEN "close" ELSE "refused" ELSE q[k]]
  /\ visit' = [k \in Quitters |-> IF visit[k] = d THEN None ELSE visit[k]]
  /\ UNCHANGED <<quit, outcome, left, exited>>

request_close(d) ==
  /\ ~exited /\ d \in listed /\ close[d] = "none" /\ close' = Set(close, d, "wait")
  /\ UNCHANGED <<document, backend, saving, gate, quitting, exporting>>

\* A backend that has failed, or stopped before, needs no decision.
CloseBegins(d) ==
  /\ ~exited /\ close[d] = "wait" /\ d \notin actions /\ actions' = actions \cup {d}
  /\ close' = Set(close, d, IF status[d] \in {"failed", "stopped"} THEN "stop" ELSE "ask")
  /\ UNCHANGED <<document, backend, save, dest, saves, gate, quitting, exporting>>

\* settle_for_close: an open editor or the user refuses; an Untitled project
\* may have to be saved, while this close holds the document's lock.
settle_for_close(d) ==
  /\ ~exited /\ close[d] = "ask" /\ UNCHANGED <<document, backend, dest, saves, gate, exporting>>
  /\ \/ EndClose(d, FALSE) /\ UNCHANGED save
     \/ close' = Set(close, d, "stop") /\ UNCHANGED <<actions, save, quitting>>
     \/ /\ run[d] = "serving" /\ file[d] = None
        /\ close' = Set(close, d, "save") /\ save' = Set(save, d, "choose")
        /\ UNCHANGED <<actions, quitting>>

stop(d) ==
  /\ ~exited /\ close[d] = "stop" /\ close' = Set(close, d, "finish")
  /\ status' = Set(status, d, IF status[d] = "stopped" THEN "stopped" ELSE "stopping")
  /\ UNCHANGED <<document, run, file, saving, gate, quitting, exporting>>

\* The window goes, and the document leaves the registry, once the backend has
\* finished; a window that cannot be destroyed stays, with a stopped backend.
Closable(d) == run[d] = "finished"
CloseEnds(d) ==
  /\ ~exited /\ close[d] = "finish" /\ Closable(d) /\ status' = Set(status, d, "stopped")
  /\ \/ listed' = listed \ {d} /\ path' = Set(path, d, None) /\ EndClose(d, TRUE)
     \/ UNCHANGED <<listed, path>> /\ EndClose(d, FALSE)
  /\ UNCHANGED <<open, run, file, save, dest, saves, gate, exporting>>

(* --------------------------------- save --------------------------------- *)

menu_save(d) ==
  /\ ~exited /\ d \in listed /\ save[d] = "none" /\ close[d] # "save" /\ saves < MaxSaves
  /\ save' = Set(save, d, "wait") /\ saves' = saves + 1
  /\ UNCHANGED <<document, backend, actions, dest, close, gate, quitting, exporting>>
SaveBegins(d) ==
  /\ ~exited /\ save[d] = "wait" /\ d \notin actions
  /\ actions' = actions \cup {d} /\ save' = Set(save, d, "choose")
  /\ UNCHANGED <<document, backend, dest, saves, close, gate, quitting, exporting>>

\* A save that ends returns to the close that asked for it.
EndSave(d, saved) ==
  /\ save' = Set(save, d, "none") /\ dest' = Set(dest, d, None)
  /\ IF close[d] # "save" THEN actions' = actions \ {d} /\ UNCHANGED <<close, quitting>>
     ELSE IF saved THEN close' = Set(close, d, "stop") /\ UNCHANGED <<actions, quitting>>
     ELSE EndClose(d, FALSE)
  /\ UNCHANGED saves

\* An open editor, a closed project or the user ends it; a named project may
\* be saved where it is.
Choose(d, p) ==
  /\ ~exited /\ save[d] = "choose" /\ UNCHANGED <<document, backend, gate, exporting>>
  /\ \/ EndSave(d, FALSE)
     \/ /\ run[d] = "serving" /\ (p = None => file[d] # None)
        /\ save' = Set(save, d, "gate") /\ dest' = Set(dest, d, p)
        /\ UNCHANGED <<actions, saves, close, quitting>>

\* save_project: the destination must not belong to another window.
SaveGate(d) ==
  /\ ~exited /\ save[d] = "gate" /\ gate = None
  /\ IF dest[d] # None /\ \E e \in listed \ {d} : path[e] = dest[d]
     THEN EndSave(d, FALSE) /\ UNCHANGED gate
     ELSE /\ gate' = d /\ save' = Set(save, d, "saving")
          /\ UNCHANGED <<actions, dest, saves, close, quitting>>
  /\ UNCHANGED <<document, backend, exporting>>
ProjectSave(d) ==
  /\ ~exited /\ save[d] = "saving"
  /\ \/ gate' = None /\ EndSave(d, FALSE) /\ UNCHANGED file
     \/ /\ run[d] = "serving" /\ file' = Set(file, d, IF dest[d] = None THEN file[d] ELSE dest[d])
        /\ save' = Set(save, d, "record")
        /\ UNCHANGED <<actions, dest, saves, close, gate, quitting>>
  /\ UNCHANGED <<document, status, run, exporting>>
RecordPath(d) ==
  /\ ~exited /\ save[d] = "record" /\ gate' = None
  /\ path' = Set(path, d, IF dest[d] = None THEN path[d] ELSE dest[d])
  /\ EndSave(d, TRUE) /\ UNCHANGED <<open, listed, backend, exporting>>

(* --------------------------------- export ------------------------------- *)

ExportGate(p) ==
  /\ ~exited /\ gate = None /\ ~Owned(p) /\ gate' = Export /\ exporting' = p
  /\ UNCHANGED <<document, backend, saving, close, quitting>>
Install ==
  /\ ~exited /\ exporting # None /\ exporting' = None /\ gate' = None
  /\ UNCHANGED <<document, backend, saving, close, quitting>>

(* ---------------------------------- quit -------------------------------- *)

\* intercept_exit drops a Quit that comes while another one holds the lock;
\* the updater waits for it.
close_all(k) ==
  /\ ~exited /\ q[k] = "none"
  /\ IF quit = None
     THEN /\ quit' = k /\ (k = "menu" => ~outcome) /\ outcome' = FALSE /\ q' = Set(q, k, "gate")
     ELSE k = "update" /\ q' = Set(q, k, "second") /\ UNCHANGED <<quit, outcome>>
  /\ UNCHANGED <<document, backend, saving, close, gate, left, visit, exited, exporting>>
Second(k) ==
  /\ ~exited /\ q[k] = "second" /\ quit = None
  /\ IF outcome THEN quit' = k /\ q' = Set(q, k, "approved") ELSE q' = Set(q, k, "none") /\ UNCHANGED quit
  /\ UNCHANGED <<document, backend, saving, close, gate, outcome, left, visit, exited, exporting>>

\* Opens that were admitted before have settled when the gate is free.
Bug_Snapshot(k) ==
  /\ ~exited /\ q[k] = "gate" /\ gate = None /\ gate' = Export
  /\ left' = Set(left, k, listed) /\ q' = Set(q, k, "close")
  /\ UNCHANGED <<document, backend, saving, close, quit, outcome, visit, exited, exporting>>
Snapshot(k) ==
  /\ ~exited /\ q[k] = "gate" /\ gate = None
  /\ left' = Set(left, k, listed) /\ q' = Set(q, k, "close")
  /\ UNCHANGED <<document, backend, saving, close, gate, quit, outcome, visit, exited, exporting>>

\* One window after the other: Quit asks, or waits for a close under way.
CloseNext(k, d) ==
  /\ ~exited /\ q[k] = "close" /\ d \in left[k] /\ left' = Set(left, k, left[k] \ {d})
  /\ IF d \notin listed THEN UNCHANGED <<close, q, visit>>
     ELSE /\ close' = IF close[d] = "none" THEN Set(close, d, "wait") ELSE close
          /\ q' = Set(q, k, "wait") /\ visit' = Set(visit, k, d)
  /\ UNCHANGED <<document, backend, saving, gate, quit, outcome, exited, exporting>>
Refuse(k) ==
  /\ ~exited /\ q[k] = "refused" /\ q' = Set(q, k, "none") /\ quit' = None /\ outcome' = FALSE
  /\ left' = Set(left, k, {})
  /\ UNCHANGED <<document, backend, saving, close, gate, visit, exited, exporting>>

\* Every window is closed, and the lock still held.
AllClosed(k) == (q[k] = "close" /\ left[k] = {}) \/ q[k] = "approved"
EndQuit(k, approved) ==
  /\ ~exited /\ AllClosed(k) /\ quit' = None /\ q' = Set(q, k, "none") /\ outcome' = approved
  /\ UNCHANGED <<document, backend, saving, close, gate, left, visit, exited, exporting>>
allow_exit(k) == k = "menu" /\ EndQuit(k, TRUE)

\* An installation that fails gives the approval up.
install_update(k) == k = "update" /\ (EndQuit(k, TRUE) \/ EndQuit(k, outcome))
intercept_exit ==
  /\ ~exited /\ quit = None /\ outcome /\ exited' = TRUE
  /\ UNCHANGED <<document, backend, saving, close, gate, quit, outcome, q, left, visit, exporting>>

Init ==
  /\ open = [d \in Docs |-> "none"] /\ path = [d \in Docs |-> None] /\ listed = {}
  /\ status = [d \in Docs |-> "starting"] /\ run = [d \in Docs |-> "none"]
  /\ file = [d \in Docs |-> None] /\ actions = {}
  /\ save = [d \in Docs |-> "none"] /\ dest = [d \in Docs |-> None] /\ saves = 0
  /\ close = [d \in Docs |-> "none"] /\ gate = None /\ quit = None /\ outcome = FALSE
  /\ q = [k \in Quitters |-> "none"] /\ left = [k \in Quitters |-> {}]
  /\ visit = [k \in Quitters |-> None] /\ exporting = None /\ exited = FALSE

\* Steps that wait for nobody: neither a user nor a lock.
Step(d) ==
  \/ open_window(d) \/ RunOpens(d) \/ RunFinishes(d) \/ (d \in cancelled /\ RunEnds(d))
  \/ stop(d) \/ CloseEnds(d) \/ ProjectSave(d) \/ RecordPath(d)
\* Acquisitions of a lock.
Acquire(d) == OpenGate(d) \/ SaveGate(d) \/ CloseBegins(d) \/ SaveBegins(d)
QuitStep(k) == (\E d \in Docs : CloseNext(k, d)) \/ Refuse(k) \/ allow_exit(k) \/ install_update(k)
Next ==
  \/ \E d \in Docs, p \in Paths \cup {None} : enqueue_open(d, p) \/ Choose(d, p)
  \/ \E d \in Docs : Step(d) \/ RunEnds(d) \/ Acquire(d)
                     \/ request_close(d) \/ settle_for_close(d) \/ menu_save(d)
  \/ \E k \in Quitters : close_all(k) \/ Second(k) \/ Snapshot(k) \/ QuitStep(k)
  \/ (\E p \in Paths : ExportGate(p)) \/ Install \/ intercept_exit

\* The program's own steps are taken and the gate is fair.  Users need neither
\* ask for anything nor answer a dialog.
Fairness ==
  /\ \A d \in Docs : WF_vars(Step(d)) /\ SF_vars(OpenGate(d))
  /\ \A k \in Quitters : SF_vars(Snapshot(k))
  /\ WF_vars(Install)

Spec == Init /\ [][Next]_vars
FairSpec == Spec /\ Fairness

(* ------------------------------ properties ------------------------------ *)

TypeOK ==
  /\ open \in [Docs -> {"none", "queued", "gated", "done"}] /\ listed \subseteq Docs
  /\ path \in [Docs -> Paths \cup {None}] /\ file \in [Docs -> Paths \cup {None}]
  /\ dest \in [Docs -> Paths \cup {None}]
  /\ status \in [Docs -> {"starting", "ready", "failed", "stopping", "stopped"}]
  /\ run \in [Docs -> {"none", "opening", "serving", "closing", "finished"}]
  /\ actions \subseteq Docs /\ saves \in 0..MaxSaves
  /\ save \in [Docs -> {"none", "wait", "choose", "gate", "saving", "record"}]
  /\ close \in [Docs -> {"none", "wait", "ask", "save", "stop", "finish"}]
  /\ gate \in Docs \cup {None, Export} /\ quit \in Quitters \cup {None} /\ outcome \in BOOLEAN /\ exited \in BOOLEAN
  /\ q \in [Quitters -> {"none", "second", "gate", "close", "wait", "refused", "approved"}]
  /\ left \in [Quitters -> SUBSET Docs] /\ visit \in [Quitters -> Docs \cup {None}]
  /\ exporting \in Paths \cup {None}

\* A file belongs to one document: no two windows own one path, no two
\* backends have one file open, whether or not their windows are still there,
\* and no export is written over a file that a backend has open.
OneOwner ==
  /\ \A d \in Docs : \A e \in Docs \ {d} : file[d] # None => file[e] # file[d]
  /\ \A d \in listed : \A e \in listed \ {d} : path[d] # None => path[e] # path[d]
  /\ \A d \in Docs : file[d] # None => exporting # file[d]

\* What Quit approves, and what the application leaves behind: no window, and
\* no backend that is still open or still opening.  Nothing opens in between.
QuitClosesAll ==
  outcome \/ exited => listed = {} /\ \A d \in Docs : run[d] \in {"none", "finished"}

(* ----------------- what makes these properties inductive ---------------- *)

\* The gate and a document's lock have one holder each: a save holds the lock
\* beside a close only on behalf of that close.
SaveHolds(d) == save[d] \in {"choose", "gate", "saving", "record"}
CloseHolds(d) == close[d] \in {"ask", "save", "stop", "finish"}
LocksHeld ==
  /\ \A d \in Docs :
       /\ open[d] = "gated" \/ save[d] \in {"saving", "record"} => gate = d
       /\ SaveHolds(d) \/ CloseHolds(d) => d \in actions
       /\ SaveHolds(d) /\ CloseHolds(d) => close[d] = "save"
  /\ exporting # None => gate = Export

\* A backend runs behind a window, from its one opening on.
WindowsFirst ==
  \A d \in Docs :
    /\ d \in listed \/ run[d] # "none" => open[d] = "done"
    /\ run[d] \in {"opening", "serving", "closing"} => d \in listed
    /\ save[d] \in {"gate", "saving", "record"} =>
         d \in listed /\ run[d] \in {"serving", "closing", "finished"}

\* The file of a backend is the path in the registry, but for a Save As that
\* is not yet recorded; and nobody owns what is being saved or exported to.
PathsKnown ==
  /\ \A d \in Docs :
       /\ file[d] # None =>
            /\ run[d] \in {"serving", "closing"}
            /\ file[d] = IF save[d] = "record" /\ dest[d] # None THEN dest[d] ELSE path[d]
       /\ save[d] \in {"saving", "record"} /\ dest[d] # None =>
            \A e \in listed \ {d} : path[e] # dest[d]
  /\ \A d \in listed : path[d] # None => path[d] # exporting

\* Quit holds its lock until it has seen every window close that was there
\* when opening ended.
QuitCounts ==
  \A k \in Quitters :
    /\ q[k] \in {"gate", "close", "wait", "refused", "approved"} => quit = k
    /\ visit[k] # None => q[k] = "wait"
    /\ q[k] = "close" => listed \subseteq left[k]
    /\ q[k] = "wait" => listed \subseteq left[k] \cup {visit[k]}
    /\ q[k] = "approved" => outcome

DocumentsInv ==
  TypeOK /\ OneOwner /\ QuitClosesAll /\ LocksHeld /\ WindowsFirst /\ PathsKnown /\ QuitCounts

\* The locks are never held for a user: an open that was asked for is decided
\* and Quit gets its turn, whatever dialogs stay unanswered; and a close that
\* was approved ends.
LocksSettle ==
  /\ \A d \in Docs : open[d] = "queued" ~> open[d] = "done" \/ exited
  /\ \A d \in Docs : close[d] = "stop" ~> close[d] \notin {"stop", "finish"} \/ exited
  /\ \A k \in Quitters : q[k] = "gate" ~> q[k] # "gate" \/ exited
=============================================================================
