------------------------------- MODULE SaveTo -------------------------------
(***************************************************************************)
(* Save As and Rename of a project file (Project::save_to in lifecycle.rs) *)
(* beside another application that creates and opens files in the same     *)
(* directory, with every system call failing and the process dying between *)
(* any two of them.                                                        *)
(*                                                                         *)
(* A name is a spelling; on a file system that folds case two names may be *)
(* one file (Identity).  The content of a file is the version of the       *)
(* project it holds completely, or Theirs.  The staging directory is       *)
(* private; it goes with the operation, but not when the process dies.     *)
(***************************************************************************)
EXTENDS Naturals, FiniteSets

CONSTANTS
  Names,     \* spellings of file names
  Identity,  \* the file a name stands for
  Private,   \* the name of an Untitled project, in a directory of its own
  None,
  Theirs,    \* content of another application's file
  MaxOps,    \* bound: operations
  MaxWrites  \* bound: changes of the project

Files == {Identity[n] : n \in Names}
SaveToAssumption ==
  /\ IsFiniteSet(Names) /\ Private \in Names /\ DOMAIN Identity = Names
  /\ \A n \in Names : Identity[n] = Identity[Private] => n = Private
  /\ MaxOps \in Nat /\ MaxWrites \in Nat /\ Theirs \notin Nat /\ None \notin Nat \cup {Theirs}

VARIABLES
  dir,       \* content of each file, or None
  name,      \* the spelling each file was given
  current,   \* the project's own path
  version,   \* the project as last committed
  opened,    \* files the other application has open
  op,        \* the operation: destination, kind and what it has found
  pc,        \* where it stands
  staged,    \* content of the staged copy
  original,  \* content of the file moved aside into the staging directory
  stranded,  \* a rollback failed: the staging directory was kept
  up,        \* the process is alive
  ops

vars == <<dir, name, current, version, opened, op, pc, staged, original, stranded, up, ops>>

NoOp == [dest |-> Private, rename |-> FALSE, same |-> FALSE, approved |-> FALSE, lock |-> FALSE,
         installed |-> FALSE]
Dest == Identity[op.dest]
Own == Identity[current]
temporary == current = Private

\* Files this process holds DuckDB's lock on: its project, unless it is moved
\* aside, an existing destination until it is replaced, and the new project.
Aside == op.rename /\ op.same /\ pc \in {"install", "open", "remove", "restore"}
Held ==
  (IF Aside THEN {} ELSE {Own})
    \cup (IF (op.lock /\ pc \in {"stage", "install"}) \/ pc = "move" THEN {Dest} ELSE {})

\* The operation ends; its staging directory is deleted.
End ==
  /\ pc' = "idle" /\ op' = NoOp /\ staged' = None /\ original' = None
  /\ UNCHANGED <<version, opened, stranded, up, ops>>
Failed == End /\ UNCHANGED <<dir, name, current>>

(* -------------------------------- save_to ------------------------------- *)

\* The user chooses a destination, or the server is asked for a new name.
\* The chooser asks before an existing file may be replaced.
Choose(n, rename) ==
  /\ up /\ ~stranded /\ pc = "idle" /\ ops < MaxOps /\ n # Private /\ (rename => ~temporary)
  /\ op' = [NoOp EXCEPT !.dest = n, !.rename = rename, !.approved = dir[Identity[n]] # None]
  /\ pc' = "chosen" /\ ops' = ops + 1
  /\ UNCHANGED <<dir, name, current, version, opened, staged, original, stranded, up>>

\* Saving to the project's own file is a checkpoint; Rename refuses a name
\* that is taken, but may change the spelling of its own.
Begin ==
  /\ up /\ pc = "chosen"
  /\ LET same == dir[Dest] # None /\ Dest = Own
     IN  \/ same /\ (~op.rename \/ op.dest = current) /\ Failed
         \/ op.rename /\ dir[Dest] # None /\ ~same /\ Failed
         \/ /\ IF same THEN op.rename /\ op.dest # current ELSE op.rename => dir[Dest] = None
            /\ op' = [op EXCEPT !.same = same]
            /\ pc' = IF op.rename THEN "stage" ELSE "lock"
            /\ UNCHANGED <<dir, name, current, version, opened, staged, original, stranded, up, ops>>

\* An existing destination is locked, unless somebody has it open.
lock_destination ==
  /\ up /\ pc = "lock"
  /\ \/ Dest \in opened /\ Failed
     \/ /\ Dest \notin opened
        /\ op' = [op EXCEPT !.lock = dir[Dest] # None] /\ pc' = "stage"
        /\ UNCHANGED <<dir, name, current, version, opened, staged, original, stranded, up, ops>>

\* Checkpoint, copy, open the copy and flush it to disk.
Stage ==
  /\ up /\ pc = "stage"
  /\ \/ Failed
     \/ /\ staged' = dir[Own]
        /\ pc' = IF op.rename /\ op.same THEN "aside" ELSE "install"
        /\ UNCHANGED <<dir, name, current, version, opened, op, original, stranded, up, ops>>

\* A new spelling of the same file: the file itself leaves its name first.
MoveAside ==
  /\ up /\ pc = "aside"
  /\ \/ Failed
     \/ /\ original' = dir[Own] /\ dir' = [dir EXCEPT ![Own] = None] /\ pc' = "install"
        /\ UNCHANGED <<name, current, version, opened, op, staged, stranded, up, ops>>

\* A locked destination is replaced, otherwise the name must be free.
Replaces == op.lock
Install ==
  /\ up /\ pc = "install"
  /\ \/ /\ Replaces \/ dir[Dest] = None
        /\ dir' = [dir EXCEPT ![Dest] = staged]
        /\ name' = [name EXCEPT ![Dest] = IF dir[Dest] = None THEN op.dest ELSE @]
        /\ op' = [op EXCEPT !.installed = TRUE] /\ pc' = "open"
        /\ UNCHANGED <<current, version, opened, staged, original, stranded, up, ops>>
     \/ /\ pc' = "remove"
        /\ UNCHANGED <<dir, name, current, version, opened, op, staged, original, stranded, up, ops>>

\* The project goes on in the new file, under the spelling that the disk has
\* for it; a temporary one is deleted.
Switch(d) ==
  /\ current' = name[Dest]
  /\ dir' = [f \in Files |-> IF f = Identity[Private] /\ temporary THEN None ELSE d[f]]
  /\ End /\ UNCHANGED name
Open ==
  /\ up /\ pc = "open"
  /\ \/ /\ Dest \notin opened
        /\ IF op.rename /\ ~op.same
           THEN /\ pc' = "move"
                /\ UNCHANGED <<dir, name, current, version, opened, op, staged, original, stranded, up, ops>>
           ELSE Switch(dir)
     \/ /\ pc' = "remove"
        /\ UNCHANGED <<dir, name, current, version, opened, op, staged, original, stranded, up, ops>>

\* An ordinary Rename takes the old file away last; if it cannot, it takes
\* the new one back.
MoveOld ==
  /\ up /\ pc = "move"
  /\ \/ Switch([dir EXCEPT ![Own] = None])
     \/ Failed
     \/ End /\ dir' = [dir EXCEPT ![Dest] = None] /\ UNCHANGED <<name, current>>

\* A failed Save As ends here.  A failed Rename removes what it installed,
\* and nothing else, then puts its own file back under the old name.
Remove ==
  /\ up /\ pc = "remove"
  /\ IF ~op.rename THEN Failed
     ELSE \E removed \in {dir} \cup (IF op.installed THEN {[dir EXCEPT ![Dest] = None]} ELSE {}) :
            IF op.same
            THEN /\ dir' = removed /\ pc' = "restore"
                 /\ UNCHANGED <<name, current, version, opened, op, staged, original, stranded, up, ops>>
            ELSE End /\ dir' = removed /\ UNCHANGED <<name, current>>

\* A rollback that fails keeps the staging directory.
Bug_Strand == stranded' = TRUE /\ pc' = "idle" /\ op' = NoOp /\ staged' = None /\ original' = None
              /\ UNCHANGED <<dir, name, current, version, opened, up, ops>>
Strand ==
  /\ stranded' = TRUE /\ pc' = "idle" /\ op' = NoOp /\ staged' = None
  /\ UNCHANGED <<dir, name, current, version, opened, original, up, ops>>
Restore ==
  /\ up /\ pc = "restore"
  /\ \/ /\ dir[Own] = None
        /\ dir' = [dir EXCEPT ![Own] = original] /\ name' = [name EXCEPT ![Own] = current]
        /\ End /\ UNCHANGED current
     \/ Strand

(* ----------------------------- surroundings ----------------------------- *)

\* A transaction of the project commits; saving excludes them.
Write ==
  /\ up /\ ~stranded /\ pc \in {"idle", "chosen"} /\ version < MaxWrites
  /\ version' = version + 1 /\ dir' = [dir EXCEPT ![Own] = version + 1]
  /\ UNCHANGED <<name, current, opened, op, pc, staged, original, stranded, up, ops>>

\* The other application creates, opens and closes files.
Create(n) ==
  /\ up /\ n # Private /\ dir[Identity[n]] = None
  /\ dir' = [dir EXCEPT ![Identity[n]] = Theirs] /\ name' = [name EXCEPT ![Identity[n]] = n]
  /\ UNCHANGED <<current, version, opened, op, pc, staged, original, stranded, up, ops>>
OpenTheirs(f) ==
  /\ up /\ f # Identity[Private] /\ dir[f] # None /\ f \notin opened \cup Held
  /\ opened' = opened \cup {f}
  /\ UNCHANGED <<dir, name, current, version, op, pc, staged, original, stranded, up, ops>>
CloseTheirs(f) ==
  /\ up /\ f \in opened /\ opened' = opened \ {f}
  /\ UNCHANGED <<dir, name, current, version, op, pc, staged, original, stranded, up, ops>>

\* The process dies.  What is on the disk stays there.
Crash ==
  /\ up /\ up' = FALSE
  /\ UNCHANGED <<dir, name, current, version, opened, op, pc, staged, original, stranded, ops>>

Init ==
  /\ current \in Names
  /\ dir = [f \in Files |-> IF f = Own THEN 0 ELSE None]
  /\ name = [f \in Files |-> IF f = Own THEN current ELSE CHOOSE n \in Names : Identity[n] = f]
  /\ version = 0 /\ opened = {} /\ op = NoOp /\ pc = "idle" /\ staged = None /\ original = None
  /\ stranded = FALSE /\ up = TRUE /\ ops = 0

Next ==
  \/ \E n \in Names, rename \in BOOLEAN : Choose(n, rename)
  \/ Begin \/ lock_destination \/ Stage \/ MoveAside \/ Install \/ Open \/ MoveOld
  \/ Remove \/ Restore \/ Write \/ Crash
  \/ \E n \in Names : Create(n)
  \/ \E f \in Files : OpenTheirs(f) \/ CloseTheirs(f)

Spec == Init /\ [][Next]_vars

(* ------------------------------ properties ------------------------------ *)

Content == {None, Theirs} \cup 0..MaxWrites
TypeOK ==
  /\ dir \in [Files -> Content]
  /\ name \in [Files -> Names] /\ \A f \in Files : Identity[name[f]] = f
  /\ current \in Names /\ version \in 0..MaxWrites /\ opened \subseteq Files
  /\ op \in [dest : Names, rename : BOOLEAN, same : BOOLEAN, approved : BOOLEAN, lock : BOOLEAN,
             installed : BOOLEAN]
  /\ pc \in {"idle", "chosen", "lock", "stage", "aside", "install", "open", "move", "remove", "restore"}
  /\ staged \in Content /\ original \in Content
  /\ stranded \in BOOLEAN /\ up \in BOOLEAN /\ ops \in 0..MaxOps

\* Whatever fails and whenever the process dies, the project as last committed
\* is complete on the disk: under a name, or, while the spelling of its name
\* changes and after a rollback that failed, in the directory kept for it.  An
\* operation that is over, failed or not, leaves it under its own name.
ProjectKept ==
  /\ (\E f \in Files : dir[f] = version) \/ original = version
  /\ ~Aside /\ ~stranded => dir[Own] = version
  /\ pc = "idle" /\ ~stranded => name[Own] = current

\* What an operation has found stays true while it runs: nobody writes, the
\* project keeps its path, and a destination that is its own file under another
\* spelling is only ever renamed to.
OperationFits ==
  /\ pc = "idle" => op = NoOp
  /\ pc # "idle" => op.dest # Private /\ ~stranded /\ (op.rename => ~temporary)
  /\ pc = "chosen" => ~op.same /\ ~op.lock
  /\ op.installed => pc \in {"open", "move", "remove", "restore"}
  /\ pc \notin {"idle", "chosen"} => (op.same <=> Dest = Own)
  /\ (op.same => op.rename) /\ (op.lock => ~op.rename)
  /\ pc = "lock" => ~op.rename
  /\ pc \in {"aside", "restore"} => op.same
  /\ pc = "move" => op.rename /\ ~op.same

\* Every copy is complete: the staged one, the installed one until it is taken
\* back, the file moved aside; and the project's own file otherwise.
CopiesComplete ==
  /\ pc \in {"aside", "install", "open", "move", "remove", "restore"} => staged = version
  /\ pc \in {"open", "move"} => op.installed
  /\ pc \in {"open", "move", "remove"} /\ op.installed => dir[Dest] = version
  /\ Aside \/ stranded => original = version
  /\ ~Aside /\ ~stranded => dir[Own] = version /\ name[Own] = current

\* Nobody opens the destination once it is locked and until it is replaced.
DestinationLocked == op.lock /\ pc \in {"stage", "install"} => Dest \notin opened

\* Inductive.
SaveToInv == TypeOK /\ ProjectKept /\ OperationFits /\ CopiesComplete /\ DestinationLocked

\* A file of the other application disappears only by a Save As that found
\* it, with nobody else having it open.
OthersKept ==
  [][\A f \in Files :
       dir[f] = Theirs /\ dir'[f] # Theirs => ~op.rename /\ op.lock /\ f = Dest /\ f \notin opened]_vars

\* lifecycle.rs: "An unapproved file created since the chooser must not be
\* replaced."
\* Not kept in every order of events: see the README, section 5.
UnapprovedKept ==
  [][\A f \in Files : dir[f] = Theirs /\ dir'[f] # Theirs => op.approved]_vars
=============================================================================
