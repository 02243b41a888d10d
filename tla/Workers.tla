------------------------------ MODULE Workers -------------------------------
(***************************************************************************)
(* The multi-user gateway's workers (Workers in server/src/workers.rs and  *)
(* the end of main.rs): one container per user, started by the user's      *)
(* first request under an admission gate that keeps the deployment within  *)
(* its limit, and terminated when the gateway stops.                       *)
(*                                                                         *)
(* A request may be dropped at any await, since a client that disconnects  *)
(* takes its handler with it.  The docker command it was waiting for is a  *)
(* process of its own and runs on; so it does when the gateway dies.       *)
(***************************************************************************)
EXTENDS Naturals, FiniteSets

CONSTANTS
  Users,
  Limit,     \* WORDFLOW_MAX_WORKERS
  None,
  Gateway,   \* shutdown, as the holder of the admission gate
  MaxFaults  \* bound: dropped requests, docker faults, crashes

WorkersAssumption ==
  IsFiniteSet(Users) /\ Limit \in Nat \ {0} /\ MaxFaults \in Nat /\ None # Gateway
    /\ {None, Gateway} \cap Users = {}

VARIABLES
  main,       \* what the gateway's main function does
  round,      \* how often it has called shutdown
  slot,       \* OnceCell of each user
  at,         \* where the user's start stands
  counted,    \* containers it has counted
  admission,  \* holder of the gate
  container,  \* of each user: absent, stopped or running
  termed,     \* containers told to terminate
  ids,        \* containers shutdown has listed
  failed,     \* the gateway ended without completing its shutdown
  orphans,    \* docker commands that nobody waits for any more
  late,       \* containers such a command has started
  faults

gateway == <<main, round, ids, failed>>
starts == <<slot, at, counted>>
docker == <<container, termed, late, orphans>>
vars == <<gateway, starts, admission, docker, faults>>

Running == {u \in Users : container[u] = "running"}
stopping == round > 0
Fault == faults < MaxFaults /\ faults' = faults + 1

Release(u) == admission' = IF admission = u THEN None ELSE admission
Run(u) == container' = [container EXCEPT ![u] = "running"] /\ termed' = termed \ {u}

\* The start ends with an error; the cell stays uninitialized.
Fail(u) ==
  /\ slot' = [slot EXCEPT ![u] = "empty"] /\ at' = [at EXCEPT ![u] = "none"]
  /\ Release(u) /\ UNCHANGED <<gateway, counted>>

(* --------------------------------- start -------------------------------- *)

\* A request of a user.  The first one starts the worker, others wait for it.
client(u) ==
  /\ main = "serving" /\ slot[u] = "empty"
  /\ slot' = [slot EXCEPT ![u] = "starting"] /\ at' = [at EXCEPT ![u] = "queue"]
  /\ UNCHANGED <<gateway, counted, admission, docker, faults>>

Bug_Admit(u) ==
  /\ at[u] = "queue" /\ admission = None
  /\ admission' = u /\ at' = [at EXCEPT ![u] = "count"]
  /\ UNCHANGED <<gateway, slot, counted, docker, faults>>
Admit(u) ==
  /\ at[u] = "queue" /\ admission = None
  /\ IF stopping THEN Fail(u)
     ELSE /\ admission' = u /\ at' = [at EXCEPT ![u] = "count"]
          /\ UNCHANGED <<gateway, slot, counted>>
  /\ UNCHANGED <<docker, faults>>

\* docker ps: every running container of the deployment.
Count(u) ==
  /\ at[u] = "count"
  /\ counted' = [counted EXCEPT ![u] = Cardinality(Running)] /\ at' = [at EXCEPT ![u] = "decide"]
  /\ UNCHANGED <<gateway, slot, admission, docker, faults>>

\* The user's own container is looked up, and validated if there is one.  The
\* limit holds for what would have to be started.
Refused(u) == container[u] # "running" /\ counted[u] >= Limit
Decide(u) ==
  /\ at[u] = "decide"
  /\ \/ Refused(u) /\ Fail(u)
     \/ /\ ~Refused(u) /\ container[u] = "running"
        /\ at' = [at EXCEPT ![u] = "probe"] /\ Release(u) /\ UNCHANGED <<gateway, slot, counted>>
     \/ /\ ~Refused(u) /\ container[u] # "running"
        /\ at' = [at EXCEPT ![u] = IF container[u] = "absent" THEN "run" ELSE "start"]
        /\ UNCHANGED <<gateway, slot, counted, admission>>
  /\ UNCHANGED <<docker, faults>>

\* docker run of a name that is taken fails, docker start of a container that
\* runs does nothing.
Starts(u, command) == container[u] = IF command = "run" THEN "absent" ELSE "stopped"
Launch(u) ==
  /\ at[u] \in {"run", "start"}
  /\ IF at[u] = "run" /\ container[u] # "absent"
     THEN Fail(u) /\ UNCHANGED docker
     ELSE /\ IF Starts(u, at[u]) THEN Run(u) /\ late' = late \ {u} /\ UNCHANGED orphans
                                 ELSE UNCHANGED docker
          /\ at' = [at EXCEPT ![u] = "probe"] /\ Release(u) /\ UNCHANGED <<gateway, slot, counted>>
  /\ UNCHANGED faults

\* At most 150 attempts, then the checks of a worker that has answered.
Probe(u) ==
  /\ at[u] = "probe"
  /\ IF container[u] = "running"
     THEN /\ slot' = [slot EXCEPT ![u] = "ready"] /\ at' = [at EXCEPT ![u] = "none"]
          /\ UNCHANGED <<gateway, counted, admission>>
     ELSE Fail(u)
  /\ UNCHANGED <<docker, faults>>

\* A docker command or a validation fails.
StepFails(u) ==
  /\ at[u] \in {"count", "decide", "run", "start", "probe"} /\ Fault /\ Fail(u)
  /\ \/ UNCHANGED docker
     \/ /\ at[u] = "run" /\ container[u] = "absent"
        /\ container' = [container EXCEPT ![u] = "stopped"] /\ UNCHANGED <<termed, late, orphans>>

\* The client disconnects: its handler is dropped where it stands.
Abandon(u) ==
  /\ at[u] # "none" /\ Fault /\ Fail(u)
  /\ orphans' = orphans \cup (IF at[u] \in {"run", "start"} THEN {<<u, at[u]>>} ELSE {})
  /\ UNCHANGED <<container, termed, late>>

(* ------------------------------- shutdown ------------------------------- *)

\* A signal ends serving.  main shuts down once at the signal and once more
\* when the last request has been answered; without any it may do so at once.
Idle == \A u \in Users : at[u] = "none"
Signal ==
  /\ main = "serving" /\ main' = "stopping" /\ round' \in {1} \cup (IF Idle THEN {2} ELSE {})
  /\ UNCHANGED <<ids, failed, starts, admission, docker, faults>>

\* shutdown waits for the start that is at the gate, then lists the workers.
List ==
  /\ main = "stopping" /\ admission = None
  /\ admission' = Gateway /\ ids' = Running /\ main' = "kill"
  /\ UNCHANGED <<round, failed, starts, docker, faults>>

\* Every listed worker is signalled, whatever becomes of the others.
Kill ==
  /\ main = "kill"
  /\ \E missed \in SUBSET (ids \cap Running) :
       /\ IF missed = {} THEN UNCHANGED faults ELSE Fault
       /\ termed' = termed \cup ((ids \cap Running) \ missed)
       /\ failed' = (missed # {} \/ ~(ids \subseteq Running))
  /\ main' = "wait"
  /\ UNCHANGED <<round, ids, starts, admission, container, late, orphans>>

\* The process ends, and every request with it.
Exit ==
  /\ main' = "exited" /\ round' = 0 /\ ids' = {} /\ admission' = None
  /\ slot' = [u \in Users |-> "empty"] /\ at' = [u \in Users |-> "none"] /\ UNCHANGED counted

\* Then it waits for every one of them.  An error ends the gateway.
Wait ==
  /\ main = "wait" /\ ids \cap Running = {}
  /\ \/ /\ ~failed /\ round = 1
        /\ main' = "drain" /\ ids' = {} /\ admission' = None /\ UNCHANGED <<round, starts>>
     \/ (failed \/ round = 2) /\ Exit
  /\ UNCHANGED <<failed, docker, faults>>
WaitFails(u) ==
  /\ main = "wait" /\ u \in ids \cap Running /\ Fault /\ ids' = ids \ {u} /\ failed' = TRUE
  /\ UNCHANGED <<main, round, starts, admission, docker>>

Drain ==
  /\ main = "drain" /\ Idle
  /\ main' = "stopping" /\ round' = 2
  /\ UNCHANGED <<ids, failed, starts, admission, docker, faults>>

(* -------------------------- docker and crashes -------------------------- *)

\* A command nobody waits for completes.
OrphanLands(u, command) ==
  /\ <<u, command>> \in orphans /\ orphans' = orphans \ {<<u, command>>}
  /\ IF Starts(u, command) THEN Run(u) /\ late' = late \cup {u} ELSE UNCHANGED <<container, termed, late>>
  /\ UNCHANGED <<gateway, starts, admission, faults>>

\* A worker ends: because it was told to, or of itself.
WorkerEnds(u) ==
  /\ container[u] = "running" /\ (IF u \in termed THEN UNCHANGED faults ELSE Fault)
  /\ container' = [container EXCEPT ![u] = "stopped"] /\ termed' = termed \ {u}
  /\ UNCHANGED <<gateway, starts, admission, late, orphans>>

Crash ==
  /\ main # "exited" /\ Fault /\ Exit /\ failed' = TRUE
  /\ orphans' = orphans \cup {<<u, at[u]>> : u \in {v \in Users : at[v] \in {"run", "start"}}}
  /\ UNCHANGED <<container, termed, late>>

\* Workers::new refuses a deployment that is over its limit.
new ==
  /\ main = "exited" /\ Cardinality(Running) <= Limit
  /\ main' = "serving" /\ failed' = FALSE
  /\ UNCHANGED <<round, ids, starts, admission, docker, faults>>

Init ==
  /\ main = "serving" /\ round = 0 /\ ids = {} /\ failed = FALSE
  /\ slot = [u \in Users |-> "empty"] /\ at = [u \in Users |-> "none"] /\ counted = [u \in Users |-> 0]
  /\ admission = None
  /\ container \in [Users -> {"absent", "stopped", "running"}] /\ Cardinality(Running) <= Limit
  /\ termed = {} /\ late = {} /\ orphans = {} /\ faults = 0

Terminates(u) == u \in termed /\ WorkerEnds(u)
Step(u) == Count(u) \/ Decide(u) \/ Launch(u) \/ Probe(u)
Next ==
  \/ \E u \in Users :
       client(u) \/ Admit(u) \/ Step(u) \/ StepFails(u) \/ Abandon(u) \/ WaitFails(u) \/ WorkerEnds(u)
  \/ \E u \in Users, command \in {"run", "start"} : OrphanLands(u, command)
  \/ Signal \/ List \/ Kill \/ Wait \/ Drain \/ Crash \/ new

\* Docker answers, the gate is fair, and a worker that is told to terminate
\* does.  Requests, signals and faults need not come.
Fairness ==
  /\ \A u \in Users :
       SF_vars(Admit(u)) /\ WF_vars(Step(u)) /\ WF_vars(Terminates(u))
  /\ SF_vars(List) /\ WF_vars(Kill \/ Wait \/ Drain)

Spec == Init /\ [][Next]_vars
FairSpec == Spec /\ Fairness

(* ------------------------------ properties ------------------------------ *)

TypeOK ==
  /\ main \in {"serving", "stopping", "kill", "wait", "drain", "exited"} /\ round \in 0..2
  /\ slot \in [Users -> {"empty", "starting", "ready"}]
  /\ at \in [Users -> {"none", "queue", "count", "decide", "run", "start", "probe"}]
  /\ \A u \in Users : slot[u] = "starting" <=> at[u] # "none"
  /\ counted \in [Users -> 0..Cardinality(Users)] /\ admission \in Users \cup {None, Gateway}
  /\ container \in [Users -> {"absent", "stopped", "running"}]
  /\ {termed, ids, late} \subseteq SUBSET Users /\ termed \subseteq Running
  /\ orphans \subseteq Users \X {"run", "start"} /\ failed \in BOOLEAN /\ faults \in 0..MaxFaults

\* However the starts of several users, restarts of the gateway and shutdowns
\* interleave, no more workers run than the limit allows, those aside that a
\* start nobody waited for has left behind.
WithinLimit == Cardinality(Running \ late) <= Limit

\* A gateway that ends without an error leaves no worker running, those
\* aside; and after shutdown has listed the workers it starts none.
NoneLeft == main = "exited" /\ ~failed => Running \subseteq late
NoneStarted ==
  [][\A u \in Users :
       /\ main \in {"kill", "wait", "drain"} \/ round = 2
       /\ container[u] # "running" /\ container'[u] = "running"
       => \E command \in {"run", "start"} : <<u, command>> \in orphans]_vars

\* The start that passes the gate holds it until its worker is launched; while
\* it does, no other worker is started, so that what it has counted stays true.
Gated(u) == at[u] \in {"count", "decide", "run", "start"}
CountsHold ==
  \A u \in Users :
    /\ Gated(u) => admission = u
    /\ at[u] \in {"decide", "run", "start"} => Cardinality(Running \ late) <= counted[u]
    /\ at[u] \in {"run", "start"} => counted[u] < Limit

\* Once shutdown has listed the workers no start is at the gate or gets there,
\* and it waits for every worker but late ones.
ShutdownListed ==
  /\ main \in {"serving", "exited"} <=> round = 0
  /\ main \in {"kill", "wait", "drain"} => \A u \in Users : ~Gated(u)
  /\ round = 2 \/ main = "exited" => Idle
  /\ main = "kill" \/ (main = "wait" /\ ~failed) => Running \ late \subseteq ids

\* Inductive.
WorkersInv == TypeOK /\ WithinLimit /\ NoneLeft /\ CountsHold /\ ShutdownListed

\* Every start ends and shutdown ends, unless shutdown waits for a worker that
\* it could not tell to terminate.
Unsignalled == main = "wait" /\ ~(ids \cap Running \subseteq termed)
StartSettles == \A u \in Users : at[u] # "none" ~> at[u] = "none" \/ Unsignalled
ShutdownEnds == main = "stopping" ~> main = "exited" \/ Unsignalled

\* workers.rs: "Count running deployment containers so a gateway restart
\* cannot bypass the active limit."
\* Not kept by a start whose docker command outlives it: see the README,
\* section 5.
LimitKept == Cardinality(Running) <= Limit
=============================================================================
