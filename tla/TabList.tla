------------------------------- MODULE TabList -------------------------------
(***************************************************************************)
(* The numbered tabs of one analysis kind: the rows of wordflow.tabs       *)
(* (analyses.rs) and a window's cached list of them (Tabs.tsx), changed    *)
(* here and in other windows.  A mutation's answer patches the cached      *)
(* list, a committed change is announced and the change observer reads the *)
(* list again; opening an empty kind creates its first tab.                *)
(*                                                                         *)
(* A list maps the identities of tabs, numbered in the order they are      *)
(* created, to name and position; a name is the number of the commit that  *)
(* gave it.  Which tab is chosen is left out.                              *)
(***************************************************************************)
EXTENDS Naturals, Sequences, FiniteSets, Functions

CONSTANTS
  MaxTabs,      \* bound: tabs ever created
  MaxCalls,     \* bound: mutations of this window
  MaxElsewhere  \* bound: changes by other windows

BoundsAssumption == MaxTabs \in Nat \ {0} /\ MaxCalls \in Nat /\ MaxElsewhere \in Nat

VARIABLES
  rows,       \* the tabs of the project
  created,    \* tabs created so far
  commits,
  elsewhere,  \* changes by other windows
  notices,    \* changes announced and not yet taken up by the observer
  refreshing, \* the observer awaits its read of the list
  list,       \* the cached list, or Unread
  seen,       \* the commit the cached list was read at
  fetch,      \* the read under way: Idle, Sent or the answer
  calls,      \* mutations of this window
  mounted,    \* the panel has been visited
  watched,    \* the create the mounted component observes; 0 for none
  active,     \* the panel is displayed
  editing,    \* a table is being edited
  checked,    \* this visit has looked for an initial tab
  autos,      \* mutations that created an initial tab
  outdated    \* an answer has put older rows over newer, or stopped a read

project == <<rows, created, commits, elsewhere, notices>>
cache == <<list, seen, fetch, refreshing, outdated>>
component == <<mounted, watched, active, editing, checked>>
vars == <<project, cache, calls, component, autos>>

Ids == 1..MaxTabs
Idle == <<>>
Sent == <<"sent">>
Unread == [i \in {0} |-> [name |-> 0, pos |-> 0]]
Row == [name : 0..MaxCalls + MaxElsewhere, pos : 0..MaxTabs + 1]
Rows == UNION {[S -> Row] : S \in SUBSET Ids}

With(f, i, r) == [j \in DOMAIN f \cup {i} |-> IF j = i THEN r ELSE f[j]]
Without(f, i) == Restrict(f, DOMAIN f \ {i})

(* ------------------------------ the project ------------------------------ *)

Orders(f) == {p \in [DOMAIN f -> 0..Cardinality(DOMAIN f) - 1] : IsInjective(p)}
\* coalesce(max(position) + 1, 0)
NewPosition == IF rows = <<>> THEN 0 ELSE 1 + CHOOSE p \in {rows[i].pos : i \in DOMAIN rows} :
                                                \A i \in DOMAIN rows : rows[i].pos <= p

create_analysis_tab(n) == With(rows, created + 1, [name |-> n, pos |-> NewPosition])
update_analysis_tab(i, n) == [rows EXCEPT ![i].name = n]
reorder_tabs(p) == [i \in DOMAIN rows |-> [rows[i] EXCEPT !.pos = p[i]]]
delete_analysis_tab(i) == Without(rows, i)

\* What a request does to the rows; errors change nothing.
Accepts(c) ==
  CASE c.op = "create" -> created < MaxTabs
    [] c.op \in {"rename", "remove"} -> c.tab \in DOMAIN rows
    [] c.op = "reorder" -> DOMAIN c.order = DOMAIN rows
Applied(c) ==
  CASE c.op = "create" -> create_analysis_tab(commits + 1)
    [] c.op = "rename" -> update_analysis_tab(c.tab, commits + 1)
    [] c.op = "reorder" -> reorder_tabs(c.order)
    [] c.op = "remove" -> delete_analysis_tab(c.tab)
Commit(c) ==
  /\ Accepts(c)
  /\ rows' = Applied(c)
  /\ created' = IF c.op = "create" THEN created + 1 ELSE created
  /\ commits' = commits + 1 /\ notices' = notices + 1

Request(op, i, p) == [op |-> op, tab |-> i, order |-> p, st |-> "sent", rows |-> <<>>, at |-> 0]
Requests(l) ==
  {Request("create", 0, <<>>)} \cup {Request(op, i, <<>>) : op \in {"rename", "remove"}, i \in DOMAIN l}
    \cup {Request("reorder", 0, p) : p \in Orders(l)}

\* Another window changes the tabs.
Elsewhere ==
  /\ elsewhere < MaxElsewhere
  /\ elsewhere' = elsewhere + 1
  /\ \E c \in Requests(rows) : Commit(c)
  /\ UNCHANGED <<cache, calls, component, autos>>

\* A request of this window is carried out, or fails.
Serve(k) ==
  /\ calls[k].st = "sent"
  /\ IF Accepts(calls[k])
     THEN /\ Commit(calls[k])
          /\ calls' = [calls EXCEPT ![k].st = "answered", ![k].rows = rows', ![k].at = commits',
                                    ![k].tab = IF calls[k].op = "create" THEN created' ELSE @]
     ELSE calls' = [calls EXCEPT ![k].st = "failed"] /\ UNCHANGED <<rows, created, commits, notices>>
  /\ UNCHANGED <<elsewhere, cache, component, autos>>

(* ------------------------------- the list -------------------------------- *)

Loaded == list # Unread
Read ==
  /\ fetch = Sent
  /\ fetch' = <<"answer", rows, commits>>
  /\ UNCHANGED <<project, list, seen, refreshing, outdated, calls, component, autos>>
Deliver ==
  /\ fetch \notin {Idle, Sent}
  /\ list' = fetch[2] /\ seen' = fetch[3]
  /\ fetch' = Idle /\ refreshing' = FALSE /\ outdated' = FALSE
  /\ UNCHANGED <<project, calls, component, autos>>

\* The observer takes up n announced changes, drops the read under way and
\* reads the list again, if the window has ever asked for it.
refreshProjectQueries(n) ==
  /\ ~refreshing
  /\ notices' = notices - n
  /\ refreshing' = (Loaded \/ fetch # Idle)
  /\ fetch' = IF refreshing' THEN Sent ELSE Idle
  /\ UNCHANGED <<rows, created, commits, elsewhere, list, seen, outdated, calls, component, autos>>

(* ----------------------------- the component ----------------------------- *)

InFlight(op) == {k \in DOMAIN calls : calls[k].op = op /\ calls[k].st \in {"sent", "answered"}}
Pending == watched \in InFlight("create")
Call(c) == Len(calls) < MaxCalls /\ calls' = Append(calls, c)

\* The panel is mounted anew; mutations of the last one go on unobserved.
Remount ==
  /\ checked \/ watched # 0 \/ ~mounted
  /\ mounted' = TRUE /\ checked' = FALSE /\ watched' = 0
  /\ fetch' = IF fetch = Idle THEN Sent ELSE fetch
  /\ UNCHANGED <<project, list, seen, refreshing, outdated, calls, active, editing, autos>>

\* The panel is displayed or hidden: hiding ends the visit.
Activate ==
  /\ mounted
  /\ active' = ~active
  /\ checked' = (checked /\ ~active)
  /\ UNCHANGED <<project, cache, calls, mounted, watched, editing, autos>>
Edit ==
  /\ editing' = ~editing
  /\ UNCHANGED <<project, cache, calls, mounted, watched, active, checked, autos>>

Bug_CheckVisit ==
  /\ active /\ ~checked /\ ~editing /\ Loaded /\ fetch = Idle
  /\ checked' = TRUE
  /\ IF list = <<>>
     THEN Call(Request("create", 0, <<>>)) /\ watched' = Len(calls') /\ autos' = autos \cup {Len(calls')}
     ELSE UNCHANGED <<calls, watched, autos>>
  /\ UNCHANGED <<project, cache, mounted, active, editing>>
\* Once a visit, when the list is there: an empty kind gets its first tab,
\* unless one is being created.
CheckVisit ==
  /\ active /\ ~checked /\ ~editing /\ Loaded /\ fetch = Idle
  /\ checked' = TRUE
  /\ IF list = <<>> /\ InFlight("create") = {}
     THEN Call(Request("create", 0, <<>>)) /\ watched' = Len(calls') /\ autos' = autos \cup {Len(calls')}
     ELSE UNCHANGED <<calls, watched, autos>>
  /\ UNCHANGED <<project, cache, mounted, active, editing>>

\* The strip's buttons.
create ==
  /\ Loaded /\ active /\ ~editing /\ ~Pending
  /\ Call(Request("create", 0, <<>>)) /\ watched' = Len(calls')
  /\ UNCHANGED <<project, cache, mounted, active, editing, checked, autos>>
mutate ==
  /\ Loaded /\ active /\ ~editing
  /\ \E c \in Requests(list) :
       /\ c.op # "create" /\ (c.op = "remove" => InFlight("remove") = {})
       /\ Call(c)
  /\ UNCHANGED <<project, cache, component, autos>>
\* A token opened from Frequency results gets a Concordance tab, whether that
\* list has been read or not.
handoff ==
  /\ ~active /\ ~editing /\ InFlight("create") = {}
  /\ Call(Request("create", 0, <<>>))
  /\ UNCHANGED <<project, cache, component, autos>>

\* onSuccess of a create: reads under way are cancelled and the new tab added.
Created(k) ==
  /\ calls[k].st = "answered" /\ calls[k].op = "create"
  /\ calls' = [calls EXCEPT ![k].st = "done"]
  /\ LET i == calls[k].tab IN
     list' = With(IF Loaded THEN list ELSE <<>>, i, calls[k].rows[i])
  /\ fetch' = Idle /\ refreshing' = FALSE
  /\ outdated' = (outdated \/ fetch # Idle \/ ~Loaded \/ seen > calls[k].at)
  /\ UNCHANGED <<project, seen, component, autos>>

\* The other mutations patch their own fields of the rows that are cached.
Patched(l, c) ==
  CASE c.op = "rename" -> [i \in DOMAIN l |-> IF i = c.tab THEN [l[i] EXCEPT !.name = c.rows[i].name] ELSE l[i]]
    [] c.op = "reorder" -> [i \in DOMAIN l |-> IF i \in DOMAIN c.rows THEN [l[i] EXCEPT !.pos = c.rows[i].pos] ELSE l[i]]
    [] c.op = "remove" -> Without(l, c.tab)
Mutated(k) ==
  /\ calls[k].st = "answered" /\ calls[k].op # "create"
  /\ calls' = [calls EXCEPT ![k].st = "done"]
  /\ list' = Patched(list, calls[k])
  /\ outdated' = (outdated \/ (calls[k].op # "remove" /\ seen > calls[k].at)
                    \/ \E j \in DOMAIN calls : calls[j].st = "done" /\ calls[j].at > calls[k].at)
  /\ UNCHANGED <<project, seen, fetch, refreshing, component, autos>>

Init ==
  /\ rows = <<>> /\ created = 0 /\ commits = 0 /\ elsewhere = 0 /\ notices = 0
  /\ list = Unread /\ seen = 0 /\ fetch = Idle /\ refreshing = FALSE /\ outdated = FALSE
  /\ calls = <<>> /\ mounted = FALSE /\ watched = 0 /\ active = FALSE /\ editing = FALSE /\ checked = FALSE
  /\ autos = {}

Next ==
  \/ Elsewhere \/ Read \/ Deliver \/ Remount \/ Activate \/ Edit \/ CheckVisit \/ create \/ mutate \/ handoff
  \/ \E n \in 1..notices : refreshProjectQueries(n)
  \/ \E k \in DOMAIN calls : Serve(k) \/ Created(k) \/ Mutated(k)

Spec == Init /\ [][Next]_vars

(* ------------------------------ properties ------------------------------ *)

TypeOK ==
  /\ rows \in Rows /\ created \in 0..MaxTabs /\ commits \in 0..MaxCalls + MaxElsewhere
  /\ elsewhere \in 0..MaxElsewhere /\ notices \in 0..commits
  /\ list \in Rows \cup {Unread} /\ seen \in 0..commits
  /\ fetch \in {Idle, Sent} \/ (fetch[2] \in Rows /\ fetch[3] \in 0..commits)
  /\ refreshing \in BOOLEAN /\ (refreshing => fetch # Idle) /\ outdated \in BOOLEAN
  /\ Len(calls) <= MaxCalls /\ watched \in 0..Len(calls) /\ autos \subseteq DOMAIN calls
  /\ \A k \in DOMAIN calls : calls[k].st \in {"sent", "answered", "done", "failed"}
  /\ mounted \in BOOLEAN /\ active \in BOOLEAN /\ editing \in BOOLEAN /\ checked \in BOOLEAN

\* However visits, remounts and slow answers fall, opening an empty kind in
\* this window leaves at most one tab that was created for it.
AutoOnce == Cardinality({k \in autos : calls[k].st \in {"answered", "done"} /\ calls[k].tab \in DOMAIN rows}) <= 1

\* The panel has been visited and nothing is under way.
Quiet ==
  /\ mounted /\ Loaded
  /\ notices = 0 /\ ~refreshing /\ fetch = Idle
  /\ \A k \in DOMAIN calls : calls[k].st \in {"done", "failed"}

\* When nothing is under way the cached list is the project's, unless an
\* answer has been overtaken by what the window already knew, or a create has
\* stopped a read and the list has not been read since.
ListSettles == Quiet /\ ~outdated => list = rows

\* What the three rest on.  Served mutations are those that reached the project.
Served == {k \in DOMAIN calls : calls[k].st \in {"answered", "done"}}
Delivered == fetch \notin {Idle, Sent}

\* Whatever list is under way names tabs that were created, each placed before
\* the number of tabs created so far; every commit is one somebody asked for.
Placed(l) == \A i \in DOMAIN l : i <= created /\ l[i].pos < created
ListsPlaced ==
  /\ Placed(rows) /\ (Loaded => Placed(list)) /\ (Delivered => Placed(fetch[2]))
  /\ commits = elsewhere + Cardinality(Served)

\* A mutation names what was listed; its answer holds the rows of its commit.
CallFits(c) ==
  /\ c = [op |-> c.op, tab |-> c.tab, order |-> c.order, st |-> c.st, rows |-> c.rows, at |-> c.at]
  /\ c.op \in {"create", "rename", "reorder", "remove"}
  /\ c.op # "create" => Loaded
  /\ c.op \in {"rename", "remove"} => c.tab \in 1..created
  /\ c.op = "reorder" => c.order \in Orders(c.order)
  /\ c.st \in {"answered", "done"} => c.at \in 0..commits /\ (c.op = "create" => c.tab \in 1..created)
  /\ c.st = "answered" =>
       /\ c.rows \in Rows /\ Placed(c.rows) /\ (c.at = commits => c.rows = rows)
       /\ c.op \in {"create", "rename"} => c.tab \in DOMAIN c.rows
       /\ c.op = "remove" => c.tab \notin DOMAIN rows
CallsFit ==
  /\ calls = [k \in 1..Len(calls) |-> calls[k]] /\ Len(calls) \in Nat
  /\ \A k \in DOMAIN calls : CallFits(calls[k])

\* A tab this window has added to its list stays listed while it exists.
TabsKept ==
  \A k \in DOMAIN calls :
    calls[k].op = "create" /\ calls[k].st = "done" /\ calls[k].tab \in DOMAIN rows =>
      Loaded /\ calls[k].tab \in DOMAIN list /\ (Delivered => calls[k].tab \in DOMAIN fetch[2])

\* At most one initial tab is being created or exists.
Alive(k) == calls[k].st = "sent" \/ (k \in Served /\ calls[k].tab \in DOMAIN rows)
OneAuto ==
  /\ \A k \in autos : calls[k].op = "create"
  /\ \A j, k \in autos : Alive(j) /\ Alive(k) => j = k

\* Once every announced change has been read, the list is of the last commit.
ListCurrent ==
  /\ Delivered => (notices = 0 => fetch[3] = commits) /\ (fetch[3] = commits => fetch[2] = rows)
  /\ Loaded /\ ~outdated =>
       (notices = 0 /\ fetch = Idle => seen = commits) /\ (seen = commits => list = rows)

\* Inductive.
TabListInv == TypeOK /\ ListsPlaced /\ CallsFit /\ TabsKept /\ OneAuto /\ ListCurrent /\ AutoOnce /\ ListSettles

\* projectChanges.ts: "One observer owns refresh": once announced changes are
\* worked off, the list shows every tab of the project.
\* Not kept in every order of events: see the README, section 5.
EveryTabListed == Quiet => DOMAIN list = DOMAIN rows
=============================================================================
