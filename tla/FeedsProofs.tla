----------------------------- MODULE FeedsProofs -----------------------------
(***************************************************************************)
(* Theorems about what a window follows, for any number of listeners,      *)
(* subscribers and streams, of tasks and snapshots, and of projects.       *)
(***************************************************************************)
EXTENDS MCFeeds, FiniteSetTheorems, TLAPS

(* ------------------------- the shared event stream ---------------------- *)

USE DEF Source!Count

(* Streams are counted by their numbers.                                    *)
LEMMA StreamsCount ==
    ASSUME NEW n \in Nat, NEW f, DOMAIN f = 1..n
    PROVE  Source!Cardinality(DOMAIN f) = n
  <1>1. Cardinality(1..n) = n
    BY FS_Interval
  <1> QED BY <1>1 DEF Source!Cardinality, Cardinality

(* So there are as many as the highest number.                              *)
LEMMA StreamsNumbered ==
    ASSUME Source!BoundsAssumption, Source!EventStreamInv
    PROVE  Source!Count \in 0..MaxSources /\ DOMAIN opened = 1..Source!Count
  <1>1. DOMAIN opened = 1..Source!Count /\ DOMAIN opened \subseteq 1..MaxSources
    BY Zenon DEF Source!EventStreamInv, Source!TypeOK, Source!Numbered
  <1>2. Cardinality(1..MaxSources) = MaxSources /\ IsFiniteSet(1..MaxSources)
    BY FS_Interval DEF Source!BoundsAssumption
  <1>3. Cardinality(DOMAIN opened) \in 0..MaxSources
    BY <1>1, <1>2, FS_Subset, FS_CardinalityType DEF Source!BoundsAssumption
  <1>4. Cardinality(DOMAIN opened) = Source!Count
    BY DEF Source!Cardinality, Cardinality
  <1> QED BY <1>1, <1>3, <1>4

(* Opening a stream in place of others leaves it alone among them.          *)
LEMMA StreamsReplaced ==
    ASSUME Source!BoundsAssumption, Source!EventStreamInv, NEW p, NEW others,
           Source!connect(p, others)
    PROVE  /\ source' \in 1..MaxSources /\ source' \notin DOMAIN opened
           /\ DOMAIN opened' = DOMAIN opened \cup {source'} /\ DOMAIN opened' \subseteq 1..MaxSources
           /\ opened'[source'] = p /\ \A n \in DOMAIN opened : opened'[n] = opened[n]
           /\ open' = (open \ others) \cup {source'}
           /\ DOMAIN opened' = 1..(Source!Count)'
  <1> DEFINE c == Source!Count
  <1>1. c \in 0..MaxSources /\ DOMAIN opened = 1..c
    BY StreamsNumbered
  <1>2. /\ c < MaxSources /\ source' = c + 1 /\ open' = (open \ others) \cup {source'}
        /\ opened' = [n \in 1..c + 1 |-> IF n <= c THEN opened[n] ELSE p]
    BY DEF Source!connect
  <1> HIDE DEF c
  <1>3. DOMAIN opened' = 1..c + 1 /\ opened'[c + 1] = p /\ \A n \in 1..c : opened'[n] = opened[n]
    BY <1>1, <1>2
  <1>4. Source!Cardinality(DOMAIN opened') = c + 1
    BY <1>1, <1>3, StreamsCount
  <1>5. (Source!Count)' = c + 1
    BY <1>4
  <1> QED BY <1>1, <1>2, <1>3, <1>5 DEF Source!BoundsAssumption

(* Whatever listeners and views come and go, one stream is open while       *)
(* anybody listens, and it carries the events of the view mounted last.     *)
LEMMA StreamsFollow ==
    ASSUME Source!BoundsAssumption, Source!EventStreamInv, Source!Next
    PROVE  Source!EventStreamInv'
  <1> USE DEF Source!BoundsAssumption
  <1>0. Source!TypeOK /\ Source!Numbered /\ Source!OneStream /\ Source!EventsReachTheirView
    BY DEF Source!EventStreamInv
  <1>1. /\ listeners \subseteq Listeners /\ project \in Subscribers \cup {None}
        /\ open \subseteq DOMAIN opened /\ DOMAIN opened = 1..Source!Count
        /\ \A n \in DOMAIN opened : opened[n] \in Subscribers \cup {None}
        /\ exists => source \in DOMAIN opened /\ opened[source] = project
        /\ source \in 0..MaxSources /\ DOMAIN opened \subseteq 1..MaxSources
        /\ open = IF listeners # {} \/ project # None THEN {source} ELSE {}
        /\ unused \subseteq Subscribers /\ live \subseteq Subscribers /\ last \in Subscribers \cup {None}
        /\ unused \cap live = {} /\ last \notin unused /\ project \in live \cup {None}
        /\ last \in live => project = last
    BY <1>0, Zenon DEF Source!TypeOK, Source!Numbered, Source!OneStream, Source!EventsReachTheirView
  <1>2. exists \in BOOLEAN /\ (exists <=> listeners # {} \/ project # None)
    BY <1>0, Zenon DEF Source!TypeOK
  <1>3. ASSUME NEW l \in Listeners, Source!subscribeServerEvents(l)
        PROVE  Source!EventStreamInv'
    <2>1. exists' \in BOOLEAN /\ (exists' <=> listeners' # {} \/ project' # None)
      BY <1>1, <1>2, <1>3, StreamsReplaced DEF Source!subscribeServerEvents
    <2>2. Source!TypeOK'
      BY <1>1, <1>2, <1>3, <2>1, StreamsReplaced DEF Source!subscribeServerEvents, Source!TypeOK
    <2>3. Source!Numbered'
      BY <1>1, <1>2, <1>3, StreamsReplaced DEF Source!subscribeServerEvents, Source!Numbered
    <2>4. Source!OneStream' /\ Source!EventsReachTheirView'
      BY <1>1, <1>2, <1>3, StreamsReplaced DEF Source!subscribeServerEvents, Source!OneStream, Source!EventsReachTheirView
    <2> QED BY <2>2, <2>3, <2>4 DEF Source!EventStreamInv
  <1>4. ASSUME NEW l \in Listeners, Source!unsubscribeServer(l)
        PROVE  Source!EventStreamInv'
    <2>1. exists' \in BOOLEAN /\ (exists' <=> listeners' # {} \/ project' # None)
      BY <1>1, <1>2, <1>4 DEF Source!unsubscribeServer, Source!release
    <2>2. Source!TypeOK'
      BY <1>1, <1>2, <1>4, <2>1 DEF Source!unsubscribeServer, Source!release, Source!TypeOK
    <2>3. Source!Numbered'
      BY <1>1, <1>2, <1>4 DEF Source!unsubscribeServer, Source!release, Source!Numbered
    <2>4. Source!OneStream' /\ Source!EventsReachTheirView'
      BY <1>1, <1>2, <1>4 DEF Source!unsubscribeServer, Source!release, Source!OneStream, Source!EventsReachTheirView
    <2> QED BY <2>2, <2>3, <2>4 DEF Source!EventStreamInv
  <1>5. ASSUME NEW p \in Subscribers, Source!subscribeProjectEvents(p)
        PROVE  Source!EventStreamInv'
    <2>1. exists' \in BOOLEAN /\ (exists' <=> listeners' # {} \/ project' # None)
      BY <1>1, <1>2, <1>5, StreamsReplaced DEF Source!subscribeProjectEvents
    <2>2. Source!TypeOK'
      BY <1>1, <1>2, <1>5, <2>1, StreamsReplaced DEF Source!subscribeProjectEvents, Source!TypeOK
    <2>3. Source!Numbered'
      BY <1>1, <1>2, <1>5, StreamsReplaced DEF Source!subscribeProjectEvents, Source!Numbered
    <2>4. Source!OneStream' /\ Source!EventsReachTheirView'
      BY <1>1, <1>2, <1>5, StreamsReplaced DEF Source!subscribeProjectEvents, Source!OneStream, Source!EventsReachTheirView
    <2> QED BY <2>2, <2>3, <2>4 DEF Source!EventStreamInv
  <1>6. ASSUME NEW p \in Subscribers, Source!unsubscribeProject(p)
        PROVE  Source!EventStreamInv'
    <2>1. exists' \in BOOLEAN /\ (exists' <=> listeners' # {} \/ project' # None)
      BY <1>1, <1>2, <1>6, StreamsReplaced DEF Source!unsubscribeProject, Source!release
    <2>2. Source!TypeOK'
      BY <1>1, <1>2, <1>6, <2>1, StreamsReplaced DEF Source!unsubscribeProject, Source!release, Source!TypeOK
    <2>3. Source!Numbered'
      BY <1>1, <1>2, <1>6, StreamsReplaced DEF Source!unsubscribeProject, Source!release, Source!Numbered
    <2>4. Source!OneStream' /\ Source!EventsReachTheirView'
      <3>1. CASE project # p
        BY <1>1, <1>2, <1>6, <3>1
           DEF Source!unsubscribeProject, Source!OneStream, Source!EventsReachTheirView
      <3>2. CASE project = p /\ listeners # {}
        <4>1. /\ project' = None /\ exists /\ exists' = exists /\ listeners' = listeners
              /\ p \in live /\ live' = live \ {p} /\ last' = last /\ Source!connect(None, {source})
          BY <1>2, <1>6, <3>2 DEF Source!unsubscribeProject
        <4> QED
          BY <1>1, <1>0, <3>2, <4>1, StreamsReplaced DEF Source!OneStream, Source!EventsReachTheirView
      <3>3. CASE project = p /\ listeners = {}
        BY <1>1, <1>2, <1>6, <3>3
           DEF Source!unsubscribeProject, Source!release, Source!OneStream, Source!EventsReachTheirView
      <3> QED BY <3>1, <3>2, <3>3
    <2> QED BY <2>2, <2>3, <2>4 DEF Source!EventStreamInv
  <1> QED BY <1>3, <1>4, <1>5, <1>6 DEF Source!Next

(* One stream per server, opened for the project subscribed last, whatever  *)
(* the order in which effects are cleaned up.                               *)
THEOREM StreamFollows == Spec => []StreamFollowsView
  <1>0. Source!BoundsAssumption
    BY FeedsAssumption DEF FeedsAssumption
  <1>1. Init => StreamFollowsView
    <2> SUFFICES ASSUME Source!Init PROVE Source!EventStreamInv
      BY DEF Init, StreamFollowsView
    <2>1. DOMAIN opened = 1..0 /\ Source!Cardinality(DOMAIN opened) = 0
      BY StreamsCount DEF Source!Init
    <2>2. exists \in BOOLEAN /\ (exists <=> listeners # {} \/ project # None)
      BY DEF Source!Init
    <2>3. Source!TypeOK
      BY <1>0, <2>1, <2>2 DEF Source!Init, Source!TypeOK, Source!BoundsAssumption
    <2>4. Source!Numbered
      BY <1>0, <2>1 DEF Source!Init, Source!Numbered, Source!BoundsAssumption
    <2>5. Source!OneStream /\ Source!EventsReachTheirView
      BY <1>0 DEF Source!Init, Source!OneStream, Source!EventsReachTheirView, Source!BoundsAssumption
    <2> QED BY <2>3, <2>4, <2>5 DEF Source!EventStreamInv
  <1>2. StreamFollowsView /\ [Next]_vars => StreamFollowsView'
    <2>1. CASE part = "sources" /\ Source!Next
      BY <1>0, <2>1, StreamsFollow DEF StreamFollowsView, Next
    <2>2. CASE UNCHANGED <<part, sources>>
      BY <2>2 DEF StreamFollowsView, sources, Source!EventStreamInv, Source!TypeOK,
         Source!Numbered, Source!OneStream, Source!EventsReachTheirView, Source!Cardinality
    <2> QED BY <2>1, <2>2 DEF Next, vars, StreamFollowsView
  <1> QED BY <1>1, <1>2, PTL DEF Spec

(* ----------------------------- the task feed ---------------------------- *)

(* The snapshots under way are snapshots.                                   *)
LEMMA SnapshotsTyped ==
    ASSUME Feed!TypeOK
    PROVE  /\ Feed!Snapshots \subseteq Feed!Snapshot
           /\ taskList \in Feed!Snapshots /\ answers \subseteq Feed!Snapshots
           /\ taskStream # <<>> => Head(taskStream) \in Feed!Snapshots
           /\ taskCache # None => taskCache \in Feed!Snapshots
           /\ \A s \in Feed!Snapshot : s.revision \in Nat /\ s.active \subseteq Tasks
                /\ s.finished \subseteq Tasks
  <1>1. taskStream # <<>> => 1 \in DOMAIN taskStream /\ Head(taskStream) = taskStream[1]
    BY DEF Feed!TypeOK
  <1>2. \A i \in DOMAIN taskStream : taskStream[i] \in Feed!Snapshot
    BY DEF Feed!TypeOK
  <1>3. Feed!Snapshots \subseteq Feed!Snapshot
    BY <1>2 DEF Feed!TypeOK, Feed!Snapshots
  <1>4. taskStream # <<>> => Head(taskStream) \in Feed!Snapshots
    BY <1>1 DEF Feed!Snapshots
  <1>5. \A s \in Feed!Snapshot : s.revision \in Nat /\ s.active \subseteq Tasks
       /\ s.finished \subseteq Tasks
    BY DEF Feed!Snapshot
  <1>6. taskList \in Feed!Snapshots /\ answers \subseteq Feed!Snapshots /\ (taskCache # None
       => taskCache \in Feed!Snapshots)
    BY DEF Feed!Snapshots
  <1> QED BY <1>3, <1>4, <1>5, <1>6

(* Delivering, dropping and copying snapshots keeps them in one history.    *)
LEMMA HistoryDelivered ==
    ASSUME Feed!HistoryForward, Feed!Snapshots' \subseteq Feed!Snapshots, UNCHANGED <<taskList,
         started>>
    PROVE  Feed!HistoryForward'
  BY DEF Feed!HistoryForward

(* A change of the list that starts, finishes or dismisses tasks extends    *)
(* the history: whatever was reported stays known.                          *)
LEMMA HistoryExtended ==
    ASSUME Feed!BoundsAssumption, Feed!TypeOK, Feed!HistoryForward, Feed!ReportsKnown,
           NEW on \in SUBSET Tasks, NEW off \in SUBSET Tasks, Feed!publish(on, off),
           Feed!Snapshots' \subseteq Feed!Snapshots \cup {taskList'},
           started \subseteq started', on \cup off \subseteq started', on \cap off = {},
           on \subseteq taskList.active \cup (started' \ started),
           off \subseteq taskList.finished \cup taskList.active,
           UNCHANGED <<taskCache, mounted, revision, notified>>
    PROVE  taskList' \in Feed!Snapshot /\ Feed!HistoryForward' /\ Feed!ReportsKnown'
  <1> DEFINE new == taskList'
  <1>1. /\ new = [revision |-> taskList.revision + 1, active |-> on, finished |-> off]
        /\ taskList.revision < MaxRevision
    BY DEF Feed!publish
  <1>2. taskList.revision \in Nat /\ taskList \in Feed!Snapshots
       /\ Feed!Snapshots \subseteq Feed!Snapshot
    BY SnapshotsTyped
  <1>3. new.revision = taskList.revision + 1 /\ new.active = on /\ new.finished = off
    BY <1>1
  <1>4. new \in Feed!Snapshot
    BY <1>1, <1>2 DEF Feed!Snapshot, Feed!BoundsAssumption
  <1> HIDE DEF new
  <1>5. \A a \in Feed!Snapshots :
          /\ a.revision \in Nat /\ a.revision <= taskList.revision
          /\ a.active \cup a.finished \subseteq started
          /\ a.finished \cap taskList.active = {}
          /\ a.finished \cap new.active = {}
    <2> SUFFICES ASSUME NEW a \in Feed!Snapshots
                 PROVE  /\ a.revision \in Nat /\ a.revision <= taskList.revision
                        /\ a.active \cup a.finished \subseteq started
                        /\ a.finished \cap taskList.active = {}
                        /\ a.finished \cap new.active = {}
      OBVIOUS
    <2>1. a.revision \in Nat /\ a.revision <= taskList.revision
      BY <1>2, SnapshotsTyped DEF Feed!HistoryForward
    <2>2. a.finished \cap taskList.active = {} /\ a.active \cup a.finished \subseteq started
      BY <2>1, <1>2 DEF Feed!HistoryForward
    <2> QED BY <2>1, <2>2, <1>3
  <1>6. \A a, b \in Feed!Snapshots : a.revision <= b.revision
       => a.finished \cap new.finished \subseteq b.finished
    <2> SUFFICES ASSUME NEW a \in Feed!Snapshots, NEW b \in Feed!Snapshots, a.revision <= b.revision
                 PROVE  a.finished \cap new.finished \subseteq b.finished
      OBVIOUS
    <2>1. a.finished \cap taskList.finished \subseteq b.finished
      BY <1>2, <1>5 DEF Feed!HistoryForward
    <2> QED BY <2>1, <1>5, <1>3
  <1>7. Feed!HistoryForward'
    <2> SUFFICES ASSUME NEW a \in Feed!Snapshots', NEW b \in Feed!Snapshots'
                 PROVE  /\ a.revision <= new.revision /\ a.active \cup a.finished \subseteq started'
                        /\ a.revision = b.revision => a = b
                        /\ a.revision <= b.revision =>
                             /\ a.finished \cap b.active = {}
                             /\ \A c \in Feed!Snapshots' : b.revision <= c.revision
                                  => a.finished \cap c.finished \subseteq b.finished
      BY DEF Feed!HistoryForward, new
    <2>1. a \in Feed!Snapshots \/ a = new
      BY DEF new
    <2>2. b \in Feed!Snapshots \/ b = new
      BY DEF new
    <2>3. a.revision <= new.revision /\ a.active \cup a.finished \subseteq started'
      BY <2>1, <1>2, <1>3, <1>5
    <2>4. a.revision = b.revision => a = b
      BY <2>1, <2>2, <1>2, <1>3, <1>5 DEF Feed!HistoryForward
    <2>5. ASSUME a.revision <= b.revision PROVE a.finished \cap b.active = {}
      BY <2>5, <2>1, <2>2, <1>2, <1>3, <1>5 DEF Feed!HistoryForward
    <2>6. ASSUME a.revision <= b.revision, NEW c \in Feed!Snapshots', b.revision <= c.revision
          PROVE  a.finished \cap c.finished \subseteq b.finished
      <3>1. CASE c \in Feed!Snapshots
        <4>1. b \in Feed!Snapshots /\ a \in Feed!Snapshots
          BY <2>6, <3>1, <2>1, <2>2, <1>2, <1>3, <1>5
        <4> QED BY <4>1, <3>1, <2>6 DEF Feed!HistoryForward
      <3>2. CASE c = new
        BY <3>2, <2>6, <2>1, <2>2, <1>2, <1>3, <1>5, <1>6
      <3> QED BY <3>1, <3>2 DEF new
    <2> QED BY <2>3, <2>4, <2>5, <2>6
  <1>8. Feed!ReportsKnown'
    <2> SUFFICES ASSUME NEW t \in Tasks, notified[t] > 0
                 PROVE  t \in started' /\ taskCache # None
                      /\ (t \in taskCache.finished \/ Feed!Gone(t)')
      BY Zenon DEF Feed!ReportsKnown
    <2>1. t \in started /\ taskCache # None /\ (t \in taskCache.finished \/ Feed!Gone(t))
      BY Zenon DEF Feed!ReportsKnown
    <2>2. ASSUME Feed!Gone(t) PROVE Feed!Gone(t)'
      <3>1. taskCache.revision <= taskList.revision
        BY <2>1, <1>5, SnapshotsTyped
      <3>2. t \notin taskList.active \cup taskList.finished
        BY <2>2, <3>1, <1>2 DEF Feed!Gone
      <3>3. t \notin new.active \cup new.finished
        BY <3>2, <2>1, <1>3
      <3> QED BY <2>2, <3>3 DEF Feed!Gone, new
    <2> QED BY <2>1, <2>2
  <1> QED BY <1>4, <1>7, <1>8 DEF new

(* What the window takes is a snapshot of the history: it replaces the      *)
(* cached one or leaves it, and a newly finished task was never reported.   *)
LEMMA SnapshotStored ==
    ASSUME Feed!BoundsAssumption, Feed!TaskFeedInv, NEW s \in Feed!Snapshots, Feed!Store(s),
           Feed!Snapshots' \subseteq Feed!Snapshots, UNCHANGED <<taskList, started, mounted>>
    PROVE  /\ taskCache' \in Feed!Snapshot
           /\ taskCache # None => taskCache'.revision >= taskCache.revision
           /\ revision' \in 0..MaxRevision \cup {None} /\ observed' \subseteq Tasks
           /\ mounted => revision' = taskCache'.revision /\ taskCache'.finished \subseteq observed'
           /\ notified' \in [Tasks -> Nat]
           /\ Feed!HistoryForward' /\ Feed!ReportsKnown' /\ Feed!ReportedOnce'
  <1>1. Feed!TypeOK /\ Feed!HistoryForward /\ Feed!ReportsKnown /\ Feed!ReportedOnce
    BY Zenon DEF Feed!TaskFeedInv
  <1>2. /\ Feed!Snapshots \subseteq Feed!Snapshot /\ s \in Feed!Snapshot
        /\ s.revision \in 0..MaxRevision /\ s.active \subseteq Tasks /\ s.finished \subseteq Tasks
    BY <1>1, SnapshotsTyped DEF Feed!Snapshot
  <1>3. taskCache # None => taskCache \in Feed!Snapshots /\ taskCache \in Feed!Snapshot
       /\ taskCache.revision \in Nat
    BY <1>1, SnapshotsTyped
  <1>4. Feed!observe(taskCache')
    BY Zenon DEF Feed!Store
  <1>5. Feed!HistoryForward'
    BY <1>1, HistoryDelivered, Zenon
  <1>6. CASE taskCache # None /\ s.revision <= taskCache.revision
    <2>1. taskCache' = taskCache
      BY <1>6, <1>1, <1>2, <1>3 DEF Feed!Store, Feed!latestTasks, Feed!HistoryForward
    <2>2. UNCHANGED <<revision, observed, notified>>
      BY <1>4, <1>6, <1>1, <1>3, <2>1 DEF Feed!observe, Feed!TypeOK, Feed!BoundsAssumption,
           Feed!Snapshot
    <2>3. mounted => revision' = taskCache'.revision /\ taskCache'.finished \subseteq observed'
      BY <2>1, <2>2, <1>1, <1>6 DEF Feed!TypeOK
    <2>4. \A t \in Tasks : Feed!Gone(t) => Feed!Gone(t)'
      BY <2>1 DEF Feed!Gone
    <2>5. Feed!ReportsKnown'
      BY <1>1, <2>1, <2>2, <2>4, <1>6, Zenon DEF Feed!ReportsKnown
    <2>6. Feed!ReportedOnce'
      BY <1>1, <2>2 DEF Feed!ReportedOnce
    <2>7. taskCache' \in Feed!Snapshot /\ (taskCache # None
         => taskCache'.revision >= taskCache.revision)
      BY <2>1, <1>3, <1>6
    <2>8. /\ revision' \in 0..MaxRevision \cup {None} /\ observed' \subseteq Tasks
          /\ notified' \in [Tasks -> Nat]
      BY <2>2, <1>1 DEF Feed!TypeOK
    <2> QED BY <2>3, <2>5, <2>6, <2>7, <2>8, <1>5, Zenon
  <1>7. CASE taskCache = None \/ ~(s.revision <= taskCache.revision)
    <2>1. taskCache' = s /\ (taskCache # None => taskCache.revision < s.revision)
      BY <1>7, <1>2, <1>3 DEF Feed!Store, Feed!latestTasks
    <2>2. s # None
      BY <1>2 DEF Feed!BoundsAssumption
    <2>3. ASSUME NEW t \in Tasks, taskCache # None, t \in taskCache.finished \/ Feed!Gone(t)
          PROVE  t \in s.finished \/ Feed!Gone(t)'
      <3>1. CASE Feed!Gone(t)
        BY <3>1, <2>1, <2>3, <1>2, <1>3 DEF Feed!Gone, Feed!Snapshot
      <3>2. CASE t \in taskCache.finished /\ t \notin s.finished
        <4> SUFFICES ASSUME NEW x \in Feed!Snapshots, s.revision <= x.revision
                     PROVE  t \notin x.active \cup x.finished
          BY <2>1 DEF Feed!Gone
        <4>1. x.revision \in Nat /\ taskCache.revision <= x.revision
             /\ taskCache.revision <= s.revision
          BY <2>1, <2>3, <1>2, <1>3 DEF Feed!Snapshot
        <4>2. taskCache.finished \cap x.active = {}
             /\ taskCache.finished \cap x.finished \subseteq s.finished
          BY <4>1, <1>1, <1>3, <2>3 DEF Feed!HistoryForward
        <4> QED BY <4>2, <3>2
      <3> QED BY <3>1, <3>2, <2>3
    <2>4. ASSUME UNCHANGED notified
          PROVE  Feed!ReportsKnown' /\ Feed!ReportedOnce' /\ notified' \in [Tasks -> Nat]
      <3>1. Feed!ReportsKnown'
        BY <2>4, <2>1, <2>2, <2>3, <1>1 DEF Feed!ReportsKnown
      <3>2. Feed!ReportedOnce' /\ notified' \in [Tasks -> Nat]
        BY <2>4, <1>1 DEF Feed!ReportedOnce, Feed!TypeOK
      <3> QED BY <3>1, <3>2
    <2>5. ASSUME notified' # notified
          PROVE  Feed!ReportsKnown' /\ Feed!ReportedOnce' /\ notified' \in [Tasks -> Nat]
      <3>1. /\ mounted /\ revision # None /\ revision' = s.revision
            /\ observed' = Feed!Forget(s) \cup s.finished
            /\ notified' = [t \in Tasks |-> notified[t] + (IF t \in Feed!Fresh(s) THEN 1 ELSE 0)]
        BY <2>5, <2>1, <1>4 DEF Feed!observe
      <3>2. taskCache # None /\ taskCache.finished \subseteq observed
        BY <3>1, <1>1 DEF Feed!ReportsKnown, Feed!TypeOK
      <3>3. ASSUME NEW t \in Feed!Fresh(s)
            PROVE  t \in Tasks /\ t \in s.finished /\ t \in started /\ notified[t] = 0
        <4>1. t \in s.finished /\ t \in Tasks /\ t \notin taskCache.finished
          BY <3>2, <3>3, <1>2 DEF Feed!Fresh, Feed!Forget
        <4>2. ~Feed!Gone(t)
          BY <4>1, <2>1, <3>2, <1>2, <1>3 DEF Feed!Gone
        <4>3. notified[t] \in Nat /\ ~(notified[t] > 0)
          BY <4>1, <4>2, <1>1 DEF Feed!ReportsKnown, Feed!TypeOK
        <4>4. t \in started
          BY <4>1, <1>1, <1>2 DEF Feed!HistoryForward
        <4> QED BY <4>1, <4>3, <4>4
      <3>4. notified \in [Tasks -> Nat]
        BY <1>1 DEF Feed!TypeOK
      <3>5. notified' \in [Tasks -> Nat]
        BY <3>1, <3>4
      <3>6. \A t \in Tasks : notified'[t] <= 1
        BY <3>1, <3>3, <3>4, <1>1 DEF Feed!ReportedOnce
      <3>7. ASSUME NEW t \in Tasks, notified'[t] > 0
            PROVE  t \in started' /\ taskCache' # None
                 /\ (t \in taskCache'.finished \/ Feed!Gone(t)')
        <4>1. CASE t \in Feed!Fresh(s)
          BY <4>1, <3>3, <2>1, <2>2
        <4>2. CASE t \notin Feed!Fresh(s)
          <5>1. notified[t] > 0
            BY <4>2, <3>1, <3>4, <3>7
          <5> QED BY <5>1, <2>1, <2>2, <2>3, <1>1 DEF Feed!ReportsKnown
        <4> QED BY <4>1, <4>2
      <3>8. Feed!ReportsKnown'
        BY <3>7, <2>1, <2>2 DEF Feed!ReportsKnown
      <3> QED BY <3>5, <3>6, <3>8 DEF Feed!ReportedOnce
    <2>6. revision' \in 0..MaxRevision \cup {None} /\ observed' \subseteq Tasks
      BY <2>1, <1>1, <1>2, <1>4 DEF Feed!observe, Feed!TypeOK, Feed!Forget
    <2>7. ASSUME mounted PROVE revision' = s.revision /\ s.finished \subseteq observed'
      <3>1. ~(revision # None /\ s.revision <= revision)
        BY <2>7, <2>1, <1>1, <1>2, <1>3 DEF Feed!TypeOK, Feed!ReportsKnown
      <3> QED BY <2>7, <3>1, <2>1, <1>4 DEF Feed!observe
    <2>8. taskCache # None => taskCache'.revision >= taskCache.revision
      BY <2>1, <1>2, <1>3
    <2>9. taskCache' \in Feed!Snapshot
      BY <2>1, <1>2
    <2>10. Feed!ReportsKnown' /\ Feed!ReportedOnce' /\ notified' \in [Tasks -> Nat]
      BY <2>4, <2>5, Zenon
    <2>11. mounted => revision' = taskCache'.revision /\ taskCache'.finished \subseteq observed'
      BY <2>1, <2>7
    <2> QED BY <2>6, <2>8, <2>9, <2>10, <2>11, <1>5, Zenon
  <1> QED BY <1>6, <1>7

(* The list forgets nothing of what it rests on, whatever the registry, the *)
(* roads of a snapshot and the observer do.                                 *)
LEMMA TasksStep ==
    ASSUME Feed!BoundsAssumption, Feed!TaskFeedInv, [Feed!Next]_(Feed!vars)
    PROVE  Feed!TaskFeedInv'
  <1>0. Feed!TypeOK /\ Feed!HistoryForward /\ Feed!ReportsKnown /\ Feed!ReportedOnce
    BY Zenon DEF Feed!TaskFeedInv
  <1>a. /\ taskList \in Feed!Snapshot /\ started \subseteq Tasks /\ seen \in 0..MaxRevision
        /\ taskStream \in Seq(Feed!Snapshot) /\ answers \subseteq Feed!Snapshot
             /\ requests \in 0..MaxRequests
        /\ taskCache \in Feed!Snapshot \cup {None} /\ mounts \in 0..MaxMounts /\ mounted \in BOOLEAN
        /\ revision \in 0..MaxRevision \cup {None} /\ observed \subseteq Tasks
        /\ notified \in [Tasks -> Nat]
        /\ taskList.revision \in 0..MaxRevision /\ taskList.active \subseteq Tasks
        /\ taskList.finished \subseteq Tasks
    BY <1>0 DEF Feed!TypeOK, Feed!Snapshot
  <1>b. mounted /\ taskCache # None => revision = taskCache.revision
       /\ taskCache.finished \subseteq observed
    BY <1>0 DEF Feed!TypeOK
  <1>c. /\ taskList \in Feed!Snapshots /\ Feed!Snapshots \subseteq Feed!Snapshot
        /\ taskList.active \cap taskList.finished = {}
        /\ taskList.active \cup taskList.finished \subseteq started
    BY <1>0, <1>a, SnapshotsTyped DEF Feed!HistoryForward
  \* The registry publishes a list.
  <1>d. ASSUME NEW on \in SUBSET Tasks, NEW off \in SUBSET Tasks, Feed!publish(on, off),
               Feed!Snapshots' \subseteq Feed!Snapshots \cup {taskList'},
               started \subseteq started', started' \subseteq Tasks,
               on \cup off \subseteq started', on \cap off = {},
               on \subseteq taskList.active \cup (started' \ started),
               off \subseteq taskList.finished \cup taskList.active,
               UNCHANGED <<seen, taskStream, taskCache, mounts, mounted, revision, observed,
                    notified>>,
               answers' \subseteq answers \cup {taskList'}, requests' \in 0..MaxRequests
        PROVE  Feed!TaskFeedInv'
    <2>1. taskList' \in Feed!Snapshot /\ Feed!HistoryForward' /\ Feed!ReportsKnown'
      BY <1>0, <1>d, HistoryExtended
    <2>2. Feed!TypeOK'
      BY <1>a, <1>b, <1>d, <2>1 DEF Feed!TypeOK
    <2>3. Feed!ReportedOnce'
      BY <1>0, <1>d DEF Feed!ReportedOnce
    <2> QED BY <2>1, <2>2, <2>3 DEF Feed!TaskFeedInv
  \* A snapshot is delivered to the window.
  <1>e. ASSUME NEW s \in Feed!Snapshots, Feed!Store(s), Feed!Snapshots' \subseteq Feed!Snapshots,
               UNCHANGED <<taskList, started, seen, requests, mounts, mounted>>,
               taskStream' \in Seq(Feed!Snapshot), answers' \subseteq Feed!Snapshot
        PROVE  Feed!TaskFeedInv'
    <2>1. /\ taskCache' \in Feed!Snapshot
          /\ revision' \in 0..MaxRevision \cup {None} /\ observed' \subseteq Tasks
          /\ mounted => revision' = taskCache'.revision /\ taskCache'.finished \subseteq observed'
          /\ notified' \in [Tasks -> Nat]
      BY <1>e, SnapshotStored
    <2>2. Feed!HistoryForward' /\ Feed!ReportsKnown' /\ Feed!ReportedOnce'
      BY <1>e, SnapshotStored
    <2>3. Feed!TypeOK'
      BY <1>a, <1>e, <2>1 DEF Feed!TypeOK
    <2> QED BY <2>2, <2>3, Zenon DEF Feed!TaskFeedInv
  \* Snapshots are copied or dropped, the window takes none.
  <1>f. ASSUME Feed!Snapshots' \subseteq Feed!Snapshots, UNCHANGED <<taskList, started, taskCache,
       notified>>,
               seen' \in 0..MaxRevision, requests' \in 0..MaxRequests, mounts' \in 0..MaxMounts,
               taskStream' \in Seq(Feed!Snapshot), answers' \subseteq Feed!Snapshot,
                    mounted' \in BOOLEAN,
               revision' \in 0..MaxRevision \cup {None}, observed' \subseteq Tasks,
               mounted' /\ taskCache # None => revision' = taskCache.revision
                    /\ taskCache.finished \subseteq observed',
               mounted' /\ taskCache = None => revision' = None
        PROVE  Feed!TaskFeedInv'
    <2>1. Feed!HistoryForward'
      BY <1>0, <1>f, HistoryDelivered
    <2>2. \A t \in Tasks : Feed!Gone(t) => Feed!Gone(t)'
      BY <1>f DEF Feed!Gone
    <2>3. Feed!ReportsKnown'
      BY <1>0, <1>f, <2>2 DEF Feed!ReportsKnown
    <2>4. Feed!TypeOK'
      BY <1>a, <1>f DEF Feed!TypeOK
    <2>5. Feed!ReportedOnce'
      BY <1>0, <1>f DEF Feed!ReportedOnce
    <2> QED BY <2>1, <2>3, <2>4, <2>5 DEF Feed!TaskFeedInv
  <1>1. ASSUME NEW t \in Tasks, Feed!Start(t) PROVE Feed!TaskFeedInv'
    <2>1. /\ t \notin started /\ started' = started \cup {t}
          /\ Feed!publish(taskList.active \cup {t}, taskList.finished)
          /\ UNCHANGED <<seen, taskStream, answers, requests, taskCache, mounts, mounted,
               revision, observed, notified>>
      BY <1>1 DEF Feed!Start
    <2>2. Feed!Snapshots' \subseteq Feed!Snapshots \cup {taskList'}
      BY <2>1 DEF Feed!Snapshots
    <2> QED BY <2>1, <2>2, <1>a, <1>c, <1>d
  <1>2. ASSUME NEW t \in Tasks, Feed!Finish(t) PROVE Feed!TaskFeedInv'
    <2>1. /\ t \in taskList.active /\ Feed!publish(taskList.active \ {t}, taskList.finished
               \cup {t})
          /\ UNCHANGED <<started, seen, taskStream, answers, requests, taskCache, mounts, mounted,
               revision, observed, notified>>
      BY <1>2 DEF Feed!Finish
    <2>2. Feed!Snapshots' \subseteq Feed!Snapshots \cup {taskList'}
      BY <2>1 DEF Feed!Snapshots
    <2> QED BY <2>1, <2>2, <1>a, <1>c, <1>d
  <1>3. ASSUME NEW t \in Tasks, Feed!dismiss(t) PROVE Feed!TaskFeedInv'
    <2>1. /\ requests < MaxRequests /\ requests' = requests + 1
          /\ Feed!publish(taskList.active, taskList.finished \ {t})
          /\ answers' = answers \cup {taskList'}
          /\ UNCHANGED <<started, seen, taskStream, taskCache, mounts, mounted, revision,
               observed, notified>>
      BY <1>3 DEF Feed!dismiss
    <2>2. Feed!Snapshots' \subseteq Feed!Snapshots \cup {taskList'}
      BY <2>1 DEF Feed!Snapshots
    <2>3. requests' \in 0..MaxRequests
      BY <2>1, <1>a DEF Feed!BoundsAssumption
    <2> QED BY <2>1, <2>2, <2>3, <1>a, <1>c, <1>d
  <1>4. ASSUME Feed!Stream PROVE Feed!TaskFeedInv'
    <2>1. /\ mounted /\ seen' = taskList.revision /\ taskStream' = Append(taskStream, taskList)
          /\ UNCHANGED <<taskList, started, answers, requests, taskCache, mounts, mounted,
               revision, observed, notified>>
      BY <1>4 DEF Feed!Stream
    <2>2. taskStream' \in Seq(Feed!Snapshot)
         /\ \A i \in DOMAIN taskStream' : taskStream'[i] \in Feed!Snapshots
      BY <2>1, <1>a, <1>c DEF Feed!Snapshots
    <2>3. Feed!Snapshots' \subseteq Feed!Snapshots
      BY <2>1, <2>2 DEF Feed!Snapshots
    <2> QED BY <2>1, <2>2, <2>3, <1>0, <1>a, <1>b, <1>f DEF Feed!ReportsKnown
  <1>5. ASSUME Feed!Read PROVE Feed!TaskFeedInv'
    <2>1. /\ requests < MaxRequests /\ requests' = requests + 1 /\ answers' = answers
               \cup {taskList}
          /\ UNCHANGED <<taskList, started, seen, taskStream, taskCache, mounts, mounted,
               revision, observed, notified>>
      BY <1>5 DEF Feed!Read
    <2>2. Feed!Snapshots' \subseteq Feed!Snapshots
      BY <2>1 DEF Feed!Snapshots
    <2>3. requests' \in 0..MaxRequests
      BY <2>1, <1>a DEF Feed!BoundsAssumption
    <2> QED BY <2>1, <2>2, <2>3, <1>0, <1>a, <1>b, <1>f DEF Feed!ReportsKnown
  <1>6. ASSUME Feed!Receive PROVE Feed!TaskFeedInv'
    <2>1. /\ taskStream # <<>> /\ Feed!Store(Head(taskStream)) /\ taskStream' = Tail(taskStream)
          /\ UNCHANGED <<taskList, started, seen, answers, requests, mounts, mounted>>
      BY <1>6 DEF Feed!Receive
    <2>2. Head(taskStream) \in Feed!Snapshots
      BY <2>1, <1>0, SnapshotsTyped
    <2>3. taskStream' \in Seq(Feed!Snapshot)
         /\ \A i \in DOMAIN taskStream' : taskStream'[i] \in Feed!Snapshots
      BY <2>1, <1>a DEF Feed!Snapshots
    <2>4. taskCache' \in {taskCache, Head(taskStream)}
      BY <2>1 DEF Feed!Store, Feed!latestTasks
    <2>5. Feed!Snapshots' \subseteq Feed!Snapshots
      BY <2>1, <2>2, <2>3, <2>4 DEF Feed!Snapshots
    <2> QED BY <2>1, <2>2, <2>3, <2>5, <1>a, <1>e
  <1>7. ASSUME NEW s \in answers, Feed!Answer(s) PROVE Feed!TaskFeedInv'
    <2>1. /\ Feed!Store(s) /\ answers' = answers \ {s}
          /\ UNCHANGED <<taskList, started, seen, taskStream, requests, mounts, mounted>>
      BY <1>7 DEF Feed!Answer
    <2>2. s \in Feed!Snapshots
      BY DEF Feed!Snapshots
    <2>3. taskCache' \in {taskCache, s}
      BY <2>1 DEF Feed!Store, Feed!latestTasks
    <2>4. Feed!Snapshots' \subseteq Feed!Snapshots
      BY <2>1, <2>2, <2>3 DEF Feed!Snapshots
    <2> QED BY <2>1, <2>2, <2>4, <1>a, <1>e
  <1>8. ASSUME Feed!Mount PROVE Feed!TaskFeedInv'
    <2>1. /\ ~mounted /\ mounts < MaxMounts /\ mounted' = TRUE /\ mounts' = mounts + 1
          /\ taskStream' = <<taskList>> /\ seen' = taskList.revision
          /\ UNCHANGED <<taskList, started, answers, requests, taskCache, notified>>
      BY <1>8 DEF Feed!Mount
    <2>2. IF taskCache = None THEN revision' = None /\ observed' = {}
                          ELSE revision' = taskCache.revision /\ observed' = taskCache.finished
      BY <1>8 DEF Feed!Mount
    <2>3. Feed!Snapshots' \subseteq Feed!Snapshots
      BY <2>1 DEF Feed!Snapshots
    <2>4. mounts' \in 0..MaxMounts
      BY <2>1, <1>a DEF Feed!BoundsAssumption
    <2>5. taskCache # None => taskCache.revision \in 0..MaxRevision
         /\ taskCache.finished \subseteq Tasks
      BY <1>a DEF Feed!Snapshot
    <2>6. revision' \in 0..MaxRevision \cup {None} /\ observed' \subseteq Tasks
      BY <2>2, <2>5
    <2>7. taskStream' \in Seq(Feed!Snapshot) /\ answers' \subseteq Feed!Snapshot
         /\ mounted' \in BOOLEAN
      BY <2>1, <1>a
    <2>8. /\ taskCache # None => revision' = taskCache.revision
               /\ taskCache.finished \subseteq observed'
          /\ taskCache = None => revision' = None
      BY <2>2
    <2>9. UNCHANGED <<taskList, started, taskCache, notified>> /\ seen' \in 0..MaxRevision
         /\ requests' \in 0..MaxRequests
      BY <2>1, <1>a
    <2> QED BY <2>3, <2>4, <2>6, <2>7, <2>8, <2>9, <1>f, Zenon
  <1>9. ASSUME Feed!Unmount PROVE Feed!TaskFeedInv'
    <2>1. /\ mounted' = FALSE /\ taskStream' = <<>>
          /\ UNCHANGED <<taskList, started, seen, answers, requests, taskCache, mounts, revision,
               observed, notified>>
      BY <1>9 DEF Feed!Unmount
    <2>2. Feed!Snapshots' \subseteq Feed!Snapshots
      BY <2>1 DEF Feed!Snapshots
    <2>3. taskStream' \in Seq(Feed!Snapshot) /\ answers' \subseteq Feed!Snapshot /\ mounted' = FALSE
      BY <2>1, <1>a
    <2>4. /\ UNCHANGED <<taskList, started, taskCache, notified>>
          /\ seen' \in 0..MaxRevision /\ requests' \in 0..MaxRequests /\ mounts' \in 0..MaxMounts
          /\ revision' \in 0..MaxRevision \cup {None} /\ observed' \subseteq Tasks
      BY <2>1, <1>a
    <2> QED BY <2>2, <2>3, <2>4, <1>f, Zenon
  <1>10. CASE UNCHANGED Feed!vars
    <2>1. Feed!Snapshots' \subseteq Feed!Snapshots
      BY <1>10 DEF Feed!vars, Feed!Snapshots
    <2> QED BY <1>10, <2>1, <1>0, <1>a, <1>b, <1>f DEF Feed!vars, Feed!ReportsKnown
  <1> QED
    BY <1>1, <1>2, <1>3, <1>4, <1>5, <1>6, <1>7, <1>8, <1>9, <1>10 DEF Feed!Next

(* The cached snapshot is only replaced by a later one.                     *)
LEMMA TasksShown ==
    ASSUME Feed!BoundsAssumption, Feed!TaskFeedInv, [Feed!Next]_(Feed!vars)
    PROVE  [taskCache # None => taskCache' # None /\ taskCache'.revision >= taskCache.revision]_(Feed!vars)
  <1> SUFFICES ASSUME taskCache # None
               PROVE  taskCache' # None /\ taskCache'.revision >= taskCache.revision
    OBVIOUS
  <1>0. Feed!TypeOK
    BY Zenon DEF Feed!TaskFeedInv
  <1>a. taskCache \in Feed!Snapshot /\ taskCache.revision \in Nat
    BY <1>0 DEF Feed!TypeOK, Feed!Snapshot
  <1>1. ASSUME NEW s \in Feed!Snapshots, Feed!Store(s)
        PROVE  taskCache' # None /\ taskCache'.revision >= taskCache.revision
    <2>1. s \in Feed!Snapshot /\ s.revision \in Nat
      BY <1>0, SnapshotsTyped
    <2> QED BY <2>1, <1>1, <1>a DEF Feed!Store, Feed!latestTasks, Feed!BoundsAssumption
  <1>2. CASE Feed!Receive
    <2>1. Head(taskStream) \in Feed!Snapshots
      BY <1>2, <1>0, SnapshotsTyped DEF Feed!Receive
    <2> QED BY <2>1, <1>1, <1>2 DEF Feed!Receive
  <1>3. ASSUME NEW s \in answers, Feed!Answer(s)
        PROVE  taskCache' # None /\ taskCache'.revision >= taskCache.revision
    BY <1>3, <1>1 DEF Feed!Answer, Feed!Snapshots
  <1>4. CASE UNCHANGED taskCache
    BY <1>4, <1>a
  <1> QED
    BY <1>2, <1>3, <1>4 DEF Feed!Next, Feed!vars, Feed!Start, Feed!Finish, Feed!dismiss,
         Feed!Stream, Feed!Read, Feed!Mount, Feed!Unmount

(* At the start there is one snapshot, of an empty list.                    *)
LEMMA TasksInit ==
    ASSUME Feed!BoundsAssumption, Feed!Init
    PROVE  Feed!TaskFeedInv
  <1>1. Feed!Snapshots = {taskList} /\ taskList = [revision |-> 0, active |-> {}, finished |-> {}]
    BY DEF Feed!Init, Feed!Snapshots
  <1>2. Feed!TypeOK
    <2>1. taskList \in Feed!Snapshot /\ answers \subseteq Feed!Snapshot
         /\ taskStream \in Seq(Feed!Snapshot)
      BY DEF Feed!Init, Feed!Snapshot, Feed!BoundsAssumption
    <2>2. notified \in [Tasks -> Nat]
      BY DEF Feed!Init
    <2>3. /\ started \subseteq Tasks /\ seen \in 0..MaxRevision /\ requests \in 0..MaxRequests
          /\ mounts \in 0..MaxMounts /\ observed \subseteq Tasks
      BY DEF Feed!Init, Feed!BoundsAssumption
    <2>4. ~mounted /\ mounted \in BOOLEAN /\ taskCache = None /\ revision = None
      BY DEF Feed!Init
    <2> QED BY <2>1, <2>2, <2>3, <2>4 DEF Feed!TypeOK
  <1>3. Feed!HistoryForward
    BY <1>1 DEF Feed!HistoryForward
  <1>4. Feed!ReportsKnown /\ Feed!ReportedOnce
    BY DEF Feed!Init, Feed!ReportsKnown, Feed!ReportedOnce
  <1> QED BY <1>2, <1>3, <1>4 DEF Feed!TaskFeedInv

(* The end of a task is reported at most once, and the list of tasks never  *)
(* goes back, by whichever road its snapshots come.                         *)
THEOREM ListMovesForward == Spec => TasksReported
  <1> DEFINE Kept == part = "tasks" => Feed!TaskFeedInv
  <1>0. Feed!BoundsAssumption BY FeedsAssumption
  <1>1. ASSUME Init PROVE Kept
    BY <1>0, <1>1, TasksInit DEF Init
  <1>2. ASSUME Kept, [Next]_vars PROVE Kept'
    <2>0. part' = part BY <1>2 DEF Next, vars
    <2>1. ASSUME part = "tasks" PROVE Feed!TaskFeedInv'
      <3>1. Feed!Next \/ UNCHANGED tasks BY <1>2, <2>1 DEF Next, vars
      <3>2. [Feed!Next]_(Feed!vars) BY <3>1 DEF tasks, Feed!vars
      <3> QED BY <1>0, <1>2, <2>1, <3>2, TasksStep
    <2> QED BY <2>0, <2>1
  <1>3. ASSUME Kept, [Next]_vars
        PROVE  [taskCache # None => taskCache' # None /\ taskCache'.revision >= taskCache.revision]_(Feed!vars)
    <2>1. CASE part = "tasks" /\ Feed!Next
      BY <1>0, <1>3, <2>1, TasksShown
    <2>2. CASE UNCHANGED tasks
      BY <2>2 DEF tasks, Feed!vars
    <2> QED BY <1>3, <2>1, <2>2 DEF Next, vars
  <1>4. Spec => []Kept
    BY <1>1, <1>2, PTL DEF Spec
  <1>5. Spec => Feed!ShownForward
    BY <1>3, <1>4, PTL DEF Spec, Feed!ShownForward
  <1> QED BY <1>4, <1>5, PTL DEF TasksReported

(* --------------------------- the server window -------------------------- *)

(* An answer under way is neither a request nor nothing, and is one list.   *)
LEMMA AnswersDiffer ==
    /\ \A S \in SUBSET Projects : Window!Answer(S) # Window!Sent /\ Window!Answer(S) # Window!Idle
    /\ Window!Sent # Window!Idle
    /\ \A S, T \in SUBSET Projects : Window!Answer(S) = Window!Answer(T) => S = T
  <1>1. \A S, T \in SUBSET Projects : Window!Answer(S) = Window!Answer(T) => S = T
    <2> SUFFICES ASSUME NEW S \in SUBSET Projects, NEW T \in SUBSET Projects,
         Window!Answer(S) = Window!Answer(T)
                 PROVE  S = T
      OBVIOUS
    <2>1. Window!Answer(S)[2] = Window!Answer(T)[2]
      OBVIOUS
    <2> QED BY <2>1 DEF Window!Answer
  <1>2. ASSUME NEW S \in SUBSET Projects PROVE Window!Answer(S) # Window!Sent
       /\ Window!Answer(S) # Window!Idle
    <2>1. Len(Window!Answer(S)) = 2 /\ Len(Window!Sent) = 1 /\ Len(Window!Idle) = 0
      BY DEF Window!Answer, Window!Sent, Window!Idle
    <2> QED BY <2>1
  <1>3. Window!Sent # Window!Idle
    BY DEF Window!Sent, Window!Idle
  <1> QED BY <1>1, <1>2, <1>3

(* What an operation under way remembers.                                   *)
LEMMA CallsTyped ==
    ASSUME Window!TypeOK, NEW d \in Window!Dialogs, Window!Pending(d)
    PROVE  /\ calls[d] \in Window!Call /\ calls[d].id \in Projects
           /\ calls[d].op \in {"open", "close"}
           /\ calls[d].phase \in {"sent", "answered", "refreshing", "refreshed"}
           /\ calls[d].sel \in Projects \cup {None} /\ calls[d].project \in Projects \cup {None}
  <1>1. calls[d] \in Window!Call
    BY DEF Window!TypeOK, Window!Pending
  <1> QED BY <1>1 DEF Window!Call

(* Once nothing is announced, asked or pending, what is closed is released. *)
LEMMA ReleasedThen ==
    ASSUME Window!TypeOK', Window!ClosingTold', Window!KeptListed'
    PROVE  Window!Released'
  <1> SUFFICES ASSUME Window!Quiet', NEW p \in closed' \ raced', Window!Kept(p)' PROVE FALSE
    BY DEF Window!Released
  <1>1. p \in Projects /\ p \in registry'
    BY DEF Window!KeptListed, Window!TypeOK
  <1>2. announced' \/ registryFetch' = Window!Sent \/ \E S \in SUBSET Projects : registryFetch' = Window!Answer(S)
    BY <1>1 DEF Window!ClosingTold
  <1> QED BY <1>2, AnswersDiffer DEF Window!Quiet

(* The parts of the invariant.                                              *)
LEMMA WindowParts ==
    ASSUME Window!TypeOK', Window!AnswersFit', Window!ClosingTold', Window!SelectedFits',
         Window!CallsFit', Window!KeptListed', Window!Isolated', Window!StateKept'
    PROVE  Window!ServerWindowInv'
  BY ReleasedThen, Zenon DEF Window!ServerWindowInv

(* Choosing id in a window that shows shown swaps the stores for the        *)
(* snapshot of id: nothing of another project comes in, nothing is lost.    *)
LEMMA WindowSwitched ==
    ASSUME Window!ProjectsAssumption, Window!TypeOK, Window!SelectedFits, Window!KeptListed,
         Window!Isolated, Window!StateKept,
           NEW id \in Projects \cup {None}, NEW sel \in Projects
                \cup {None}, NEW shown \in {None, sel},
           Window!select(id, sel, shown), id # sel,
           shown = None /\ sel # None => sel \in closed,
           shown # None => shown \in raced \/ shown \in clients \cap registry,
           id # None => id \in registry \cup (closed \cap raced),
           UNCHANGED <<Window!server, registry, listed, touched, raced>>
    PROVE  /\ selected' = id /\ clients' = clients \cup ({id} \ {None})
                /\ clients' \subseteq Projects
           /\ windowStates' \in [Projects -> Projects \cup {None}] /\ stores' \in Projects
                \cup {None}
           /\ overtaken' \in BOOLEAN
           /\ Window!KeptListed' /\ Window!Isolated' /\ Window!StateKept'
  <1>1. /\ selected' = id /\ clients' = clients \cup ({id} \ {None})
        /\ overtaken' = (overtaken \/ sel # selected)
        /\ stores' = IF id = None THEN None ELSE windowStates[id]
        /\ windowStates' = IF shown = None THEN windowStates
             ELSE [windowStates EXCEPT ![shown] = stores]
    BY DEF Window!select, Window!capture
  <1>2. /\ windowStates \in [Projects -> Projects \cup {None}] /\ stores \in Projects \cup {None}
        /\ clients \subseteq Projects /\ openProjects \cap closed = {} /\ overtaken \in BOOLEAN
        /\ None \notin Projects /\ registry \subseteq openProjects \cup closed
    BY DEF Window!TypeOK, Window!ProjectsAssumption
  <1>3. /\ windowStates' \in [Projects -> Projects \cup {None}]
        /\ \A p \in Projects : windowStates'[p] = IF p = shown THEN stores ELSE windowStates[p]
    BY <1>1, <1>2
  <1>4. stores' \in Projects \cup {None} /\ clients' \subseteq Projects /\ overtaken' \in BOOLEAN
    BY <1>1, <1>2
  <1>5. UNCHANGED <<openProjects, closed, registry, touched, raced>>
    BY DEF Window!server
  <1>6. Window!KeptListed'
    <2>1. ASSUME NEW p \in Projects,
         Window!Kept(p)' PROVE p \in raced \/ p \in clients' \cap registry
      <3>1. CASE Window!Kept(p)
        BY <3>1, <1>1 DEF Window!KeptListed
      <3>2. CASE ~Window!Kept(p)
        <4>1. p = id \/ p = shown
          BY <2>1, <3>2, <1>1, <1>3 DEF Window!Kept
        <4> QED BY <4>1, <1>1, <1>2
      <3> QED BY <3>1, <3>2
    <2> QED BY <2>1, <1>5 DEF Window!KeptListed
  <1>7. Window!Isolated'
    <2> SUFFICES ASSUME ~overtaken'
                 PROVE  stores' \in {None, id} /\ \A p \in Projects : windowStates'[p] \in {None, p}
      BY <1>1 DEF Window!Isolated
    <2>1. ~overtaken /\ sel = selected
      BY <1>1, <1>2
    <2>2. stores \in {None, sel} /\ \A p \in Projects : windowStates[p] \in {None, p}
      BY <2>1 DEF Window!Isolated
    <2> QED BY <2>2, <1>1, <1>3
  <1>8. Window!StateKept'
    <2> SUFFICES ASSUME ~overtaken', NEW p \in touched \cap openProjects
                 PROVE  IF id = p THEN stores' = p ELSE windowStates'[p] = p
      BY <1>1, <1>5 DEF Window!StateKept
    <2>1. ~overtaken /\ sel = selected
      BY <1>1, <1>2
    <2>2. p \in Projects /\ p # None /\ (IF sel = p THEN stores = p ELSE windowStates[p] = p)
      BY <2>1, <1>2 DEF Window!StateKept, Window!TypeOK
    <2>3. CASE id = p
      BY <2>2, <2>3, <1>1
    <2>4. CASE id # p /\ sel = p
      <3>1. shown = p
        BY <2>2, <2>4, <1>2
      <3> QED BY <3>1, <2>2, <2>4, <1>3
    <2>5. CASE id # p /\ sel # p
      BY <2>2, <2>5, <1>3
    <2> QED BY <2>3, <2>4, <2>5
  <1> QED BY <1>1, <1>3, <1>4, <1>6, <1>7, <1>8

(* The server opens p, by whatever window: it is new, so nothing was known  *)
(* of it.                                                                   *)
LEMMA WindowOpens ==
    ASSUME Window!ProjectsAssumption, Window!ServerWindowInv, NEW p \in Projects, p \notin closed,
           openProjects' = openProjects \cup {p}, announced' = (announced \/ p \notin openProjects),
           UNCHANGED <<closed, Window!query, selected, clients, windowStates, stores,
                Window!history>>,
           calls' \in [Window!Dialogs -> Window!Call \cup {Window!NoCall}], Window!CallsFit'
    PROVE  Window!ServerWindowInv'
  <1>1. /\ Window!TypeOK /\ Window!AnswersFit /\ Window!ClosingTold /\ Window!SelectedFits
             /\ Window!KeptListed /\ Window!Isolated /\ Window!StateKept
        /\ UNCHANGED <<closed, registryFetch, registry, listed, selected, clients, windowStates,
             stores,
                       touched, raced, overtaken>>
    BY DEF Window!ServerWindowInv, Window!query, Window!history
  <1>2. /\ registry \subseteq openProjects \cup closed /\ touched \subseteq openProjects \cup closed
        /\ registry \cap openProjects' = registry \cap openProjects
             /\ touched \cap openProjects' = touched \cap openProjects
    BY <1>1 DEF Window!TypeOK, Window!KeptListed
  <1>3. Window!TypeOK'
    BY <1>1 DEF Window!TypeOK
  <1>4. Window!AnswersFit'
    BY <1>1, <1>2 DEF Window!AnswersFit
  <1>5. Window!ClosingTold'
    BY <1>1 DEF Window!ClosingTold
  <1>6. Window!SelectedFits'
    BY <1>1 DEF Window!SelectedFits
  <1>7. Window!KeptListed'
    BY <1>1, <1>2 DEF Window!KeptListed, Window!Kept
  <1>8. Window!Isolated' /\ Window!StateKept'
    BY <1>1, <1>2 DEF Window!Isolated, Window!StateKept
  <1> QED BY <1>3, <1>4, <1>5, <1>6, <1>7, <1>8, WindowParts

(* The server closes p: it will be announced, and an operation that is      *)
(* under way has met it.                                                    *)
LEMMA WindowCloses ==
    ASSUME Window!ProjectsAssumption, Window!ServerWindowInv, NEW p \in Projects,
         Window!ServerClose(p),
           UNCHANGED <<Window!query, selected, clients, windowStates, stores, touched, overtaken>>,
           calls' \in [Window!Dialogs -> Window!Call \cup {Window!NoCall}],
           \A d \in Window!Dialogs : Window!Pending(d)' =>
             /\ Window!Pending(d)
             /\ calls'[d].op = calls[d].op /\ calls'[d].id = calls[d].id
             /\ calls'[d].sel = calls[d].sel /\ calls'[d].project = calls[d].project
             /\ \/ calls'[d].phase = calls[d].phase
                \/ calls'[d].op # "open" /\ calls'[d].phase = "answered" /\ calls'[d].id = p
    PROVE  Window!ServerWindowInv'
  <1>1. /\ Window!TypeOK /\ Window!AnswersFit /\ Window!ClosingTold /\ Window!SelectedFits
             /\ Window!CallsFit /\ Window!KeptListed /\ Window!Isolated
        /\ Window!StateKept
        /\ UNCHANGED <<registryFetch, registry, listed, selected, clients, windowStates, stores,
                       touched, overtaken>>
    BY DEF Window!ServerWindowInv, Window!query
  <1>2. /\ p \in openProjects /\ openProjects' = openProjects \ {p} /\ closed' = closed \cup {p}
             /\ announced' = TRUE
        /\ raced \subseteq raced' /\ raced' \subseteq raced \cup {p}
        /\ \A d \in Window!Dialogs : Window!Pending(d) => p \in raced'
    BY DEF Window!ServerClose
  <1>3. Window!TypeOK'
    BY <1>1, <1>2 DEF Window!TypeOK
  <1>4. Window!AnswersFit'
    BY <1>1, <1>2 DEF Window!AnswersFit
  <1>5. Window!ClosingTold'
    BY <1>2 DEF Window!ClosingTold
  <1>6. Window!SelectedFits'
    BY <1>1, <1>2 DEF Window!SelectedFits
  <1>7. Window!CallsFit'
    <2> SUFFICES ASSUME NEW d \in Window!Dialogs, Window!Pending(d)'
                 PROVE  /\ calls'[d].project \in {None, calls'[d].sel}
                        /\ calls'[d].project = None /\ calls'[d].sel # None
                             => calls'[d].sel \in closed'
                        /\ calls'[d].project # None =>
                             calls'[d].project \in (raced' \cap closed')
                                  \cup (clients' \cap registry' \cap openProjects')
                        /\ calls'[d].op = "open" => (calls'[d].id \in closed'
                             => calls'[d].id \in raced')
                        /\ calls'[d].phase # "sent" => calls'[d].id \in openProjects' \cup closed'
                        /\ calls'[d].phase = "refreshing" =>
                             \/ registryFetch' = Window!Sent
                             \/ \E S \in SUBSET Projects : registryFetch' = Window!Answer(S)
                                  /\ calls'[d].id \in S \cup closed'
                        /\ calls'[d].phase = "refreshed" => calls'[d].id \in registry' \cup closed'
      BY DEF Window!CallsFit
    <2>1. /\ Window!Pending(d) /\ p \in raced'
          /\ calls'[d].op = calls[d].op /\ calls'[d].id = calls[d].id
          /\ calls'[d].sel = calls[d].sel /\ calls'[d].project = calls[d].project
      BY <1>2
    <2>2. /\ calls[d].project \in {None, calls[d].sel}
          /\ calls[d].project = None /\ calls[d].sel # None => calls[d].sel \in closed
          /\ calls[d].project # None =>
               calls[d].project \in (raced \cap closed)
                    \cup (clients \cap registry \cap openProjects)
          /\ calls[d].op = "open" => (calls[d].id \in closed => calls[d].id \in raced)
          /\ calls[d].phase # "sent" => calls[d].id \in openProjects \cup closed
      BY <2>1, <1>1 DEF Window!CallsFit
    <2>3. calls'[d].phase = "refreshing" =>
             \/ registryFetch = Window!Sent
             \/ \E S \in SUBSET Projects : registryFetch = Window!Answer(S)
                  /\ calls[d].id \in S \cup closed
      BY <2>1, <1>1 DEF Window!CallsFit
    <2>4. calls'[d].phase = "refreshed" => calls[d].id \in registry \cup closed
      BY <2>1, <1>1 DEF Window!CallsFit
    <2>5. calls'[d].phase = calls[d].phase \/ (calls'[d].op # "open"
         /\ calls'[d].phase = "answered" /\ calls'[d].id = p)
      BY <1>2
    <2> QED BY <1>1, <1>2, <2>1, <2>2, <2>3, <2>4, <2>5
  <1>8. Window!KeptListed'
    BY <1>1, <1>2 DEF Window!KeptListed, Window!Kept
  <1>9. Window!Isolated' /\ Window!StateKept'
    BY <1>1, <1>2 DEF Window!Isolated, Window!StateKept
  <1> QED BY <1>3, <1>4, <1>5, <1>6, <1>7, <1>8, <1>9, WindowParts

(* Operations whose project, window and place in the registry stand.        *)
LEMMA CallsStand ==
    ASSUME Window!CallsFit,
           openProjects \cup closed \subseteq openProjects' \cup closed',
                closed \subseteq closed', raced \subseteq raced',
           clients \cap registry \cap openProjects \subseteq clients' \cap registry' \cap openProjects',
           (registry \cup closed) \subseteq registry' \cup closed',
           \A p \in Projects : p \in closed' /\ p \notin closed => p \in raced',
           registryFetch' = Window!Sent \/ registryFetch' = registryFetch,
           \A d \in Window!Dialogs : Window!Pending(d)' => Window!Pending(d)
                /\ calls'[d] = calls[d] /\ calls[d].id \in Projects
    PROVE  Window!CallsFit'
  <1> SUFFICES ASSUME NEW d \in Window!Dialogs, Window!Pending(d)'
               PROVE  /\ calls[d].project \in {None, calls[d].sel}
                      /\ calls[d].project = None /\ calls[d].sel # None => calls[d].sel \in closed'
                      /\ calls[d].project # None =>
                           calls[d].project \in (raced' \cap closed')
                                \cup (clients' \cap registry' \cap openProjects')
                      /\ calls[d].op = "open" => (calls[d].id \in closed' => calls[d].id \in raced')
                      /\ calls[d].phase # "sent" => calls[d].id \in openProjects' \cup closed'
                      /\ calls[d].phase = "refreshing" =>
                           \/ registryFetch' = Window!Sent
                           \/ \E S \in SUBSET Projects : registryFetch' = Window!Answer(S)
                                /\ calls[d].id \in S \cup closed'
                      /\ calls[d].phase = "refreshed" => calls[d].id \in registry' \cup closed'
    BY DEF Window!CallsFit
  <1>1. Window!Pending(d) /\ calls'[d] = calls[d] /\ calls[d].id \in Projects
    OBVIOUS
  <1>2. calls[d].phase = "refreshing" =>
             \/ registryFetch' = Window!Sent
             \/ \E S \in SUBSET Projects : registryFetch' = Window!Answer(S)
                  /\ calls[d].id \in S \cup closed'
    BY <1>1 DEF Window!CallsFit
  <1> QED BY <1>1, <1>2 DEF Window!CallsFit

(* The registry query: asked again, answered by the server.                 *)
LEMMA WindowAsks ==
    ASSUME Window!ProjectsAssumption, Window!ServerWindowInv,
           UNCHANGED <<openProjects, closed, registry, listed, selected, clients, windowStates,
                stores, Window!history>>,
           announced' \in BOOLEAN,
           \/ registryFetch' = Window!Sent
           \/ registryFetch = Window!Sent /\ registryFetch' = Window!Answer(openProjects)
                /\ announced' = announced,
           calls' \in [Window!Dialogs -> Window!Call \cup {Window!NoCall}],
           \A d \in Window!Dialogs : Window!Pending(d)' =>
             /\ Window!Pending(d)
             /\ calls'[d].op = calls[d].op /\ calls'[d].id = calls[d].id
             /\ calls'[d].sel = calls[d].sel /\ calls'[d].project = calls[d].project
             /\ \/ calls'[d].phase = calls[d].phase
                \/ /\ registryFetch' = Window!Sent /\ calls[d].op = "open"
                     /\ calls[d].phase = "answered"
                   /\ calls'[d].phase = "refreshing"
    PROVE  Window!ServerWindowInv'
  <1>1. /\ Window!TypeOK /\ Window!AnswersFit /\ Window!ClosingTold /\ Window!SelectedFits
             /\ Window!CallsFit /\ Window!KeptListed /\ Window!Isolated
        /\ Window!StateKept
        /\ UNCHANGED <<openProjects, closed, registry, listed, selected, clients, windowStates,
             stores,
                       touched, raced, overtaken>>
    BY DEF Window!ServerWindowInv, Window!history
  <1>2. openProjects \subseteq Projects /\ registry \subseteq openProjects \cup closed
       /\ openProjects \cap closed = {}
    BY <1>1 DEF Window!TypeOK
  <1>3. \A S \in SUBSET Projects : registryFetch' = Window!Answer(S)
       => registryFetch = Window!Sent /\ S = openProjects /\ announced' = announced
    BY <1>2, AnswersDiffer
  <1>4. Window!TypeOK'
    <2>1. registryFetch' \in {Window!Idle, Window!Sent}
         \cup {Window!Answer(S) : S \in SUBSET Projects}
      BY <1>2
    <2> QED BY <2>1, <1>1 DEF Window!TypeOK
  <1>5. Window!AnswersFit'
    BY <1>1, <1>2, <1>3 DEF Window!AnswersFit
  <1>6. Window!ClosingTold'
    BY <1>1, <1>2 DEF Window!ClosingTold
  <1>7. Window!SelectedFits'
    BY <1>1, <1>2, <1>3 DEF Window!SelectedFits
  <1>8. Window!CallsFit'
    <2> SUFFICES ASSUME NEW d \in Window!Dialogs, Window!Pending(d)'
                 PROVE  /\ calls'[d].project \in {None, calls'[d].sel}
                        /\ calls'[d].project = None /\ calls'[d].sel # None
                             => calls'[d].sel \in closed'
                        /\ calls'[d].project # None =>
                             calls'[d].project \in (raced' \cap closed')
                                  \cup (clients' \cap registry' \cap openProjects')
                        /\ calls'[d].op = "open" => (calls'[d].id \in closed'
                             => calls'[d].id \in raced')
                        /\ calls'[d].phase # "sent" => calls'[d].id \in openProjects' \cup closed'
                        /\ calls'[d].phase = "refreshing" =>
                             \/ registryFetch' = Window!Sent
                             \/ \E S \in SUBSET Projects : registryFetch' = Window!Answer(S)
                                  /\ calls'[d].id \in S \cup closed'
                        /\ calls'[d].phase = "refreshed" => calls'[d].id \in registry' \cup closed'
      BY DEF Window!CallsFit
    <2>1. /\ Window!Pending(d)
          /\ calls'[d].op = calls[d].op /\ calls'[d].id = calls[d].id
          /\ calls'[d].sel = calls[d].sel /\ calls'[d].project = calls[d].project
          /\ \/ calls'[d].phase = calls[d].phase
             \/ /\ registryFetch' = Window!Sent /\ calls[d].op = "open"
                  /\ calls[d].phase = "answered"
                /\ calls'[d].phase = "refreshing"
      OBVIOUS
    <2>2. /\ calls[d].project \in {None, calls[d].sel}
          /\ calls[d].project = None /\ calls[d].sel # None => calls[d].sel \in closed
          /\ calls[d].project # None =>
               calls[d].project \in (raced \cap closed)
                    \cup (clients \cap registry \cap openProjects)
          /\ calls[d].op = "open" => (calls[d].id \in closed => calls[d].id \in raced)
          /\ calls[d].phase # "sent" => calls[d].id \in openProjects \cup closed
          /\ calls[d].phase = "refreshed" => calls[d].id \in registry \cup closed
      BY <2>1, <1>1 DEF Window!CallsFit
    <2>3. ASSUME calls'[d].phase = "refreshing"
          PROVE  \/ registryFetch' = Window!Sent
                 \/ \E S \in SUBSET Projects : registryFetch' = Window!Answer(S)
                      /\ calls[d].id \in S \cup closed
      <3>1. CASE registryFetch' = Window!Sent
        BY <3>1
      <3>2. CASE registryFetch' # Window!Sent
        <4>1. calls[d].phase # "sent"
          BY <2>1, <2>3, <3>2, <1>1 DEF Window!CallsFit
        <4>2. calls[d].id \in openProjects \cup closed
             /\ registryFetch' = Window!Answer(openProjects)
          BY <4>1, <2>2, <3>2
        <4> QED BY <4>2, <1>2
      <3> QED BY <3>1, <3>2
    <2> QED BY <1>1, <2>1, <2>2, <2>3
  <1>9. Window!KeptListed'
    BY <1>1 DEF Window!KeptListed, Window!Kept
  <1>10. Window!Isolated' /\ Window!StateKept'
    BY <1>1 DEF Window!Isolated, Window!StateKept
  <1> QED BY <1>4, <1>5, <1>6, <1>7, <1>8, <1>9, <1>10, WindowParts

(* An operation goes on to its next phase, or ends.                         *)
LEMMA CallAdvanced ==
    ASSUME Window!TypeOK, NEW d \in Window!Dialogs, Window!Pending(d),
           NEW ph \in {"sent", "answered", "refreshing", "refreshed"},
           calls' = [calls EXCEPT ![d].phase = ph]
    PROVE  /\ calls' \in [Window!Dialogs -> Window!Call \cup {Window!NoCall}]
           /\ \A e \in Window!Dialogs : Window!Pending(e)' => Window!Pending(e)
           /\ calls'[d].op = calls[d].op /\ calls'[d].id = calls[d].id
           /\ calls'[d].sel = calls[d].sel /\ calls'[d].project = calls[d].project
           /\ calls'[d].phase = ph
           /\ \A e \in Window!Dialogs : e # d => calls'[e] = calls[e]
  <1>1. calls \in [Window!Dialogs -> Window!Call \cup {Window!NoCall}] /\ calls[d] \in Window!Call
    BY CallsTyped DEF Window!TypeOK
  <1>2. /\ calls' = [e \in Window!Dialogs |-> IF e = d THEN [calls[d] EXCEPT !.phase = ph]
             ELSE calls[e]]
        /\ [calls[d] EXCEPT !.phase = ph] \in Window!Call
    BY <1>1 DEF Window!Call
  <1>3. calls'[d] = [calls[d] EXCEPT !.phase = ph] /\ \A e \in Window!Dialogs : e # d
       => calls'[e] = calls[e]
    BY <1>2
  <1>4. calls' \in [Window!Dialogs -> Window!Call \cup {Window!NoCall}]
    BY <1>1, <1>2
  <1>5. \A e \in Window!Dialogs : Window!Pending(e)' => Window!Pending(e)
    BY <1>3 DEF Window!Pending
  <1>6. /\ calls'[d].op = calls[d].op /\ calls'[d].id = calls[d].id
        /\ calls'[d].sel = calls[d].sel /\ calls'[d].project = calls[d].project
        /\ calls'[d].phase = ph
    BY <1>1, <1>3 DEF Window!Call
  <1> QED BY <1>3, <1>4, <1>5, <1>6

LEMMA CallEnded ==
    ASSUME Window!TypeOK, NEW d \in Window!Dialogs, calls' = [calls EXCEPT ![d] = Window!NoCall]
    PROVE  /\ calls' \in [Window!Dialogs -> Window!Call \cup {Window!NoCall}]
           /\ \A e \in Window!Dialogs : Window!Pending(e)' => Window!Pending(e)
                /\ calls'[e] = calls[e] /\ calls[e].id \in Projects
  <1>1. calls \in [Window!Dialogs -> Window!Call \cup {Window!NoCall}]
    BY DEF Window!TypeOK
  <1>2. calls' \in [Window!Dialogs -> Window!Call \cup {Window!NoCall}]
    BY <1>1
  <1>3. ASSUME NEW e \in Window!Dialogs, Window!Pending(e)'
        PROVE  Window!Pending(e) /\ calls'[e] = calls[e] /\ calls[e].id \in Projects
    <2>1. Window!Pending(e) /\ calls'[e] = calls[e]
      BY <1>1, <1>3 DEF Window!Pending
    <2> QED BY <2>1, CallsTyped
  <1> QED BY <1>2, <1>3

(* The list of the registry arrives: what it lists no more is released.     *)
LEMMA WindowListed ==
    ASSUME Window!ProjectsAssumption, Window!ServerWindowInv, NEW S \in SUBSET Projects,
         Window!Registry(S)
    PROVE  Window!ServerWindowInv'
  <1> DEFINE gone == (clients \cap listed) \ S
  <1>1. /\ Window!TypeOK /\ Window!AnswersFit /\ Window!ClosingTold /\ Window!SelectedFits
             /\ Window!CallsFit /\ Window!KeptListed /\ Window!Isolated
        /\ Window!StateKept
    BY DEF Window!ServerWindowInv
  <1>2. /\ registryFetch = Window!Answer(S) /\ registryFetch' = Window!Idle /\ registry' = S
             /\ listed' = S
        /\ clients' = clients \ gone
        /\ windowStates' = [p \in Projects |-> IF p \in gone THEN None ELSE windowStates[p]]
        /\ calls' = [d \in Window!Dialogs |->
             IF Window!Pending(d) /\ calls[d].phase = "refreshing"
                  THEN [calls[d] EXCEPT !.phase = "refreshed"]
                                                                   ELSE calls[d]]
        /\ UNCHANGED <<openProjects, closed, announced, selected, stores, touched, raced,
             overtaken>>
    BY DEF Window!Registry, Window!release, Window!server, Window!history
  <1>3. gone = (clients \cap registry) \ S /\ registry \subseteq openProjects \cup closed
    BY <1>1 DEF Window!TypeOK
  <1> HIDE DEF gone
  <1>4. S \subseteq openProjects \cup closed /\ registry \cap openProjects \subseteq S
       /\ (S \cap closed # {} => announced)
    BY <1>1, <1>2 DEF Window!AnswersFit
  <1>5. \A T \in SUBSET Projects : registryFetch = Window!Answer(T) => T = S
    BY <1>2, AnswersDiffer
  <1>6. registryFetch' # Window!Sent /\ \A T \in SUBSET Projects : registryFetch' # Window!Answer(T)
    BY <1>2, AnswersDiffer
  <1>7. windowStates \in [Projects -> Projects \cup {None}]
    BY <1>1 DEF Window!TypeOK
  <1>8. /\ windowStates' \in [Projects -> Projects \cup {None}]
        /\ \A p \in Projects : windowStates'[p] = IF p \in gone THEN None ELSE windowStates[p]
    BY <1>2, <1>7
  <1>9. ASSUME NEW d \in Window!Dialogs
        PROVE  /\ calls'[d] \in Window!Call \cup {Window!NoCall}
               /\ Window!Pending(d)' =>
                    /\ Window!Pending(d)
                    /\ calls'[d].op = calls[d].op /\ calls'[d].id = calls[d].id
                    /\ calls'[d].sel = calls[d].sel /\ calls'[d].project = calls[d].project
                    /\ \/ calls'[d].phase = calls[d].phase /\ calls[d].phase # "refreshing"
                       \/ calls'[d].phase = "refreshed" /\ calls[d].phase = "refreshing"
    <2>1. CASE Window!Pending(d) /\ calls[d].phase = "refreshing"
      <3>1. calls'[d] = [calls[d] EXCEPT !.phase = "refreshed"] /\ calls[d] \in Window!Call
        BY <2>1, <1>1, <1>2, CallsTyped
      <3> QED BY <3>1, <2>1 DEF Window!Call
    <2>2. CASE ~(Window!Pending(d) /\ calls[d].phase = "refreshing")
      <3>1. calls'[d] = calls[d]
        BY <2>2, <1>2
      <3>2. calls[d] \in Window!Call \cup {Window!NoCall}
        BY <1>1 DEF Window!TypeOK
      <3> QED BY <3>1, <3>2, <2>2 DEF Window!Pending
    <2> QED BY <2>1, <2>2
  <1>10. Window!TypeOK'
    <2>1. calls' \in [Window!Dialogs -> Window!Call \cup {Window!NoCall}]
      <3>1. \A d \in Window!Dialogs : calls'[d] \in Window!Call \cup {Window!NoCall}
        BY <1>9
      <3>2. calls' = [d \in Window!Dialogs |-> calls'[d]]
        BY <1>2
      <3> QED BY <3>1, <3>2
    <2>2. registryFetch' \in {Window!Idle, Window!Sent}
         \cup {Window!Answer(T) : T \in SUBSET Projects}
      BY <1>2
    <2> QED BY <2>1, <2>2, <1>1, <1>2, <1>4, <1>8 DEF Window!TypeOK
  <1>11. Window!AnswersFit'
    BY <1>6 DEF Window!AnswersFit
  <1>12. Window!ClosingTold'
    BY <1>2, <1>4 DEF Window!ClosingTold
  <1>13. Window!SelectedFits'
    <2> SUFFICES ASSUME selected # None
                 PROVE  /\ selected \in S \cup closed
                        /\ selected \in clients' \/ selected \notin S
      BY <1>2, <1>6 DEF Window!SelectedFits
    <2>1. /\ selected \in registry \cup closed
          /\ \/ selected \in clients
             \/ selected \notin registry /\ selected \notin S
      BY <1>1, <1>2 DEF Window!SelectedFits
    <2> QED BY <2>1, <1>2, <1>3, <1>4
  <1>14. Window!CallsFit'
    <2> SUFFICES ASSUME NEW d \in Window!Dialogs, Window!Pending(d)'
                 PROVE  /\ calls'[d].project \in {None, calls'[d].sel}
                        /\ calls'[d].project = None /\ calls'[d].sel # None
                             => calls'[d].sel \in closed'
                        /\ calls'[d].project # None =>
                             calls'[d].project \in (raced' \cap closed')
                                  \cup (clients' \cap registry' \cap openProjects')
                        /\ calls'[d].op = "open" => (calls'[d].id \in closed'
                             => calls'[d].id \in raced')
                        /\ calls'[d].phase # "sent" => calls'[d].id \in openProjects' \cup closed'
                        /\ calls'[d].phase # "refreshing"
                        /\ calls'[d].phase = "refreshed" => calls'[d].id \in registry' \cup closed'
      BY DEF Window!CallsFit
    <2>1. /\ Window!Pending(d)
          /\ calls'[d].op = calls[d].op /\ calls'[d].id = calls[d].id
          /\ calls'[d].sel = calls[d].sel /\ calls'[d].project = calls[d].project
          /\ \/ calls'[d].phase = calls[d].phase /\ calls[d].phase # "refreshing"
             \/ calls'[d].phase = "refreshed" /\ calls[d].phase = "refreshing"
      BY <1>9
    <2>2. /\ calls[d].project \in {None, calls[d].sel}
          /\ calls[d].project = None /\ calls[d].sel # None => calls[d].sel \in closed
          /\ calls[d].project # None =>
               calls[d].project \in (raced \cap closed)
                    \cup (clients \cap registry \cap openProjects)
          /\ calls[d].op = "open" => (calls[d].id \in closed => calls[d].id \in raced)
          /\ calls[d].phase # "sent" => calls[d].id \in openProjects \cup closed
          /\ calls[d].phase = "refreshed" => calls[d].id \in registry \cup closed
      BY <2>1, <1>1 DEF Window!CallsFit
    <2>3. calls[d].phase = "refreshing" => calls[d].id \in S \cup closed
      <3>1. registryFetch # Window!Sent
        BY <1>2, AnswersDiffer
      <3> QED BY <3>1, <2>1, <1>1, <1>5 DEF Window!CallsFit
    <2>4. clients \cap registry \cap openProjects \subseteq clients' \cap registry' \cap openProjects'
      BY <1>2, <1>3, <1>4
    <2>5. calls'[d].phase = "refreshed" => calls'[d].id \in registry' \cup closed'
      BY <2>1, <2>2, <2>3, <1>2, <1>3, <1>4
    <2> QED BY <2>1, <2>2, <2>4, <2>5, <1>2
  <1>15. Window!KeptListed'
    <2>1. ASSUME NEW p \in Projects,
         Window!Kept(p)' PROVE p \in raced' \/ p \in clients' \cap registry'
      <3>1. Window!Kept(p) /\ p \notin gone
        BY <2>1, <1>2, <1>8 DEF Window!Kept
      <3>2. p \in raced \/ p \in clients \cap registry
        BY <3>1, <1>1 DEF Window!KeptListed
      <3> QED BY <3>1, <3>2, <1>2, <1>3
    <2> QED BY <2>1, <1>1, <1>2, <1>4 DEF Window!KeptListed
  <1>16. Window!Isolated'
    BY <1>1, <1>2, <1>8 DEF Window!Isolated
  <1>17. Window!StateKept'
    <2> SUFFICES ASSUME ~overtaken, NEW p \in touched \cap openProjects
                 PROVE  IF selected = p THEN stores = p ELSE windowStates'[p] = p
      BY <1>2 DEF Window!StateKept
    <2>1. p \in Projects /\ p \notin gone
      BY <1>1, <1>3, <1>4 DEF Window!KeptListed, Window!TypeOK
    <2> QED BY <2>1, <1>1, <1>8 DEF Window!StateKept
  <1> QED BY <1>10, <1>11, <1>12, <1>13, <1>14, <1>15, <1>16, <1>17, WindowParts

(* Opening, closing, asking and choosing, here and in other windows, in any *)
(* order: the parts stay in step.                                           *)
LEMMA WindowStep ==
    ASSUME Window!ProjectsAssumption, Window!ServerWindowInv, [Window!Next]_(Window!vars)
    PROVE  Window!ServerWindowInv'
  <1>a. /\ Window!TypeOK /\ Window!AnswersFit /\ Window!ClosingTold /\ Window!SelectedFits
             /\ Window!CallsFit /\ Window!KeptListed /\ Window!Isolated
        /\ Window!StateKept
    BY DEF Window!ServerWindowInv
  <1>b. /\ registry \subseteq openProjects \cup closed /\ openProjects \cap closed = {}
             /\ listed = registry
        /\ openProjects \subseteq Projects /\ closed \subseteq Projects
             /\ clients \subseteq Projects
        /\ calls \in [Window!Dialogs -> Window!Call \cup {Window!NoCall}] /\ announced \in BOOLEAN
        /\ selected \in Projects \cup {None} /\ None \notin Projects
    BY <1>a DEF Window!TypeOK, Window!ProjectsAssumption
  <1>c. \A d \in Window!Dialogs : Window!Pending(d) => calls[d].id \in Projects
    BY <1>a, CallsTyped
  \* What a render sees of the project it offers a dialog of.
  <1>d. ASSUME NEW d \in Window!Dialogs, Window!Offered(d)
        PROVE  /\ Window!project \in {None, selected} /\ ~Window!Pending(d) /\ Window!project = d
               /\ Window!project # None => Window!project \in clients \cap registry
               /\ Window!project = None /\ selected # None => selected \in closed
    <2>1. d = Window!project /\ (d = None \/ Window!Mounted = d) /\ ~Window!Pending(d)
      BY <1>d DEF Window!Offered
    <2>2. Window!project # None => selected = Window!project
         /\ Window!project \in clients \cap registry
      BY <2>1, <1>b DEF Window!Mounted, Window!project
    <2>3. Window!project = None /\ selected # None => selected \in closed
      BY <1>a, <1>b DEF Window!project, Window!SelectedFits
    <2> QED BY <2>1, <2>2, <2>3
  <1>1. ASSUME NEW p \in Projects, Window!OpenElsewhere(p) PROVE Window!ServerWindowInv'
    <2>1. /\ p \notin openProjects \cup closed /\ openProjects' = openProjects \cup {p}
               /\ announced' = TRUE
          /\ UNCHANGED <<closed, Window!query, selected, clients, windowStates, stores, calls,
               Window!history>>
          /\ UNCHANGED <<registryFetch, registry, raced>>
      BY <1>1 DEF Window!OpenElsewhere, Window!query, Window!history
    <2>2. Window!CallsFit'
      BY <2>1, <1>a, <1>c, CallsStand DEF Window!Pending
    <2>3. announced' = (announced \/ p \notin openProjects)
      BY <2>1, <1>b
    <2> QED BY <2>1, <2>2, <2>3, <1>b, WindowOpens
  <1>2. ASSUME NEW p \in Projects, Window!CloseElsewhere(p) PROVE Window!ServerWindowInv'
    <2>1. /\ Window!ServerClose(p)
          /\ UNCHANGED <<Window!query, selected, clients, windowStates, stores, calls, touched,
               overtaken>>
      BY <1>2 DEF Window!CloseElsewhere
    <2> QED BY <2>1, <1>b, WindowCloses DEF Window!Pending
  <1>3. ASSUME NEW d \in Window!Dialogs, Window!Open(d) PROVE Window!ServerWindowInv'
    <2> DEFINE p == calls[d].id
    <2>1. /\ Window!Pending(d) /\ calls[d].op = "open" /\ p \notin closed /\ p \in Projects
          /\ openProjects' = openProjects \cup {p}
               /\ announced' = (announced \/ p \notin openProjects)
          /\ calls' = [calls EXCEPT ![d].phase = "answered"]
          /\ UNCHANGED <<closed, Window!query, selected, clients, windowStates, stores,
               Window!history>>
      BY <1>3, <1>c DEF Window!Open
    <2>2. UNCHANGED <<registryFetch, registry, clients, raced>>
      BY <2>1 DEF Window!query, Window!history
    <2>3. /\ calls' \in [Window!Dialogs -> Window!Call \cup {Window!NoCall}]
          /\ \A e \in Window!Dialogs : Window!Pending(e)' => Window!Pending(e)
          /\ calls'[d].op = calls[d].op /\ calls'[d].id = calls[d].id
          /\ calls'[d].sel = calls[d].sel /\ calls'[d].project = calls[d].project
          /\ calls'[d].phase = "answered"
          /\ \A e \in Window!Dialogs : e # d => calls'[e] = calls[e]
      BY <2>1, <1>a, CallAdvanced
    <2> HIDE DEF p
    <2>4. Window!CallsFit'
      <3>1. ASSUME NEW e \in Window!Dialogs, Window!Pending(e)'
            PROVE  /\ calls'[e].project \in {None, calls'[e].sel}
                   /\ calls'[e].project = None /\ calls'[e].sel # None => calls'[e].sel \in closed'
                   /\ calls'[e].project # None =>
                        calls'[e].project \in (raced' \cap closed')
                             \cup (clients' \cap registry' \cap openProjects')
                   /\ calls'[e].op = "open" => (calls'[e].id \in closed' => calls'[e].id \in raced')
                   /\ calls'[e].phase # "sent" => calls'[e].id \in openProjects' \cup closed'
                   /\ calls'[e].phase = "refreshing" =>
                        \/ registryFetch' = Window!Sent
                        \/ \E S \in SUBSET Projects : registryFetch' = Window!Answer(S)
                             /\ calls'[e].id \in S \cup closed'
                   /\ calls'[e].phase = "refreshed" => calls'[e].id \in registry' \cup closed'
        <4>1. Window!Pending(e)
          BY <2>3, <3>1
        <4>2. CASE e # d
          <5>1. calls'[e] = calls[e]
            BY <2>3, <4>2
          <5> QED BY <5>1, <4>1, <2>1, <2>2, <1>a DEF Window!CallsFit
        <4>3. CASE e = d
          <5>1. calls'[e].id \in openProjects'
            BY <4>3, <2>1, <2>3 DEF p
          <5> QED BY <5>1, <4>1, <4>3, <2>1, <2>2, <2>3, <1>a DEF Window!CallsFit
        <4> QED BY <4>2, <4>3
      <3> QED BY <3>1 DEF Window!CallsFit
    <2> QED BY <2>1, <2>3, <2>4, WindowOpens
  <1>4. ASSUME NEW d \in Window!Dialogs, Window!Close(d) PROVE Window!ServerWindowInv'
    <2> DEFINE p == calls[d].id
    <2>1. /\ Window!Pending(d) /\ calls[d].op = "close" /\ p \in Projects /\ Window!ServerClose(p)
          /\ calls' = [calls EXCEPT ![d].phase = "answered"]
          /\ UNCHANGED <<Window!query, selected, clients, windowStates, stores, touched, overtaken>>
      BY <1>4, <1>c DEF Window!Close
    <2>2. /\ calls' \in [Window!Dialogs -> Window!Call \cup {Window!NoCall}]
          /\ \A e \in Window!Dialogs : Window!Pending(e)' => Window!Pending(e)
          /\ calls'[d].op = calls[d].op /\ calls'[d].id = calls[d].id
          /\ calls'[d].sel = calls[d].sel /\ calls'[d].project = calls[d].project
          /\ calls'[d].phase = "answered"
          /\ \A e \in Window!Dialogs : e # d => calls'[e] = calls[e]
      BY <2>1, <1>a, CallAdvanced
    <2>3. \A e \in Window!Dialogs : Window!Pending(e)' =>
             /\ Window!Pending(e)
             /\ calls'[e].op = calls[e].op /\ calls'[e].id = calls[e].id
             /\ calls'[e].sel = calls[e].sel /\ calls'[e].project = calls[e].project
             /\ \/ calls'[e].phase = calls[e].phase
                \/ calls'[e].op # "open" /\ calls'[e].phase = "answered" /\ calls'[e].id = p
      BY <2>1, <2>2
    <2> QED BY <2>1, <2>2, <2>3, WindowCloses
  <1>5. ASSUME NEW d \in Window!Dialogs, Window!Refused(d) PROVE Window!ServerWindowInv'
    <2>1. /\ calls' = [calls EXCEPT ![d] = Window!NoCall]
          /\ UNCHANGED <<openProjects, closed, announced, registryFetch, registry, listed,
               selected, clients,
                         windowStates, stores, touched, raced, overtaken>>
      BY <1>5 DEF Window!Refused, Window!server, Window!query, Window!history
    <2>2. calls' \in [Window!Dialogs -> Window!Call \cup {Window!NoCall}] /\ Window!CallsFit'
      BY <2>1, <1>a, CallEnded, CallsStand
    <2>3. Window!TypeOK'
      BY <2>1, <2>2, <1>a DEF Window!TypeOK
    <2>4. Window!AnswersFit' /\ Window!ClosingTold' /\ Window!SelectedFits'
      BY <2>1, <1>a DEF Window!AnswersFit, Window!ClosingTold, Window!SelectedFits
    <2>5. Window!KeptListed' /\ Window!Isolated' /\ Window!StateKept'
      BY <2>1, <1>a DEF Window!KeptListed, Window!Kept, Window!Isolated, Window!StateKept
    <2> QED BY <2>2, <2>3, <2>4, <2>5, WindowParts
  <1>6. CASE Window!ReadRegistry
    <2>1. /\ registryFetch = Window!Sent /\ registryFetch' = Window!Answer(openProjects)
          /\ UNCHANGED <<Window!server, registry, listed, selected, clients, windowStates, stores,
               calls, Window!history>>
          /\ UNCHANGED <<openProjects, closed, announced>>
      BY <1>6 DEF Window!ReadRegistry, Window!server
    <2> QED BY <2>1, <1>b, WindowAsks DEF Window!Pending
  <1>7. CASE Window!Invalidate
    <2>1. /\ announced' = FALSE /\ registryFetch' = Window!Sent
          /\ UNCHANGED <<openProjects, closed, registry, listed, selected, clients, windowStates,
               stores, calls, Window!history>>
      BY <1>7 DEF Window!Invalidate
    <2> QED BY <2>1, <1>b, WindowAsks DEF Window!Pending
  <1>8. ASSUME NEW S \in SUBSET Projects, Window!Registry(S) PROVE Window!ServerWindowInv'
    BY <1>8, WindowListed
  <1>9. ASSUME NEW d \in Window!Dialogs, NEW p \in Projects, Window!onSelectProject(d,
       p) PROVE Window!ServerWindowInv'
    <2>1. /\ Window!Offered(d) /\ p \in registry /\ Window!select(p, selected, Window!project)
          /\ UNCHANGED <<openProjects, closed, announced, registryFetch, registry, listed, calls,
               touched, raced>>
      BY <1>9 DEF Window!onSelectProject, Window!server, Window!query
    <2>2. /\ Window!project \in {None, selected}
          /\ Window!project # None => Window!project \in clients \cap registry
          /\ Window!project = None /\ selected # None => selected \in closed
      BY <2>1, <1>d
    <2>3. CASE p = selected
      <3>1. UNCHANGED Window!vars
        BY <2>1, <2>3 DEF Window!select, Window!vars, Window!server, Window!query, Window!history
      <3>2. Window!TypeOK' /\ Window!AnswersFit' /\ Window!ClosingTold' /\ Window!SelectedFits'
           /\ Window!CallsFit'
        BY <3>1, <1>a DEF Window!vars, Window!server, Window!query, Window!history, Window!TypeOK,
             Window!AnswersFit, Window!ClosingTold, Window!SelectedFits, Window!CallsFit,
             Window!Pending
      <3>3. Window!KeptListed' /\ Window!Isolated' /\ Window!StateKept'
        BY <3>1, <1>a DEF Window!vars, Window!server, Window!query, Window!history,
             Window!KeptListed, Window!Kept, Window!Isolated, Window!StateKept
      <3> QED BY <3>2, <3>3, WindowParts
    <2>4. CASE p # selected
      <3>1. /\ selected' = p /\ clients' = clients \cup ({p} \ {None})
                 /\ clients' \subseteq Projects
            /\ windowStates' \in [Projects -> Projects \cup {None}] /\ stores' \in Projects
                 \cup {None}
            /\ overtaken' \in BOOLEAN
            /\ Window!KeptListed' /\ Window!Isolated' /\ Window!StateKept'
        <4>1. UNCHANGED <<Window!server, registry, listed, touched, raced>>
          BY <2>1 DEF Window!server
        <4>2. /\ p \in Projects \cup {None} /\ selected \in Projects \cup {None}
              /\ p \in registry \cup (closed \cap raced)
          BY <2>1, <1>b
        <4> QED BY <4>1, <4>2, <2>1, <2>2, <2>4, <1>a, WindowSwitched
      <3>2. Window!TypeOK'
        BY <3>1, <2>1, <1>a, <1>b DEF Window!TypeOK
      <3>3. Window!AnswersFit' /\ Window!ClosingTold'
        BY <2>1, <1>a DEF Window!AnswersFit, Window!ClosingTold
      <3>4. Window!SelectedFits'
        BY <3>1, <2>1, <1>b DEF Window!SelectedFits
      <3>5. Window!CallsFit'
        BY <3>1, <2>1, <1>a, <1>b, <1>c, CallsStand DEF Window!Pending
      <3> QED BY <3>1, <3>2, <3>3, <3>4, <3>5, WindowParts
    <2> QED BY <2>3, <2>4
  <1>10. ASSUME NEW d \in Window!Dialogs, NEW op \in {"open", "close"}, NEW p \in Projects,
       Window!Start(d, op, p)
         PROVE  Window!ServerWindowInv'
    <2>1. /\ Window!Offered(d) /\ (op = "open" => p \notin closed)
          /\ calls' = [calls EXCEPT ![d] =
               [op |-> op, id |-> p, phase |-> "sent", sel |-> selected,
                    project |-> Window!project]]
          /\ raced' = raced \cup (closed \cap (listed \cup clients))
          /\ UNCHANGED <<openProjects, closed, announced, registryFetch, registry, listed,
               selected, clients,
                         windowStates, stores, touched, overtaken>>
      BY <1>10 DEF Window!Start, Window!server, Window!query
    <2>2. /\ Window!project \in {None, selected}
          /\ Window!project # None => Window!project \in clients \cap registry
          /\ Window!project = None /\ selected # None => selected \in closed
      BY <2>1, <1>d
    <2>3. /\ calls'[d].op = op /\ calls'[d].id = p /\ calls'[d].phase = "sent"
          /\ calls'[d].sel = selected /\ calls'[d].project = Window!project
               /\ calls'[d] \in Window!Call
          /\ \A e \in Window!Dialogs : e # d => calls'[e] = calls[e]
          /\ calls' \in [Window!Dialogs -> Window!Call \cup {Window!NoCall}]
      <3> DEFINE c == [op |-> op, id |-> p, phase |-> "sent", sel |-> selected,
           project |-> Window!project]
      <3>1. c \in Window!Call /\ c.op = op /\ c.id = p /\ c.phase = "sent" /\ c.sel = selected
           /\ c.project = Window!project
        BY <2>2, <1>b DEF Window!Call
      <3>2. calls' = [calls EXCEPT ![d] = c]
        BY <2>1
      <3> HIDE DEF c
      <3>3. calls'[d] = c /\ \A e \in Window!Dialogs : e # d => calls'[e] = calls[e]
        BY <3>2, <1>b
      <3>4. calls' \in [Window!Dialogs -> Window!Call \cup {Window!NoCall}]
        BY <3>1, <3>2, <1>b
      <3> QED BY <3>1, <3>3, <3>4
    <2>4. raced' \subseteq Projects /\ raced \subseteq raced' /\ closed \cap (registry
         \cup clients) \subseteq raced'
      BY <2>1, <1>a, <1>b DEF Window!TypeOK
    <2>5. Window!TypeOK'
      BY <2>1, <2>3, <2>4, <1>a DEF Window!TypeOK
    <2>6. Window!AnswersFit' /\ Window!ClosingTold' /\ Window!SelectedFits'
      BY <2>1, <1>a DEF Window!AnswersFit, Window!ClosingTold, Window!SelectedFits
    <2>7. Window!CallsFit'
      <3>1. ASSUME NEW e \in Window!Dialogs, Window!Pending(e)'
            PROVE  /\ calls'[e].project \in {None, calls'[e].sel}
                   /\ calls'[e].project = None /\ calls'[e].sel # None => calls'[e].sel \in closed'
                   /\ calls'[e].project # None =>
                        calls'[e].project \in (raced' \cap closed')
                             \cup (clients' \cap registry' \cap openProjects')
                   /\ calls'[e].op = "open" => (calls'[e].id \in closed' => calls'[e].id \in raced')
                   /\ calls'[e].phase # "sent" => calls'[e].id \in openProjects' \cup closed'
                   /\ calls'[e].phase = "refreshing" =>
                        \/ registryFetch' = Window!Sent
                        \/ \E S \in SUBSET Projects : registryFetch' = Window!Answer(S)
                             /\ calls'[e].id \in S \cup closed'
                   /\ calls'[e].phase = "refreshed" => calls'[e].id \in registry' \cup closed'
        <4>1. CASE e # d
          <5>1. calls'[e] = calls[e] /\ Window!Pending(e)
            BY <2>3, <3>1, <4>1 DEF Window!Pending
          <5> QED BY <5>1, <2>1, <2>4, <1>a DEF Window!CallsFit
        <4>2. CASE e = d
          <5>1. Window!project # None => Window!project \in (raced' \cap closed')
               \cup (clients' \cap registry' \cap openProjects')
            BY <2>1, <2>2, <2>4, <1>b
          <5> QED BY <5>1, <4>2, <2>1, <2>2, <2>3
        <4> QED BY <4>1, <4>2
      <3> QED BY <3>1 DEF Window!CallsFit
    <2>8. Window!KeptListed' /\ Window!Isolated' /\ Window!StateKept'
      BY <2>1, <2>4, <1>a DEF Window!KeptListed, Window!Kept, Window!Isolated, Window!StateKept
    <2> QED BY <2>5, <2>6, <2>7, <2>8, WindowParts
  <1>11. ASSUME NEW d \in Window!Dialogs, Window!Refresh(d) PROVE Window!ServerWindowInv'
    <2>1. /\ Window!Pending(d) /\ calls[d].op = "open" /\ calls[d].phase = "answered"
          /\ registryFetch' = Window!Sent /\ calls' = [calls EXCEPT ![d].phase = "refreshing"]
          /\ UNCHANGED <<openProjects, closed, announced, registry, listed, selected, clients,
               windowStates, stores, Window!history>>
      BY <1>11 DEF Window!Refresh, Window!server
    <2>2. /\ calls' \in [Window!Dialogs -> Window!Call \cup {Window!NoCall}]
          /\ \A e \in Window!Dialogs : Window!Pending(e)' => Window!Pending(e)
          /\ calls'[d].op = calls[d].op /\ calls'[d].id = calls[d].id
          /\ calls'[d].sel = calls[d].sel /\ calls'[d].project = calls[d].project
          /\ calls'[d].phase = "refreshing"
          /\ \A e \in Window!Dialogs : e # d => calls'[e] = calls[e]
      BY <2>1, <1>a, CallAdvanced
    <2>3. \A e \in Window!Dialogs : Window!Pending(e)' =>
             /\ Window!Pending(e)
             /\ calls'[e].op = calls[e].op /\ calls'[e].id = calls[e].id
             /\ calls'[e].sel = calls[e].sel /\ calls'[e].project = calls[e].project
             /\ \/ calls'[e].phase = calls[e].phase
                \/ /\ registryFetch' = Window!Sent /\ calls[e].op = "open"
                     /\ calls[e].phase = "answered"
                   /\ calls'[e].phase = "refreshing"
      BY <2>1, <2>2
    <2> QED BY <2>1, <2>2, <2>3, <1>b, WindowAsks
  <1>12. ASSUME NEW d \in Window!Dialogs, Window!Finish(d) PROVE Window!ServerWindowInv'
    <2> DEFINE id == IF calls[d].op = "open" THEN calls[d].id ELSE None
    <2>1. /\ Window!Pending(d)
          /\ calls[d].phase = IF calls[d].op = "open" THEN "refreshed" ELSE "answered"
          /\ Window!select(id, calls[d].sel, calls[d].project)
          /\ calls' = [calls EXCEPT ![d] = Window!NoCall] /\ registryFetch' = Window!Sent
          /\ UNCHANGED <<openProjects, closed, announced, registry, listed, touched, raced>>
      BY <1>12 DEF Window!Finish, Window!server
    <2>2. /\ calls' \in [Window!Dialogs -> Window!Call \cup {Window!NoCall}]
          /\ \A e \in Window!Dialogs : Window!Pending(e)' => Window!Pending(e)
               /\ calls'[e] = calls[e] /\ calls[e].id \in Projects
      BY <2>1, <1>a, CallEnded
    <2>3. /\ calls[d].id \in Projects /\ calls[d].sel \in Projects \cup {None}
          /\ calls[d].project \in {None, calls[d].sel}
          /\ calls[d].project = None /\ calls[d].sel # None => calls[d].sel \in closed
          /\ calls[d].project # None =>
               calls[d].project \in (raced \cap closed)
                    \cup (clients \cap registry \cap openProjects)
          /\ calls[d].op = "open" => (calls[d].id \in closed => calls[d].id \in raced)
          /\ calls[d].phase = "refreshed" => calls[d].id \in registry \cup closed
      BY <2>1, <1>a, CallsTyped DEF Window!CallsFit
    <2>4. id \in Projects \cup {None} /\ (id # None => id \in registry \cup (closed \cap raced))
      BY <2>1, <2>3
    <2> HIDE DEF id
    <2>5. CASE id = calls[d].sel
      <3>1. UNCHANGED <<selected, clients, windowStates, stores, overtaken>>
        BY <2>1, <2>5 DEF Window!select
      <3>2. UNCHANGED Window!history
        BY <3>1, <2>1 DEF Window!history
      <3>3. \A e \in Window!Dialogs : Window!Pending(e)' =>
             /\ Window!Pending(e)
             /\ calls'[e].op = calls[e].op /\ calls'[e].id = calls[e].id
             /\ calls'[e].sel = calls[e].sel /\ calls'[e].project = calls[e].project
             /\ calls'[e].phase = calls[e].phase
        BY <2>2
      <3> QED BY <3>1, <3>2, <3>3, <2>1, <2>2, <1>b, WindowAsks
    <2>6. CASE id # calls[d].sel
      <3>1. /\ selected' = id /\ clients' = clients \cup ({id} \ {None})
                 /\ clients' \subseteq Projects
            /\ windowStates' \in [Projects -> Projects \cup {None}] /\ stores' \in Projects
                 \cup {None}
            /\ overtaken' \in BOOLEAN
            /\ Window!KeptListed' /\ Window!Isolated' /\ Window!StateKept'
        <4>1. UNCHANGED <<Window!server, registry, listed, touched, raced>>
          BY <2>1 DEF Window!server
        <4>2. calls[d].project # None
             => calls[d].project \in raced \/ calls[d].project \in clients \cap registry
          BY <2>3
        <4> QED BY <4>1, <4>2, <2>1, <2>3, <2>4, <2>6, <1>a, WindowSwitched
      <3>2. Window!TypeOK'
        <4>1. registryFetch' \in {Window!Idle, Window!Sent}
             \cup {Window!Answer(S) : S \in SUBSET Projects}
          BY <2>1
        <4>2. clients' \cup ({selected'} \ {None}) \subseteq openProjects' \cup closed'
          BY <3>1, <2>1, <2>4, <1>a, <1>b DEF Window!TypeOK
        <4> QED BY <4>1, <4>2, <3>1, <2>1, <2>2, <2>4, <1>a, <1>b DEF Window!TypeOK
      <3>3. \A S \in SUBSET Projects : registryFetch' # Window!Answer(S)
        BY <2>1, AnswersDiffer
      <3>4. Window!AnswersFit' /\ Window!ClosingTold'
        BY <2>1, <3>3 DEF Window!AnswersFit, Window!ClosingTold
      <3>5. Window!SelectedFits'
        BY <3>1, <2>1, <2>4, <1>b DEF Window!SelectedFits
      <3>6. Window!CallsFit'
        BY <3>1, <2>1, <2>2, <1>a, CallsStand
      <3> QED BY <3>1, <3>2, <3>4, <3>5, <3>6, WindowParts
    <2> QED BY <2>5, <2>6
  <1>13. CASE Window!Interact
    <2> DEFINE m == Window!Mounted
    <2>1. /\ m # None /\ stores' = m /\ touched' = touched \cup {m}
          /\ UNCHANGED <<openProjects, closed, announced, registryFetch, registry, listed,
               selected, clients,
                         windowStates, calls, raced, overtaken>>
      BY <1>13 DEF Window!Interact, Window!server, Window!query
    <2>2. m = selected /\ m \in clients \cap registry /\ m \in Projects
      BY <2>1, <1>b DEF Window!Mounted, Window!project
    <2> HIDE DEF m
    <2>3. Window!TypeOK'
      BY <2>1, <2>2, <1>a DEF Window!TypeOK
    <2>4. Window!AnswersFit' /\ Window!ClosingTold' /\ Window!SelectedFits' /\ Window!CallsFit'
      BY <2>1, <1>a DEF Window!AnswersFit, Window!ClosingTold, Window!SelectedFits,
           Window!CallsFit, Window!Pending
    <2>5. Window!KeptListed' /\ Window!Isolated'
      BY <2>1, <2>2, <1>a, <1>b DEF Window!KeptListed, Window!Kept, Window!Isolated
    <2>6. Window!StateKept'
      BY <2>1, <2>2, <1>a DEF Window!StateKept
    <2> QED BY <2>3, <2>4, <2>5, <2>6, WindowParts
  <1>14. CASE UNCHANGED Window!vars
    <2>1. Window!TypeOK' /\ Window!AnswersFit' /\ Window!ClosingTold' /\ Window!SelectedFits'
         /\ Window!CallsFit'
      BY <1>14, <1>a DEF Window!vars, Window!server, Window!query, Window!history, Window!TypeOK,
           Window!AnswersFit, Window!ClosingTold, Window!SelectedFits, Window!CallsFit,
           Window!Pending
    <2>2. Window!KeptListed' /\ Window!Isolated' /\ Window!StateKept'
      BY <1>14, <1>a DEF Window!vars, Window!server, Window!query, Window!history,
           Window!KeptListed, Window!Kept, Window!Isolated, Window!StateKept
    <2> QED BY <2>1, <2>2, WindowParts
  <1> QED
    BY <1>1, <1>2, <1>3, <1>4, <1>5, <1>6, <1>7, <1>8, <1>9, <1>10, <1>11, <1>12, <1>13, <1>14
         DEF Window!Next

(* At the start nothing is closed, pending or kept.                         *)
LEMMA WindowInit ==
    ASSUME Window!ProjectsAssumption, Window!Init
    PROVE  Window!ServerWindowInv
  <1>1. /\ openProjects = First /\ closed = {} /\ announced = FALSE
        /\ registryFetch = Window!Idle /\ registry = First /\ listed = First
        /\ selected \in First \cup {None} /\ clients = {selected} \ {None}
        /\ windowStates = [p \in Projects |-> None] /\ stores = None
        /\ calls = [d \in Window!Dialogs |-> Window!NoCall]
        /\ touched = {} /\ raced = {} /\ overtaken = FALSE
    BY DEF Window!Init
  <1>2. First \subseteq Projects /\ None \notin Projects
    BY DEF Window!ProjectsAssumption
  <1>3. Window!TypeOK
    BY <1>1, <1>2 DEF Window!TypeOK
  <1>4. registryFetch # Window!Sent /\ \A S \in SUBSET Projects : registryFetch # Window!Answer(S)
    BY <1>1, AnswersDiffer
  <1>5. Window!AnswersFit /\ Window!ClosingTold /\ Window!SelectedFits
    BY <1>1, <1>4 DEF Window!AnswersFit, Window!ClosingTold, Window!SelectedFits
  <1>6. Window!CallsFit
    BY <1>1 DEF Window!CallsFit, Window!Pending
  <1>7. Window!KeptListed
    BY <1>1, <1>2 DEF Window!KeptListed, Window!Kept
  <1>8. Window!Isolated /\ Window!StateKept /\ Window!Released
    BY <1>1, <1>2 DEF Window!Isolated, Window!StateKept, Window!Released
  <1> QED BY <1>3, <1>5, <1>6, <1>7, <1>8 DEF Window!ServerWindowInv

(* The state of one project never turns up in another, switching loses      *)
(* nothing and what is closed is released, unless an operation ended in a   *)
(* window that had moved on.                                                *)
THEOREM ProjectsStayApart == Spec => []ProjectsKeptApart
  <1>0. Window!ProjectsAssumption BY FeedsAssumption
  <1>1. ASSUME Init PROVE ProjectsKeptApart
    BY <1>0, <1>1, WindowInit DEF Init, ProjectsKeptApart
  <1>2. ASSUME ProjectsKeptApart, [Next]_vars PROVE ProjectsKeptApart'
    <2>0. part' = part BY <1>2 DEF Next, vars
    <2>1. ASSUME part = "window" PROVE Window!ServerWindowInv'
      <3>1. Window!Next \/ UNCHANGED window BY <1>2, <2>1 DEF Next, vars
      <3>2. [Window!Next]_(Window!vars)
        BY <3>1 DEF window, Window!vars, Window!server, Window!query, Window!history
      <3> QED BY <1>0, <1>2, <2>1, <3>2, WindowStep DEF ProjectsKeptApart
    <2> QED BY <2>0, <2>1 DEF ProjectsKeptApart
  <1> QED BY <1>1, <1>2, PTL DEF Spec
=============================================================================
