------------------------------ MODULE Snapshot ------------------------------
(***************************************************************************)
(* How a new consumer starts: GET outbox/snapshot/ answers with the rows   *)
(* of the requested resources and a watermark, and the consumer polls the  *)
(* feed above the watermark.  The handler reads the watermark first, then  *)
(* the response serializer runs one query per resource; nothing holds the  *)
(* rows or the feed still in between.  A handler that changes a row        *)
(* commits it, and emits its event afterwards, if it emits one at all.     *)
(*                                                                         *)
(* A row is its version: each committed write of it is one change, and the *)
(* idempotency key of an event names the change it announces.              *)
(***************************************************************************)
EXTENDS Outbox

CONSTANTS
  Rows,       \* rows of every resource
  Resource,   \* the resource each row belongs to
  Handlers,   \* server threads that change rows
  Requested,  \* sets of resources a snapshot is asked for
  MaxWrites   \* bound on the writes of one row

\* The order in which the response serializer declares, and so reads, resources.
Rank ==
  [projects |-> 1, applications |-> 2, user_profiles |-> 3, faculty_persons |-> 4,
   faculty_publications |-> 5, faculty_courses |-> 6, project_faculty_matches |-> 7]
Resources == DOMAIN Rank

\* Resources of which a snapshot shows some rows only: projects of the catalogue,
\* persons that are not stale.
Filtered == {"projects", "faculty_persons"}

\* A change is a row and the version it gets.
Changes == Rows \X (1..MaxWrites)
ASSUME ChangesAssumption == MaxWrites \in Nat /\ Changes \subseteq Keys
ASSUME ResourcesAssumption ==
  Resource \in [Rows -> Resources] /\ Requested \subseteq SUBSET Resources

VARIABLES
  row,      \* each row: the version committed last, and what became of it
  pending,  \* the change each handler has committed and not yet announced
  snap      \* the last snapshot, as far as it is read

snapshotVars == <<webVars, row, pending, snap>>

Row == [version : 0..MaxWrites, state : {"new", "listed", "hidden", "gone"}]
NewRow == [version |-> 0, state |-> "new"]

SnapshotTypeOK ==
  /\ WebTypeOK
  /\ row \in [Rows -> Row]
  /\ pending \in [Handlers -> Changes \union {NoKey}]
  /\ snap \in [watermark : 0..MaxId, left : SUBSET Resources,
               read : SUBSET Resources, copy : [Rows -> Row]]

SnapshotInit ==
  /\ WebInit
  /\ row = [a \in Rows |-> NewRow]
  /\ pending = [h \in Handlers |-> NoKey]
  /\ snap = [watermark |-> 0, left |-> {}, read |-> {}, copy |-> [a \in Rows |-> NewRow]]

-----------------------------------------------------------------------------
\* A write commits.
Write(h, a, state) ==
  /\ pending[h] = NoKey
  /\ row[a].version < MaxWrites
  /\ row' = [row EXCEPT ![a] = [version |-> row[a].version + 1, state |-> state]]
  /\ pending' = [pending EXCEPT ![h] = <<a, row[a].version + 1>>]
  /\ UNCHANGED <<webVars, snap>>

\* A row is created or updated.
SaveRow(h, a, state) ==
  /\ row[a].state # "gone"
  /\ state = "hidden" => Resource[a] \in Filtered
  /\ Write(h, a, state)

DestroyRow(h, a) ==
  /\ row[a].state \in {"listed", "hidden"}
  /\ Write(h, a, "gone")

\* The event of the change, in a transaction of its own.
Announce(h) ==
  /\ pending[h] # NoKey
  /\ EmitEvent(pending[h])
  /\ pending' = [pending EXCEPT ![h] = NoKey]
  /\ UNCHANGED <<row, snap>>

\* The HTML pages, the admin and the recount of a project's seats announce
\* nothing; and a worker may die before it does.
SayNothing(h) ==
  /\ pending[h] # NoKey
  /\ pending' = [pending EXCEPT ![h] = NoKey]
  /\ UNCHANGED <<webVars, row, snap>>

-----------------------------------------------------------------------------
\* A request for a snapshot arrives; the newest event that is visible is its
\* watermark.
TakeWatermark(wanted) ==
  /\ snap.left = {}
  /\ snap' = [watermark |-> Max(Visible \union {0}), left |-> wanted, read |-> {},
              copy |-> snap.copy]
  /\ UNCHANGED <<webVars, row, pending>>

\* Mutation of ReadResource: the watermark is read again with the last resource.
ReadResourceThenWatermark(k) ==
  /\ k \in snap.left
  /\ \A j \in snap.left : Rank[k] <= Rank[j]
  /\ snap' = [watermark |-> Max(Visible \union {0}),
              left |-> snap.left \ {k}, read |-> snap.read \union {k},
              copy |-> [a \in Rows |-> IF Resource[a] = k THEN row[a] ELSE snap.copy[a]]]
  /\ UNCHANGED <<webVars, row, pending>>

\* One query of the serializer.  A row that is not listed is absent from the
\* answer, which tells the consumer as much as its version does.
ReadResource(k) ==
  /\ k \in snap.left
  /\ \A j \in snap.left : Rank[k] <= Rank[j]
  /\ snap' = [watermark |-> snap.watermark,
              left |-> snap.left \ {k}, read |-> snap.read \union {k},
              copy |-> [a \in Rows |-> IF Resource[a] = k THEN row[a] ELSE snap.copy[a]]]
  /\ UNCHANGED <<webVars, row, pending>>

\* The feed's own steps, which no row sees.
Feed ==
  /\ \E i \in Ids : CommitEvent(i) \/ AbortEvent(i)
  /\ UNCHANGED <<row, pending, snap>>

SnapshotNext ==
  \/ \E h \in Handlers :
       \/ \E a \in Rows :
            \/ \E state \in {"listed", "hidden"} : SaveRow(h, a, state)
            \/ DestroyRow(h, a)
       \/ Announce(h)
       \/ SayNothing(h)
  \/ Feed
  \/ \E wanted \in Requested : TakeWatermark(wanted)
  \/ \E k \in Resources : ReadResource(k)

SnapshotSpec == SnapshotInit /\ [][SnapshotNext]_snapshotVars

-----------------------------------------------------------------------------
Drawn(i) == status[i] # "free"
RowOf(i) == keyOf[i][1]
VersionOf(i) == keyOf[i][2]
ReadAlready(a) == Resource[a] \in snap.read

\* A consumer that starts from a snapshot never needs an event at or below its
\* watermark, not even one that commits after the snapshot was read, whose id is
\* below those that were visible by then: the snapshot has the row as that event
\* announces it, or as a later write left it (OutboxSnapshotAPIView.get).
SnapshotCovers ==
  \A i \in Ids :
    Drawn(i) /\ i <= snap.watermark /\ ReadAlready(RowOf(i))
      => snap.copy[RowOf(i)].version >= VersionOf(i)

\* What a consumer knows of a row when it has applied a set of events in id order,
\* on top of a version it started with.
Applied(events, a, start) ==
  LET own == {i \in events : RowOf(i) = a}
  IN  IF own = {} THEN start ELSE VersionOf(Max(own))

\* A consumer that reads a snapshot and then every visible event above its
\* watermark is never behind one that applied the whole feed from its first event
\* (the switch that docs/architecture/ml-integration-handover.md recommends).
SnapshotReplacesFeed ==
  \A a \in Rows : ReadAlready(a) =>
    Applied({i \in Visible : i > snap.watermark}, a, snap.copy[a].version)
      >= Applied(Visible, a, 0)

(***************************************************************************)
(* What the proof rests on: an event, drawn or about to be, announces a    *)
(* change its row has behind it, and a watermark is an id that was drawn.  *)
(***************************************************************************)
SnapshotInv ==
  /\ SnapshotTypeOK
  /\ \A h \in Handlers : pending[h] # NoKey => row[pending[h][1]].version >= pending[h][2]
  /\ \A i \in Ids : Drawn(i) <=> i <= seq
  /\ \A i \in Ids : Drawn(i) => keyOf[i] \in Changes /\ row[RowOf(i)].version >= VersionOf(i)
  /\ snap.watermark <= seq
  /\ SnapshotCovers
=============================================================================
