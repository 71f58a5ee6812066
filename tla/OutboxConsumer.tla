--------------------------- MODULE OutboxConsumer ---------------------------
(***************************************************************************)
(* The ml and graph services reading the outbox: the background poller,    *)
(* the POST /sync and POST /replay handlers and the store they project     *)
(* into.  All of them are coroutines of one event loop, so they interleave *)
(* only at awaits: the fetch and the ack.  project_events has no await; it *)
(* runs to its end, or to an exception or the death of the process, and    *)
(* every event it applied is persisted before the next one.                *)
(***************************************************************************)
EXTENDS Outbox

CONSTANTS
  Poller,              \* the background task of _poll_forever
  Callers,             \* HTTP requests: POST /sync and POST /replay
  NoThread,            \* a coroutine that waits for no request
  Aggregates,          \* projects, profiles, ...: what events are about
  Subject,             \* the aggregate an event of a given key is about
  ReplayFrom,          \* the offsets POST /replay is called with
  MaxTimeouts,         \* bound on requests the client gives up on
  MaxFailures,         \* bound on failed projections and on process deaths
  MaxDirects           \* bound on events handed to POST /project and /reindex

Workers == {Poller} \union Callers

ASSUME WorkersAssumption == Poller \notin Callers /\ NoThread \notin Threads
ASSUME SubjectAssumption == Subject \in [Keys -> Aggregates]
ASSUME ReplayAssumption == ReplayFrom \subseteq Ids
ASSUME FaultsAssumption ==
  MaxTimeouts \in Nat /\ MaxFailures \in Nat /\ MaxDirects \in Nat

VARIABLES
  worker,      \* where each coroutine is, with its request and its page
  index,       \* the read model: the event each aggregate's entry comes from
  mirror,      \* checkpoint_mirror, the consumer's own note of its offset
  projected,   \* history: ids that were applied at least once
  waived,      \* history: ids the feed does not promise to deliver
  timeouts,    \* spent of MaxTimeouts
  failures,    \* spent of MaxFailures
  directs      \* spent of MaxDirects

storeVars == <<index, mirror, projected>>
faultVars == <<timeouts, failures, directs>>
vars == <<webVars, worker, storeVars, waived, faultVars>>

Worker ==
  [pc : {"idle", "fetching", "projecting", "acking"},
   thread : Threads \union {NoThread}, page : SUBSET Ids]

Idle == [pc |-> "idle", thread |-> NoThread, page |-> {}]

TypeOK ==
  /\ WebTypeOK
  /\ worker \in [Workers -> Worker]
  /\ index \in [Aggregates -> Keys \union {NoKey}]
  /\ mirror \in 0..MaxId
  /\ projected \in SUBSET Ids
  /\ waived \in SUBSET Ids
  /\ timeouts \in 0..MaxTimeouts
  /\ failures \in 0..MaxFailures
  /\ directs \in 0..MaxDirects

Init ==
  /\ WebInit
  /\ worker = [w \in Workers |-> Idle]
  /\ index = [a \in Aggregates |-> NoKey]
  /\ mirror = 0
  /\ projected = {}
  /\ waived = {}
  /\ timeouts = 0
  /\ failures = 0
  /\ directs = 0

-----------------------------------------------------------------------------
\* Mutation of ProjectEvents: the first event on an aggregate wins.
ProjectEventsBackwards(S) ==
  /\ index' = [a \in Aggregates |->
                 LET hits == {i \in S : Subject[keyOf[i]] = a}
                 IN  IF hits = {} THEN index[a] ELSE keyOf[Min(hits)]]
  /\ projected' = projected \union S

\* project_event on each event of S in id order: the last one on an aggregate
\* is what its entry keeps.
ProjectEvents(S) ==
  /\ index' = [a \in Aggregates |->
                 LET hits == {i \in S : Subject[keyOf[i]] = a}
                 IN  IF hits = {} THEN index[a] ELSE keyOf[Max(hits)]]
  /\ projected' = projected \union S

\* fetch_events: the poller and /sync poll from the server's checkpoint, which
\* they never send; /replay names its first offset.
FetchEvents(w, t) ==
  /\ worker[w].pc = "idle"
  /\ \/ ListEvents(t, "poll", 0)
     \/ /\ w \in Callers
        /\ \E n \in ReplayFrom : ListEvents(t, "replay", n)
  /\ worker' = [worker EXCEPT ![w] =
                  [pc |-> "fetching", thread |-> t, page |-> {}]]
  /\ UNCHANGED <<storeVars, waived, faultVars>>

\* The page reaches the coroutine that waits for it, if one still does.
EventsFetched(t) ==
  /\ MarkPolled(t)
  /\ worker' = [w \in Workers |->
       IF worker[w].thread # t THEN worker[w]
       ELSE IF request[t].page = {} THEN Idle
       ELSE [pc |-> "projecting", thread |-> NoThread, page |-> request[t].page]]
  /\ UNCHANGED <<storeVars, waived, faultVars>>

\* Mutations of ProjectPage: the offset acknowledged is the next one to read, and
\* the mirror is written before the server answered.
ProjectPageAcksNext(w, t) ==
  /\ worker[w].pc = "projecting"
  /\ ProjectEvents(worker[w].page)
  /\ PostAck(t, Max(worker[w].page) + 1)
  /\ worker' = [worker EXCEPT ![w] = [pc |-> "acking", thread |-> t, page |-> {}]]
  /\ UNCHANGED <<mirror, waived, faultVars>>

ProjectPageNotesEarly(w, t) ==
  /\ worker[w].pc = "projecting"
  /\ ProjectEvents(worker[w].page)
  /\ PostAck(t, Max(worker[w].page))
  /\ mirror' = Max(worker[w].page)
  /\ worker' = [worker EXCEPT ![w] = [pc |-> "acking", thread |-> t, page |-> {}]]
  /\ UNCHANGED <<waived, faultVars>>

\* project_events on the whole page, then the ack of its last id is sent.
ProjectPage(w, t) ==
  /\ worker[w].pc = "projecting"
  /\ ProjectEvents(worker[w].page)
  /\ PostAck(t, Max(worker[w].page))
  /\ worker' = [worker EXCEPT ![w] = [pc |-> "acking", thread |-> t, page |-> {}]]
  /\ UNCHANGED <<mirror, waived, faultVars>>

\* The store fails at the event after n: sync_from_outbox raises, unacked.
ProjectionFails(w, n) ==
  /\ worker[w].pc = "projecting"
  /\ n < Max(worker[w].page)
  /\ failures < MaxFailures
  /\ ProjectEvents({i \in worker[w].page : i <= n})
  /\ worker' = [worker EXCEPT ![w] = Idle]
  /\ failures' = failures + 1
  /\ UNCHANGED <<webVars, mirror, waived, timeouts, directs>>

\* The ack is served; a coroutine that still waits notes the offset in the
\* mirror, unless the server answered with an error.
AckServed(t) ==
  /\ AckEvent(t)
  /\ LET waiting == {w \in Workers : worker[w].thread = t} IN
       /\ worker' = [w \in Workers |-> IF w \in waiting THEN Idle ELSE worker[w]]
       /\ mirror' = IF waiting # {} /\ AckOutcome(request[t].arg) # "missing"
                      THEN request[t].arg ELSE mirror
  /\ UNCHANGED <<index, projected, waived, faultVars>>

\* httpx gives up; the server thread goes on with the request.
TimeOut(w) ==
  /\ worker[w].thread # NoThread
  /\ timeouts < MaxTimeouts
  /\ worker' = [worker EXCEPT ![w] = Idle]
  /\ timeouts' = timeouts + 1
  /\ UNCHANGED <<webVars, storeVars, waived, failures, directs>>

\* The service dies and restarts: the coroutines are gone, the persisted store
\* is loaded again, requests already sent are still served.
Restart ==
  /\ failures < MaxFailures
  /\ \E w \in Workers : worker[w].pc # "idle"
  /\ worker' = [w \in Workers |-> Idle]
  /\ failures' = failures + 1
  /\ UNCHANGED <<webVars, storeVars, waived, timeouts, directs>>

\* POST /project, /reindex and /replay with events in the body: applied as they
\* come, with no offset and no ack.
ProjectDirect(k) ==
  /\ directs < MaxDirects
  /\ index' = [index EXCEPT ![Subject[k]] = k]
  /\ directs' = directs + 1
  /\ UNCHANGED <<webVars, worker, mirror, projected, waived, timeouts,
                 failures>>

-----------------------------------------------------------------------------
(***************************************************************************)
(* Steps of the web side that the consumer does not see.  Two of them put  *)
(* events out of its reach.  Every list request reads above an offset, so  *)
(* an event that commits below one the consumer already acknowledges or    *)
(* holds in a page may never be read; and a replay that starts ahead of    *)
(* the checkpoint is asked to leave out the events in between.             *)
(***************************************************************************)
Overtaken(i) ==
  \/ i < checkpoint.acked
  \/ \E t \in Threads : \/ request[t].op = "ack" /\ i < request[t].arg
                        \/ request[t].op = "mark" /\ \E n \in request[t].page : i < n
  \/ \E w \in Workers : worker[w].pc = "projecting" /\ \E n \in worker[w].page : i < n

LeftOut(r) ==
  IF r.mode = "replay" /\ DeliveryPage(LowerBound(r)) # {}
    THEN {i \in Visible : checkpoint.acked < i /\ i < r.arg} ELSE {}

EventEmitted(k) ==
  /\ EmitEvent(k)
  /\ UNCHANGED <<worker, storeVars, waived, faultVars>>

EventSettled(i) ==
  /\ \/ CommitEvent(i) /\ waived' = waived \union (IF Overtaken(i) THEN {i} ELSE {})
     \/ AbortEvent(i) /\ UNCHANGED waived
  /\ UNCHANGED <<worker, storeVars, faultVars>>

PageRead(t) ==
  /\ ReadPage(t)
  /\ waived' = waived \union LeftOut(request[t])
  /\ UNCHANGED <<worker, storeVars, faultVars>>

WebStep ==
  \/ \E k \in Keys : EventEmitted(k)
  \/ \E i \in Ids : EventSettled(i)
  \/ \E t \in Threads : PageRead(t)

ConsumerStep ==
  \/ \E w \in Workers, t \in Threads : FetchEvents(w, t) \/ ProjectPage(w, t)
  \/ \E t \in Threads : EventsFetched(t) \/ AckServed(t)
  \/ \E w \in Workers, n \in 0..MaxId : ProjectionFails(w, n)
  \/ \E w \in Workers : TimeOut(w)
  \/ Restart
  \/ \E k \in Keys : ProjectDirect(k)

Next == WebStep \/ ConsumerStep

Spec == Init /\ [][Next]_vars

(***************************************************************************)
(* Fairness.  Open transactions end and server threads finish their        *)
(* requests; _poll_forever loops for as long as the service runs, whatever *)
(* a cycle raised.  Nothing obliges the program to emit, a caller to call, *)
(* or a request to fail.                                                   *)
(***************************************************************************)
Fairness ==
  /\ \A i \in Ids : WF_vars(EventSettled(i))
  /\ \A t \in Threads :
       /\ WF_vars(PageRead(t))
       /\ WF_vars(EventsFetched(t))
       /\ WF_vars(AckServed(t))
  /\ WF_vars(\E t \in Threads : FetchEvents(Poller, t))
  /\ WF_vars(\E t \in Threads : ProjectPage(Poller, t))

FairSpec == Spec /\ Fairness

-----------------------------------------------------------------------------
(***************************************************************************)
(* At-least-once: an acknowledged offset leaves no visible event behind it *)
(* that was never applied.  The checkpoint is the only memory of progress, *)
(* so such an event would never be delivered again.  It holds of all       *)
(* events but those that committed below an offset already handed out, and *)
(* those a replay was asked to leave out.                                  *)
(***************************************************************************)
NothingSkipped ==
  \A i \in Visible : i <= checkpoint.acked => i \in projected \union waived

\* What the contract says without an exception: every event behind the
\* acknowledged offset was delivered.
EverythingDelivered == \A i \in Visible : i <= checkpoint.acked => i \in projected

\* The consumer's own note of its offset never runs ahead of the server's: set
\* after the ack, it names an offset the server accepted, if not the latest.
MirrorNeverAhead == mirror <= checkpoint.acked

(***************************************************************************)
(* Why nothing is skipped: the inductive invariant.  A page is complete if *)
(* every visible event up to its last one is in the page, was applied or   *)
(* was waived; an offset is settled if all events up to it were applied or *)
(* waived.  Pages stay complete because an event that commits below one of *)
(* them is waived.  A polled page starts at most at the checkpoint, which  *)
(* is settled; a replayed one waives what lies in between.                 *)
(***************************************************************************)
Settled(n) == \A i \in Visible : i <= n => i \in projected \union waived

Complete(S) ==
  /\ S \subseteq Visible
  /\ \A n \in S, i \in Visible : i <= n => i \in S \union projected \union waived

SequenceIsAhead == \A i \in Ids : i > seq => status[i] = "free"

CheckpointSettled ==
  /\ checkpoint.acked \in Visible \union {0}
  /\ Settled(checkpoint.acked)

RequestSettled(t) ==
  /\ request[t].op = "page" => \/ LowerBound(request[t]) <= checkpoint.acked
                               \/ request[t].mode = "replay" /\ request[t].arg # 0
  /\ request[t].op = "mark" => Complete(request[t].page)
  /\ request[t].op = "ack" => request[t].arg \in Visible /\ Settled(request[t].arg)

PageComplete(w) ==
  worker[w].pc = "projecting" => worker[w].page # {} /\ Complete(worker[w].page)

RequestsSettled == \A t \in Threads : RequestSettled(t)
PagesComplete == \A w \in Workers : PageComplete(w)

IInv ==
  /\ TypeOK
  /\ SequenceIsAhead
  /\ CheckpointSettled
  /\ RequestsSettled
  /\ PagesComplete
  /\ MirrorNeverAhead

\* The delivery contract as a whole: each step publishes an event, applies visible
\* ones, leaves out those a replay passes over, or acknowledges what was applied.
Contract == INSTANCE AtLeastOnce WITH
              Offset <- Ids, visible <- Visible, processed <- projected,
              waived <- waived, acked <- checkpoint.acked

DeliversAtLeastOnce == Contract!Spec

\* Every event that becomes visible is acknowledged in the end: neither failed
\* projections nor restarts nor timeouts stop the poller from catching up.
EveryEventIsAcked == \A i \in Ids : (i \in Visible) ~> (i <= checkpoint.acked)

\* What the feed says of an aggregate: its last visible event.
Latest(a) ==
  LET hits == {i \in Visible : Subject[keyOf[i]] = a}
  IN  IF hits = {} THEN NoKey ELSE keyOf[Max(hits)]

\* Eventual consistency: once the feed is quiet, the read model comes to agree
\* with the last event on every aggregate, for good.
IndexConverges == <>[](\A a \in Aggregates : index[a] = Latest(a))

\* The same when at most one thing goes wrong, or only timeouts do, nothing is
\* applied beside the feed and no event is out of its reach: then no fault is left
\* to interrupt a page that is being applied again, while its late ack already
\* moved the checkpoint past it.
IndexSurvivesOneFault ==
  []((timeouts + failures <= 1 \/ failures = 0) /\ directs = 0 /\ waived = {})
    => IndexConverges
=============================================================================
