---------------------------- MODULE OutboxProofs ----------------------------
(***************************************************************************)
(* What is proved of the outbox together with its consumer, whatever the   *)
(* order of commits and wherever /replay starts.  First the web side alone *)
(* whatever its clients send.  Then types, the mirror, monotonic acks.     *)
(* Then: nothing is skipped but what was waived, and the system implements *)
(* AtLeastOnce.  Last, of the snapshot that a new consumer starts from,    *)
(* for any rows, handlers and snapshots.  (The assumptions of the one      *)
(* component say nothing of the constants of the other.)                   *)
(***************************************************************************)
EXTENDS OutboxConsumer, Snapshot, SetLemmas

\* The bound of a request is an offset.
LEMMA LowerBoundIsOffset ==
  ASSUME NEW r \in Request
  PROVE  LowerBound(r) \in 0..MaxId
<1> USE BoundsAssumption
<1>1. r.acked \in 0..MaxId /\ r.arg \in 0..MaxId
  BY DEF Request
<1>2. Max({r.acked, r.arg}) \in {r.acked, r.arg}
  BY <1>1, MaxIsLargest
<1>3. CASE r.mode = "replay"
  <2>1. CASE r.arg = 0
    BY <1>3, <2>1 DEF LowerBound
  <2>2. CASE r.arg # 0
    BY <1>1, <1>3, <2>2 DEF LowerBound
  <2> QED  BY <2>1, <2>2
<1>4. CASE r.mode # "replay"
  BY <1>1, <1>2, <1>4 DEF LowerBound
<1> QED  BY <1>3, <1>4

\* A page of the feed has no holes: with an event it holds every visible event
\* between the bound and that event.
LEMMA PageHasNoHoles ==
  ASSUME NEW low \in Nat, NEW n \in DeliveryPage(low),
         NEW i \in Visible, low < i, i <= n
  PROVE  i \in DeliveryPage(low)
<1> DEFINE Before(m) == {j \in Visible : low < j /\ j < m}
<1>1. Visible \subseteq 1..MaxId /\ IsFiniteSet(1..MaxId)
  <2>1. 1 \in Int /\ MaxId \in Int
    BY BoundsAssumption
  <2> QED  BY <2>1, FS_Interval DEF Visible, Ids
<1>2. IsFiniteSet(Before(n)) /\ Before(i) \subseteq Before(n)
  <2>1. n \in Nat /\ i \in Nat /\ \A j \in Visible : j \in Nat
    BY <1>1, BoundsAssumption DEF DeliveryPage
  <2>2. ASSUME NEW j \in Before(i) PROVE j \in Before(n)
    <3>1. j \in Visible /\ low < j /\ j < i
      OBVIOUS
    <3>2. j < n
      BY <2>1, <3>1
    <3> QED  BY <3>1, <3>2
  <2>3. Before(n) \subseteq 1..MaxId
    BY <1>1
  <2> QED  BY <1>1, <2>2, <2>3, FS_Subset
<1>3. /\ Cardinality(Before(i)) \in Nat /\ Cardinality(Before(n)) \in Nat
      /\ Cardinality(Before(i)) <= Cardinality(Before(n))
  BY <1>2, FS_Subset, FS_CardinalityType
<1>4. Cardinality(Before(n)) < Limit
  BY DEF DeliveryPage
<1>5. Cardinality(Before(i)) < Limit
  BY <1>3, <1>4, BoundsAssumption
<1> QED  BY <1>5 DEF DeliveryPage

-----------------------------------------------------------------------------
(***************************************************************************)
(* One lemma per action: it keeps the types and the acknowledged offset    *)
(* does not move back.                                                     *)
(***************************************************************************)
StepIsGood == WebTypeOK' /\ checkpoint'.acked >= checkpoint.acked

LEMMA EmitEventIsGood ==
  ASSUME WebTypeOK, NEW k \in Keys, EmitEvent(k)
  PROVE  StepIsGood
<1>1. seq' \in 0..MaxId /\ seq + 1 \in Ids
  BY BoundsAssumption DEF WebTypeOK, EmitEvent, Ids
<1> QED
  BY <1>1, BoundsAssumption DEF StepIsGood, WebTypeOK, EmitEvent

LEMMA CommitEventIsGood ==
  ASSUME WebTypeOK, NEW i \in Ids, CommitEvent(i)
  PROVE  StepIsGood
BY BoundsAssumption DEF StepIsGood, WebTypeOK, CommitEvent

LEMMA AbortEventIsGood ==
  ASSUME WebTypeOK, NEW i \in Ids, AbortEvent(i)
  PROVE  StepIsGood
BY BoundsAssumption DEF StepIsGood, WebTypeOK, AbortEvent

LEMMA ListEventsIsGood ==
  ASSUME WebTypeOK, NEW t \in Threads, NEW mode \in {"poll", "replay"},
         NEW arg \in 0..MaxId, ListEvents(t, mode, arg)
  PROVE  StepIsGood
BY BoundsAssumption DEF StepIsGood, WebTypeOK, ListEvents, Request, feedVars

LEMMA ReadPageIsGood ==
  ASSUME WebTypeOK, NEW t \in Threads, ReadPage(t)
  PROVE  StepIsGood
<1>1. DeliveryPage(LowerBound(request[t])) \in SUBSET Ids
  BY DEF DeliveryPage, Visible
<1>2. request' \in [Threads -> Request]
  <2> DEFINE r == [request[t] EXCEPT !.op = "mark",
                                     !.page = DeliveryPage(LowerBound(request[t]))]
  <2>1. request[t] \in Request
    BY DEF WebTypeOK
  <2>2. r \in Request
    <3> HIDE DEF Ids
    <3> QED  BY <1>1, <2>1 DEF Request
  <2>3. request' = [request EXCEPT ![t] = r]
    BY DEF WebTypeOK, ReadPage
  <2> HIDE DEF r
  <2> QED  BY <2>2, <2>3 DEF WebTypeOK
<1> QED
  BY <1>2, BoundsAssumption DEF StepIsGood, WebTypeOK, ReadPage, feedVars

\* Whatever the stale row says, mark_polled leaves the acknowledged offset be.
LEMMA MarkPolledIsGood ==
  ASSUME WebTypeOK, NEW t \in Threads, MarkPolled(t)
  PROVE  StepIsGood
<1>1. request[t].seen \in 0..MaxId /\ request[t].page \subseteq 0..MaxId
  BY BoundsAssumption DEF WebTypeOK, Request, Ids
<1>2. Max({request[t].seen} \union request[t].page) \in 0..MaxId
  BY <1>1, MaxIsLargest, BoundsAssumption
<1>3. checkpoint' \in [acked : 0..MaxId, seen : 0..MaxId]
      /\ checkpoint'.acked = checkpoint.acked
  BY <1>2 DEF WebTypeOK, MarkPolled
<1>4. request' \in [Threads -> Request]
  BY BoundsAssumption DEF WebTypeOK, MarkPolled, NoRequest, Request
<1> QED
  BY <1>3, <1>4, BoundsAssumption
  DEF StepIsGood, WebTypeOK, MarkPolled, feedVars

LEMMA PostAckIsGood ==
  ASSUME WebTypeOK, NEW t \in Threads, NEW n \in Ids, PostAck(t, n)
  PROVE  StepIsGood
<1>1. n \in 0..MaxId /\ 0 \in 0..MaxId
  BY BoundsAssumption DEF Ids
<1>2. request' \in [Threads -> Request]
  BY <1>1 DEF WebTypeOK, PostAck, Request
<1> QED
  BY <1>2, BoundsAssumption DEF StepIsGood, WebTypeOK, PostAck, feedVars

LEMMA AckEventIsGood ==
  ASSUME WebTypeOK, NEW t \in Threads, AckEvent(t)
  PROVE  StepIsGood
<1> DEFINE n == request[t].arg
<1>1. n \in 0..MaxId /\ checkpoint.seen \in 0..MaxId /\ checkpoint.acked \in 0..MaxId
  BY DEF WebTypeOK, Request
<1>2. Max({checkpoint.seen, n}) \in 0..MaxId
  BY <1>1, MaxIsLargest, BoundsAssumption
<1>3. /\ checkpoint' \in [acked : 0..MaxId, seen : 0..MaxId]
      /\ checkpoint'.acked >= checkpoint.acked
  <2>1. CASE AckOutcome(n) = "advanced"
    BY <1>1, <1>2, <2>1, BoundsAssumption DEF AckEvent, AckOutcome
  <2>2. CASE AckOutcome(n) # "advanced"
    BY <1>1, <2>2, BoundsAssumption DEF AckEvent, WebTypeOK
  <2> QED  BY <2>1, <2>2
<1>4. request' \in [Threads -> Request]
  BY BoundsAssumption DEF WebTypeOK, AckEvent, NoRequest, Request
<1> QED
  BY <1>3, <1>4, BoundsAssumption DEF StepIsGood, WebTypeOK, AckEvent, feedVars

-----------------------------------------------------------------------------
\* The initial state has the types.
LEMMA WebInitIsTyped == WebInit => WebTypeOK
BY BoundsAssumption DEF WebInit, WebTypeOK, NoRequest, Request, Ids

\* Every step of the web side, with clients that send anything, is good.
LEMMA WebNextIsGood ==
  ASSUME WebTypeOK, WebNext
  PROVE  StepIsGood
<1>1. ASSUME NEW k \in Keys, EmitEvent(k) PROVE StepIsGood
  BY <1>1, EmitEventIsGood
<1>2. ASSUME NEW i \in Ids, CommitEvent(i) \/ AbortEvent(i) PROVE StepIsGood
  BY <1>2, CommitEventIsGood, AbortEventIsGood
<1>3. ASSUME NEW t \in Threads, NEW mode \in {"poll", "replay"},
             NEW arg \in 0..MaxId, ListEvents(t, mode, arg)
      PROVE  StepIsGood
  BY <1>3, ListEventsIsGood
<1>4. ASSUME NEW t \in Threads, NEW n \in Ids, PostAck(t, n) PROVE StepIsGood
  BY <1>4, PostAckIsGood
<1>5. ASSUME NEW t \in Threads, ReadPage(t) \/ MarkPolled(t) \/ AckEvent(t)
      PROVE  StepIsGood
  BY <1>5, ReadPageIsGood, MarkPolledIsGood, AckEventIsGood
<1> QED  BY <1>1, <1>2, <1>3, <1>4, <1>5 DEF WebNext

\* A step that leaves the web side alone is good too.
LEMMA WebStutterIsGood ==
  ASSUME WebTypeOK, UNCHANGED webVars
  PROVE  StepIsGood
BY BoundsAssumption DEF StepIsGood, WebTypeOK, webVars

\* The tables of the web side keep their types under any clients.
THEOREM WebTypeCorrect == WebSpec => []WebTypeOK
<1>1. WebTypeOK /\ [WebNext]_webVars => WebTypeOK'
  BY WebNextIsGood, WebStutterIsGood DEF StepIsGood
<1> QED  BY WebInitIsTyped, <1>1, PTL DEF WebSpec

\* The acknowledged offset of emit, list and ack handlers in any interleaving,
\* called by any clients with any parameters, never moves back.
THEOREM AnyClientsMonotonicAck == WebSpec => CheckpointNeverRegresses
<1>1. WebTypeOK /\ [WebNext]_webVars => [checkpoint'.acked >= checkpoint.acked]_webVars
  BY WebNextIsGood DEF StepIsGood
<1> QED  BY WebTypeCorrect, <1>1, PTL DEF WebSpec, CheckpointNeverRegresses

-----------------------------------------------------------------------------
(***************************************************************************)
(* The first inductive invariant.  A coroutine projects only pages that    *)
(* hold an event: project_events of an empty page would leave no last id   *)
(* to acknowledge, and Max of it would be no offset.                       *)
(***************************************************************************)
PagesNotEmpty ==
  \A w \in Workers : worker[w].pc = "projecting" => worker[w].page # {}

Sane == TypeOK /\ PagesNotEmpty /\ MirrorNeverAhead

LEMMA SaneInit == Init => Sane
<1> SUFFICES ASSUME Init PROVE Sane
  OBVIOUS
<1>1. TypeOK
  BY WebInitIsTyped, BoundsAssumption, FaultsAssumption
  DEF Init, TypeOK, Idle, Worker
<1>2. PagesNotEmpty
  BY DEF Init, PagesNotEmpty, Idle
<1>3. MirrorNeverAhead
  BY BoundsAssumption DEF Init, WebInit, MirrorNeverAhead
<1> QED  BY <1>1, <1>2, <1>3 DEF Sane

-----------------------------------------------------------------------------
(***************************************************************************)
(* One lemma per action: the invariant is kept and the acknowledged offset *)
(* does not move back.                                                     *)
(***************************************************************************)
StaysSane == Sane' /\ checkpoint'.acked >= checkpoint.acked

\* The mirror stays behind when it does not move.
LEMMA MirrorStaysBehind ==
  ASSUME Sane, StepIsGood, mirror' = mirror
  PROVE  MirrorNeverAhead'
<1>1. mirror \in Nat /\ checkpoint.acked \in Nat /\ checkpoint'.acked \in Nat
  BY BoundsAssumption DEF Sane, TypeOK, WebTypeOK, StepIsGood
<1> QED  BY <1>1 DEF Sane, MirrorNeverAhead, StepIsGood

\* A step of the web side that the consumer does not see.
LEMMA WebStepStaysSane ==
  ASSUME Sane, WebStep
  PROVE  StaysSane
<1>1. WebTypeOK
  BY DEF Sane, TypeOK
<1>2. StepIsGood
  BY <1>1, EmitEventIsGood, CommitEventIsGood, AbortEventIsGood, ReadPageIsGood
  DEF WebStep, EventEmitted, EventSettled, PageRead
<1>6. UNCHANGED <<worker, storeVars, faultVars>>
  BY DEF WebStep, EventEmitted, EventSettled, PageRead
<1>7. waived' \in SUBSET Ids
  <2>1. waived \in SUBSET Ids
    BY DEF Sane, TypeOK
  <2>2. ASSUME NEW i \in Ids, EventSettled(i) PROVE waived' \in SUBSET Ids
    BY <2>1, <2>2 DEF EventSettled
  <2>3. ASSUME NEW t \in Threads, PageRead(t) PROVE waived' \in SUBSET Ids
    <3>1. LeftOut(request[t]) \in SUBSET Ids
      BY DEF LeftOut, Visible
    <3> QED  BY <2>1, <2>3, <3>1 DEF PageRead
  <2> QED  BY <2>1, <2>2, <2>3 DEF WebStep, EventEmitted
<1>3. MirrorNeverAhead'
  BY <1>2, <1>6, MirrorStaysBehind DEF storeVars
<1>4. TypeOK'
  BY <1>2, <1>6, <1>7 DEF Sane, TypeOK, StepIsGood, storeVars, faultVars
<1>5. PagesNotEmpty'
  BY <1>6 DEF Sane, PagesNotEmpty
<1> QED  BY <1>2, <1>3, <1>4, <1>5 DEF StaysSane, Sane, StepIsGood

LEMMA FetchEventsStaysSane ==
  ASSUME Sane, NEW w \in Workers, NEW t \in Threads, FetchEvents(w, t)
  PROVE  StaysSane
<1>1. WebTypeOK
  BY DEF Sane, TypeOK
<1>2. StepIsGood
  <2>1. CASE ListEvents(t, "poll", 0)
    <3>1. 0 \in 0..MaxId
      BY BoundsAssumption
    <3> QED  BY <1>1, <2>1, <3>1, ListEventsIsGood
  <2>2. ASSUME NEW n \in ReplayFrom, ListEvents(t, "replay", n)
        PROVE  StepIsGood
    <3>1. n \in 0..MaxId
      BY ReplayAssumption, BoundsAssumption DEF Ids
    <3> QED  BY <1>1, <2>2, <3>1, ListEventsIsGood
  <2> QED  BY <2>1, <2>2 DEF FetchEvents
<1>3. MirrorNeverAhead'
  BY <1>2, MirrorStaysBehind DEF FetchEvents, storeVars
<1>4. worker' \in [Workers -> Worker]
  BY DEF Sane, TypeOK, FetchEvents, Worker
<1>5. TypeOK'
  BY <1>2, <1>4 DEF Sane, TypeOK, StepIsGood, FetchEvents, storeVars, faultVars
<1>6. PagesNotEmpty'
  BY DEF Sane, TypeOK, PagesNotEmpty, FetchEvents
<1> QED  BY <1>2, <1>3, <1>5, <1>6 DEF StaysSane, Sane, StepIsGood

LEMMA EventsFetchedStaysSane ==
  ASSUME Sane, NEW t \in Threads, EventsFetched(t)
  PROVE  StaysSane
<1>1. WebTypeOK
  BY DEF Sane, TypeOK
<1>2. StepIsGood
  BY <1>1, MarkPolledIsGood DEF EventsFetched
<1>3. MirrorNeverAhead'
  BY <1>2, MirrorStaysBehind DEF EventsFetched, storeVars
<1>4. worker' \in [Workers -> Worker]
  <2>1. request[t].page \in SUBSET Ids
    BY <1>1 DEF WebTypeOK, Request
  <2> QED  BY <2>1 DEF Sane, TypeOK, EventsFetched, Worker, Idle
<1>5. TypeOK'
  BY <1>2, <1>4 DEF Sane, TypeOK, StepIsGood, EventsFetched, storeVars, faultVars
<1>6. PagesNotEmpty'
  BY DEF Sane, TypeOK, PagesNotEmpty, EventsFetched, Idle
<1> QED  BY <1>2, <1>3, <1>5, <1>6 DEF StaysSane, Sane, StepIsGood

\* Applying a set of events keeps the read model typed.
LEMMA ProjectEventsIsTyped ==
  ASSUME Sane, NEW S \in SUBSET Ids, ProjectEvents(S)
  PROVE  /\ index' \in [Aggregates -> Keys \union {NoKey}]
         /\ projected' \in SUBSET Ids
<1>1. ASSUME NEW a \in Aggregates,
             NEW hits, hits = {i \in S : Subject[keyOf[i]] = a}, hits # {}
      PROVE  keyOf[Max(hits)] \in Keys \union {NoKey}
  <2>1. hits \in SUBSET (0..MaxId)
    <3>1. hits \subseteq Ids
      BY <1>1
    <3> QED  BY <3>1, BoundsAssumption DEF Ids
  <2>2. Max(hits) \in Ids
    BY <1>1, <2>1, MaxIsLargest, BoundsAssumption
  <2> QED  BY <2>2 DEF Sane, TypeOK, WebTypeOK
<1>2. index' \in [Aggregates -> Keys \union {NoKey}]
  BY <1>1 DEF Sane, TypeOK, ProjectEvents
<1> QED  BY <1>2 DEF Sane, TypeOK, ProjectEvents

LEMMA ProjectPageStaysSane ==
  ASSUME Sane, NEW w \in Workers, NEW t \in Threads, ProjectPage(w, t)
  PROVE  StaysSane
<1>1. WebTypeOK
  BY DEF Sane, TypeOK
<1>2. worker[w].page \in SUBSET Ids /\ worker[w].page # {}
  BY DEF Sane, TypeOK, Worker, PagesNotEmpty, ProjectPage
<1>3. Max(worker[w].page) \in Ids
  <2>1. worker[w].page \in SUBSET (0..MaxId)
    BY <1>2, BoundsAssumption DEF Ids
  <2> QED  BY <1>2, <2>1, MaxIsLargest, BoundsAssumption
<1>4. StepIsGood
  BY <1>1, <1>3, PostAckIsGood DEF ProjectPage
<1>5. MirrorNeverAhead'
  BY <1>4, MirrorStaysBehind DEF ProjectPage
<1>6. worker' \in [Workers -> Worker]
  BY DEF Sane, TypeOK, ProjectPage, Worker
<1>7. TypeOK'
  BY <1>2, <1>4, <1>6, ProjectEventsIsTyped
  DEF Sane, TypeOK, StepIsGood, ProjectPage, faultVars
<1>8. PagesNotEmpty'
  BY DEF Sane, TypeOK, PagesNotEmpty, ProjectPage
<1> QED  BY <1>4, <1>5, <1>7, <1>8 DEF StaysSane, Sane, StepIsGood

LEMMA ProjectionFailsStaysSane ==
  ASSUME Sane, NEW w \in Workers, NEW n \in 0..MaxId, ProjectionFails(w, n)
  PROVE  StaysSane
<1>1. WebTypeOK
  BY DEF Sane, TypeOK
<1>2. StepIsGood
  BY <1>1, WebStutterIsGood DEF ProjectionFails
<1>3. MirrorNeverAhead'
  BY <1>2, MirrorStaysBehind DEF ProjectionFails
<1>4. {i \in worker[w].page : i <= n} \in SUBSET Ids
  BY DEF Sane, TypeOK, Worker
<1>5. worker' \in [Workers -> Worker]
  BY DEF Sane, TypeOK, ProjectionFails, Worker, Idle
<1>6. failures' \in 0..MaxFailures
  BY FaultsAssumption DEF Sane, TypeOK, ProjectionFails
<1>7. TypeOK'
  BY <1>2, <1>4, <1>5, <1>6, ProjectEventsIsTyped
  DEF Sane, TypeOK, StepIsGood, ProjectionFails
<1>8. PagesNotEmpty'
  BY DEF Sane, TypeOK, PagesNotEmpty, ProjectionFails, Idle
<1> QED  BY <1>2, <1>3, <1>7, <1>8 DEF StaysSane, Sane, StepIsGood

LEMMA AckServedStaysSane ==
  ASSUME Sane, NEW t \in Threads, AckServed(t)
  PROVE  StaysSane
<1> DEFINE n == request[t].arg
<1>1. WebTypeOK /\ n \in 0..MaxId /\ checkpoint.acked \in 0..MaxId
  BY DEF Sane, TypeOK, WebTypeOK, Request
<1>2. StepIsGood
  BY <1>1, AckEventIsGood DEF AckServed
<1>3. MirrorNeverAhead' /\ mirror' \in 0..MaxId
  <2>1. CASE mirror' = mirror
    BY <1>2, <2>1, MirrorStaysBehind DEF Sane, TypeOK
  <2>2. CASE mirror' # mirror
    <3>1. mirror' = n /\ AckOutcome(n) # "missing"
      BY <2>2 DEF AckServed
    <3>2. n <= checkpoint'.acked
      <4>1. CASE n <= checkpoint.acked
        BY <1>1, <1>2, <4>1, BoundsAssumption DEF StepIsGood, WebTypeOK
      <4>2. CASE ~ (n <= checkpoint.acked)
        <5>1. AckOutcome(n) = "advanced"
          BY <3>1, <4>2 DEF AckOutcome
        <5> QED  BY <1>1, <5>1, BoundsAssumption DEF AckServed, AckEvent
      <4> QED  BY <4>1, <4>2
    <3> QED  BY <1>1, <3>1, <3>2 DEF MirrorNeverAhead
  <2> QED  BY <2>1, <2>2
<1>4. worker' \in [Workers -> Worker]
  BY DEF Sane, TypeOK, AckServed, Worker, Idle
<1>5. TypeOK'
  BY <1>2, <1>3, <1>4 DEF Sane, TypeOK, StepIsGood, AckServed, faultVars
<1>6. PagesNotEmpty'
  BY DEF Sane, TypeOK, PagesNotEmpty, AckServed, Idle
<1> QED  BY <1>2, <1>3, <1>5, <1>6 DEF StaysSane, Sane, StepIsGood

\* The faults and the direct projections do not touch the web side.
LEMMA OtherStepStaysSane ==
  ASSUME Sane,
         \/ \E w \in Workers : TimeOut(w)
         \/ Restart
         \/ \E k \in Keys : ProjectDirect(k)
         \/ UNCHANGED vars
  PROVE  StaysSane
<1>1. WebTypeOK /\ UNCHANGED webVars /\ mirror' = mirror
  BY DEF Sane, TypeOK, TimeOut, Restart, ProjectDirect, vars, storeVars
<1>2. StepIsGood /\ MirrorNeverAhead'
  BY <1>1, WebStutterIsGood, MirrorStaysBehind
<1>3. worker' \in [Workers -> Worker] /\ PagesNotEmpty'
  <2>1. CASE worker' = worker
    BY <2>1 DEF Sane, TypeOK, PagesNotEmpty
  <2>2. CASE \E w \in Workers : worker' = [worker EXCEPT ![w] = Idle]
    BY <2>2 DEF Sane, TypeOK, PagesNotEmpty, Worker, Idle
  <2>3. CASE worker' = [w \in Workers |-> Idle]
    BY <2>3 DEF PagesNotEmpty, Worker, Idle
  <2> QED  BY <2>1, <2>2, <2>3 DEF TimeOut, Restart, ProjectDirect, vars
<1>4. /\ index' \in [Aggregates -> Keys \union {NoKey}]
      /\ projected' \in SUBSET Ids
  BY SubjectAssumption
  DEF Sane, TypeOK, TimeOut, Restart, ProjectDirect, vars, storeVars
<1>7. waived' \in SUBSET Ids
  BY DEF Sane, TypeOK, TimeOut, Restart, ProjectDirect, vars
<1>5. /\ timeouts' \in 0..MaxTimeouts /\ failures' \in 0..MaxFailures
      /\ directs' \in 0..MaxDirects
  BY FaultsAssumption
  DEF Sane, TypeOK, TimeOut, Restart, ProjectDirect, vars, faultVars
<1>6. TypeOK'
  BY <1>1, <1>2, <1>3, <1>4, <1>5, <1>7 DEF Sane, TypeOK, StepIsGood
<1> QED  BY <1>2, <1>3, <1>6 DEF StaysSane, Sane, StepIsGood

LEMMA NextStaysSane ==
  ASSUME Sane, [Next]_vars
  PROVE  StaysSane
<1>1. CASE WebStep
  BY <1>1, WebStepStaysSane
<1>2. ASSUME NEW w \in Workers, NEW t \in Threads,
             FetchEvents(w, t) \/ ProjectPage(w, t)
      PROVE  StaysSane
  BY <1>2, FetchEventsStaysSane, ProjectPageStaysSane
<1>3. ASSUME NEW t \in Threads, EventsFetched(t) \/ AckServed(t)
      PROVE  StaysSane
  BY <1>3, EventsFetchedStaysSane, AckServedStaysSane
<1>4. ASSUME NEW w \in Workers, NEW n \in 0..MaxId, ProjectionFails(w, n)
      PROVE  StaysSane
  BY <1>4, ProjectionFailsStaysSane
<1> QED
  BY <1>1, <1>2, <1>3, <1>4, OtherStepStaysSane DEF Next, ConsumerStep

LEMMA AlwaysSane == Spec => []Sane
<1>1. Sane /\ [Next]_vars => Sane'
  BY NextStaysSane DEF StaysSane
<1> QED  BY SaneInit, <1>1, PTL DEF Spec

\* Every variable of the outbox and its consumer keeps its type: no offset,
\* page or read-model entry ever comes from an empty page.
THEOREM TypeCorrect == Spec => []TypeOK
<1>1. Sane => TypeOK
  BY DEF Sane
<1> QED  BY AlwaysSane, <1>1, PTL

\* The consumer's own note of its offset never runs ahead of the server's,
\* whatever times out, restarts or overlaps.
THEOREM MirrorBehindServer == Spec => []MirrorNeverAhead
<1>1. Sane => MirrorNeverAhead
  BY DEF Sane
<1> QED  BY AlwaysSane, <1>1, PTL

\* With the consumer's coroutines as clients, acks stay monotonic.
THEOREM ConsumerMonotonicAck == Spec => CheckpointNeverRegresses
<1>1. Sane /\ [Next]_vars => [checkpoint'.acked >= checkpoint.acked]_webVars
  BY NextStaysSane DEF StaysSane
<1> QED  BY AlwaysSane, <1>1, PTL DEF Spec, CheckpointNeverRegresses

-----------------------------------------------------------------------------
(***************************************************************************)
(* Nothing is skipped.  IInv is the inductive invariant; the lemmas below  *)
(* keep its four parts on the feed.  NothingSkipped alone is not           *)
(* inductive: it says nothing of the pages and acks that are under way.    *)
(***************************************************************************)
NothingLeft == SequenceIsAhead /\ CheckpointSettled /\ RequestsSettled /\ PagesComplete

LEMMA IInvIsSane == IInv <=> Sane /\ NothingLeft
BY DEF IInv, Sane, NothingLeft, PagesComplete, PageComplete, PagesNotEmpty

LEMMA NothingLeftInit == Init => NothingLeft
<1> SUFFICES ASSUME Init PROVE NothingLeft
  OBVIOUS
<1>1. Visible = {}
  BY DEF Init, WebInit, Visible
<1>2. SequenceIsAhead
  BY DEF Init, WebInit, SequenceIsAhead
<1>3. CheckpointSettled
  BY <1>1 DEF Init, WebInit, CheckpointSettled, Settled
<1>4. RequestsSettled
  BY DEF Init, WebInit, RequestsSettled, RequestSettled, NoRequest
<1>5. PagesComplete
  BY DEF Init, PagesComplete, PageComplete, Idle
<1> QED  BY <1>2, <1>3, <1>4, <1>5 DEF NothingLeft

\* What was settled or complete stays so while events are only applied.
LEMMA SettledStays ==
  ASSUME NEW n, Settled(n), Visible' = Visible, projected \subseteq projected',
         waived \subseteq waived'
  PROVE  Settled(n)'
BY DEF Settled

LEMMA CompleteStays ==
  ASSUME NEW S, Complete(S), Visible' = Visible, projected \subseteq projected',
         waived \subseteq waived'
  PROVE  Complete(S)'
BY DEF Complete

\* Requests that do not change stay settled.
LEMMA RequestStaysSettled ==
  ASSUME NothingLeft, NEW t \in Threads, request'[t] = request[t],
         Visible' = Visible, projected \subseteq projected',
         waived \subseteq waived',
         checkpoint'.acked = checkpoint.acked
  PROVE  RequestSettled(t)'
<1>1. RequestSettled(t)
  BY DEF NothingLeft, RequestsSettled
<1>2. (request[t].op = "page" => \/ LowerBound(request[t]) <= checkpoint.acked
                                 \/ request[t].mode = "replay" /\ request[t].arg # 0)'
  BY <1>1 DEF RequestSettled
<1>3. (request[t].op = "mark" => Complete(request[t].page))'
  BY <1>1 DEF RequestSettled, Complete
<1>4. (request[t].op = "ack" =>
         request[t].arg \in Visible /\ Settled(request[t].arg))'
  BY <1>1 DEF RequestSettled, Settled
<1> QED  BY <1>2, <1>3, <1>4 DEF RequestSettled

\* So do pages.
LEMMA PageStaysComplete ==
  ASSUME NothingLeft, NEW w \in Workers, worker'[w] = worker[w],
         Visible' = Visible, projected \subseteq projected',
         waived \subseteq waived'
  PROVE  PageComplete(w)'
BY DEF NothingLeft, PagesComplete, PageComplete, Complete

\* A step that publishes nothing and acknowledges nothing keeps the order if
\* the feed does, and each request and page does that the step changes.
LEMMA NothingLeftByParts ==
  ASSUME NothingLeft, SequenceIsAhead', Visible' = Visible, projected \subseteq projected',
         waived \subseteq waived',
         checkpoint'.acked = checkpoint.acked,
         \A t \in Threads : request'[t] = request[t] \/ RequestSettled(t)',
         \A w \in Workers : worker'[w] = worker[w] \/ PageComplete(w)'
  PROVE  NothingLeft'
<1>1. CheckpointSettled'
  BY DEF NothingLeft, CheckpointSettled, Settled
<1>2. RequestsSettled'
  BY RequestStaysSettled DEF RequestsSettled
<1>3. PagesComplete'
  BY PageStaysComplete DEF PagesComplete
<1> QED  BY <1>1, <1>2, <1>3 DEF NothingLeft

\* The feed stays in order when no id changes its status.
LEMMA FeedUnchanged ==
  ASSUME NothingLeft, UNCHANGED <<seq, status>>
  PROVE  Visible' = Visible /\ SequenceIsAhead'
BY DEF NothingLeft, SequenceIsAhead, Visible

LEMMA EmitEventLeavesNothing ==
  ASSUME IInv, NEW k \in Keys, EmitEvent(k), UNCHANGED <<worker, storeVars, waived>>
  PROVE  NothingLeft'
<1>1. /\ NothingLeft
      /\ seq \in Nat /\ seq + 1 \in Ids /\ status \in [Ids -> {"free", "open", "visible", "burnt"}]
      /\ status' = [status EXCEPT ![seq + 1] = "open"] /\ seq' = seq + 1
  BY BoundsAssumption
  DEF IInv, NothingLeft, TypeOK, WebTypeOK, EmitEvent, Ids
<1>2. status[seq + 1] = "free" /\ \A i \in Ids : i \in Nat
  BY <1>1, BoundsAssumption DEF NothingLeft, SequenceIsAhead, Ids
<1>3. Visible' = Visible
  BY <1>1, <1>2 DEF Visible
<1>4. SequenceIsAhead'
  BY <1>1, <1>2 DEF NothingLeft, SequenceIsAhead
<1> QED  BY <1>1, <1>3, <1>4, NothingLeftByParts DEF EmitEvent, storeVars

LEMMA AbortEventLeavesNothing ==
  ASSUME IInv, NEW i \in Ids, AbortEvent(i), UNCHANGED <<worker, storeVars, waived>>
  PROVE  NothingLeft'
<1>1. /\ NothingLeft /\ status[i] = "open" /\ seq' = seq
      /\ status \in [Ids -> {"free", "open", "visible", "burnt"}]
      /\ status' = [status EXCEPT ![i] = "burnt"]
  BY DEF IInv, NothingLeft, TypeOK, WebTypeOK, AbortEvent
<1>2. Visible' = Visible
  BY <1>1 DEF Visible
<1>3. SequenceIsAhead'
  <2>1. \A j \in Ids : j > seq => status[j] = "free"
    BY <1>1 DEF NothingLeft, SequenceIsAhead
  <2> QED  BY <1>1, <2>1 DEF SequenceIsAhead
<1> QED  BY <1>1, <1>2, <1>3, NothingLeftByParts DEF AbortEvent, storeVars

\* The one step that makes an event visible puts it behind the offset, the pages
\* and the acks under way, or waives it.
LEMMA CommitEventLeavesNothing ==
  ASSUME IInv, NEW i \in Ids, CommitEvent(i), UNCHANGED <<worker, storeVars>>,
         waived' = waived \union (IF Overtaken(i) THEN {i} ELSE {})
  PROVE  /\ NothingLeft' /\ Visible' = Visible \union {i} /\ i \notin Visible
         /\ Overtaken(i) => \E j \in Visible : j > i
         /\ ~Overtaken(i) => i > checkpoint.acked
<1>1. /\ NothingLeft /\ status[i] = "open" /\ seq' = seq
      /\ status \in [Ids -> {"free", "open", "visible", "burnt"}]
      /\ status' = [status EXCEPT ![i] = "visible"]
      /\ UNCHANGED <<checkpoint, request, worker, projected>>
  BY DEF IInv, NothingLeft, TypeOK, WebTypeOK, CommitEvent, storeVars
<1>2. i \in Nat /\ i > 0 /\ \A j \in Ids : j \in Nat
  BY BoundsAssumption DEF Ids
<1>3. /\ Visible' = Visible \union {i} /\ i \notin Visible /\ Visible \subseteq Ids
      /\ waived \subseteq waived' /\ (Overtaken(i) => i \in waived')
  BY <1>1 DEF Visible
<1>4. SequenceIsAhead'
  BY <1>1 DEF NothingLeft, SequenceIsAhead
<1>5. checkpoint.acked \in Visible \union {0} /\ Settled(checkpoint.acked)
  BY <1>1 DEF NothingLeft, CheckpointSettled
<1>6. ASSUME NEW n \in Visible \union {0}, Settled(n), i < n => Overtaken(i)
      PROVE  Settled(n)'
  <2> SUFFICES ASSUME NEW j \in Visible \union {i}, j <= n
               PROVE  j \in projected \union waived'
    BY <1>1, <1>3 DEF Settled
  <2>1. CASE j \in Visible
    BY <1>3, <1>6, <2>1 DEF Settled
  <2>2. CASE j = i
    <3>1. i < n
      BY <1>2, <1>3, <2>2
    <3> QED  BY <1>3, <1>6, <2>2, <3>1
  <2> QED  BY <2>1, <2>2
<1>7. ASSUME NEW S, Complete(S), \A n \in S : i < n => Overtaken(i)
      PROVE  Complete(S)'
  <2>1. S \subseteq Visible
    BY <1>7 DEF Complete
  <2>2. ASSUME NEW n \in S, NEW j \in Visible', j <= n
        PROVE  j \in S \union projected' \union waived'
    <3>1. CASE j \in Visible
      BY <1>1, <1>3, <1>7, <2>2, <3>1 DEF Complete
    <3>2. CASE j = i
      <4>1. i < n
        BY <1>2, <1>3, <2>1, <2>2, <3>2
      <4> QED  BY <1>3, <1>7, <3>2, <4>1
    <3> QED  BY <1>3, <2>2, <3>1, <3>2
  <2> QED  BY <1>3, <2>1, <2>2 DEF Complete
<1>8. CheckpointSettled'
  <2>1. i < checkpoint.acked => Overtaken(i)
    BY DEF Overtaken
  <2>2. Settled(checkpoint.acked)'
    BY <1>1, <1>5, <1>6, <2>1 DEF Settled
  <2> QED  BY <1>1, <1>3, <1>5, <2>2 DEF CheckpointSettled
<1>9. ASSUME NEW t \in Threads PROVE RequestSettled(t)'
  <2>1. RequestSettled(t)
    BY <1>1 DEF NothingLeft, RequestsSettled
  <2>2. (request[t].op = "page" => \/ LowerBound(request[t]) <= checkpoint.acked
                                   \/ request[t].mode = "replay" /\ request[t].arg # 0)'
    BY <1>1, <2>1 DEF RequestSettled
  <2>3. request[t].op = "mark" => \A n \in request[t].page : i < n => Overtaken(i)
    BY DEF Overtaken
  <2>4. (request[t].op = "mark" => Complete(request[t].page))'
    BY <1>1, <1>7, <2>1, <2>3 DEF RequestSettled, Complete
  <2>5. request[t].op = "ack" => (i < request[t].arg => Overtaken(i))
    BY DEF Overtaken
  <2>6. (request[t].op = "ack" =>
           request[t].arg \in Visible /\ Settled(request[t].arg))'
    BY <1>1, <1>3, <1>6, <2>1, <2>5 DEF RequestSettled, Settled
  <2> QED  BY <2>2, <2>4, <2>6 DEF RequestSettled
<1>10. ASSUME NEW w \in Workers PROVE PageComplete(w)'
  <2>1. worker[w].pc = "projecting" =>
          \A n \in worker[w].page : i < n => Overtaken(i)
    BY DEF Overtaken
  <2> QED
    BY <1>1, <1>7, <2>1 DEF NothingLeft, PagesComplete, PageComplete, Complete
<1>11. NothingLeft'
  BY <1>4, <1>8, <1>9, <1>10 DEF NothingLeft, RequestsSettled, PagesComplete
<1>12. ASSUME Overtaken(i) PROVE \E j \in Visible : j > i
  <2>1. CASE i < checkpoint.acked
    BY <1>2, <1>5, <2>1
  <2>2. ASSUME NEW t \in Threads, request[t].op = "ack", i < request[t].arg
        PROVE  \E j \in Visible : j > i
    <3>1. request[t].arg \in Visible
      BY <1>1, <2>2 DEF NothingLeft, RequestsSettled, RequestSettled
    <3> QED  BY <1>2, <1>3, <2>2, <3>1
  <2>3. ASSUME NEW t \in Threads, request[t].op = "mark",
               NEW n \in request[t].page, i < n
        PROVE  \E j \in Visible : j > i
    <3>1. n \in Visible
      BY <1>1, <2>3 DEF NothingLeft, RequestsSettled, RequestSettled, Complete
    <3> QED  BY <1>2, <1>3, <2>3, <3>1
  <2>4. ASSUME NEW w \in Workers, worker[w].pc = "projecting",
               NEW n \in worker[w].page, i < n
        PROVE  \E j \in Visible : j > i
    <3>1. n \in Visible
      BY <1>1, <2>4 DEF NothingLeft, PagesComplete, PageComplete, Complete
    <3> QED  BY <1>2, <1>3, <2>4, <3>1
  <2> QED  BY <1>12, <2>1, <2>2, <2>3, <2>4 DEF Overtaken
<1>13. ~Overtaken(i) => i > checkpoint.acked
  <2>1. i \in Nat /\ i # 0
    BY <1>2
  <2>2. checkpoint.acked \in Nat /\ checkpoint.acked # i
    <3>1. CASE checkpoint.acked \in Visible
      BY <1>2, <1>3, <3>1
    <3>2. CASE checkpoint.acked = 0
      BY <2>1, <3>2
    <3> QED  BY <1>5, <3>1, <3>2 DEF Settled
  <2>3. ~Overtaken(i) => ~(i < checkpoint.acked)
    BY DEF Overtaken
  <2> QED  BY <2>1, <2>2, <2>3
<1> QED  BY <1>3, <1>11, <1>12, <1>13

\* A page that is read is complete: what lies above the bound is in it; below the
\* bound, what lies behind the checkpoint was applied, and a replay waives the rest.
LEMMA PageReadLeavesNothing ==
  ASSUME IInv, NEW t \in Threads, PageRead(t)
  PROVE  NothingLeft'
<1> DEFINE low == LowerBound(request[t])
           S == DeliveryPage(low)
<1>1. /\ NothingLeft /\ request \in [Threads -> Request] /\ request[t] \in Request
      /\ checkpoint.acked \in 0..MaxId /\ request[t].op = "page"
      /\ UNCHANGED <<seq, status, checkpoint, worker, projected>>
      /\ waived' = waived \union LeftOut(request[t])
  <2>1. NothingLeft
    BY DEF IInv, NothingLeft
  <2>2. request \in [Threads -> Request] /\ checkpoint.acked \in 0..MaxId
    BY DEF IInv, TypeOK, WebTypeOK
  <2> QED  BY <2>1, <2>2 DEF PageRead, ReadPage, feedVars, storeVars
<1>2. /\ low \in 0..MaxId
      /\ low <= checkpoint.acked \/ (request[t].mode = "replay" /\ request[t].arg # 0)
  BY <1>1, LowerBoundIsOffset DEF NothingLeft, RequestsSettled, RequestSettled
<1>3. Visible' = Visible /\ SequenceIsAhead'
  BY <1>1, FeedUnchanged
<1>4. ASSUME NEW n \in S, NEW i \in Visible, i <= n
      PROVE  i \in S \union projected \union waived'
  <2>1. low \in Nat /\ checkpoint.acked \in Nat /\ i \in Nat
    BY <1>1, <1>2, BoundsAssumption DEF Visible, Ids
  <2>2. CASE low < i
    <3> HIDE DEF low
    <3> QED  BY <1>4, <2>1, <2>2, PageHasNoHoles
  <2>3. CASE i <= checkpoint.acked
    BY <1>1, <2>3 DEF NothingLeft, CheckpointSettled, Settled
  <2>4. CASE ~(low < i) /\ ~(i <= checkpoint.acked)
    <3>1. request[t].mode = "replay" /\ request[t].arg # 0
      <4> HIDE DEF low
      <4> QED  BY <1>2, <2>1, <2>4
    <3>2. request[t].arg \in Nat /\ low = request[t].arg - 1
      BY <1>1, <3>1, BoundsAssumption DEF LowerBound, Request
    <3>3. i < request[t].arg /\ checkpoint.acked < i
      <4> HIDE DEF low
      <4> QED  BY <2>1, <2>4, <3>2
    <3>4. DeliveryPage(LowerBound(request[t])) # {}
      BY <1>4
    <3>5. i \in LeftOut(request[t])
      BY <3>1, <3>3, <3>4 DEF LeftOut
    <3> QED  BY <1>1, <3>5
  <2> QED  BY <2>2, <2>3, <2>4
<1>5. RequestSettled(t)'
  <2>1. request'[t].op = "mark" /\ request'[t].page = S
    BY <1>1 DEF PageRead, ReadPage, Request
  <2>2. S \subseteq Visible
    BY DEF DeliveryPage
  <2>3. Complete(request[t].page)'
    <3> HIDE DEF S
    <3> QED  BY <1>1, <1>3, <1>4, <2>1, <2>2 DEF Complete
  <2> QED  BY <2>1, <2>3 DEF RequestSettled
<1>6. \A u \in Threads : request'[u] = request[u] \/ RequestSettled(u)'
  BY <1>1, <1>5 DEF PageRead, ReadPage
<1> QED  BY <1>1, <1>3, <1>6, NothingLeftByParts

\* Polls start at the checkpoint, replays name their first offset.
LEMMA FetchEventsLeavesNothing ==
  ASSUME IInv, NEW w \in Workers, NEW t \in Threads, FetchEvents(w, t)
  PROVE  NothingLeft'
<1>1. /\ NothingLeft /\ request \in [Threads -> Request]
      /\ worker \in [Workers -> Worker] /\ checkpoint.acked \in 0..MaxId
      /\ UNCHANGED <<seq, status, checkpoint, projected, waived>>
  BY DEF IInv, NothingLeft, TypeOK, WebTypeOK, FetchEvents, ListEvents, feedVars, storeVars
<1>2. Visible' = Visible /\ SequenceIsAhead'
  BY <1>1, FeedUnchanged
<1>3. RequestSettled(t)'
  <2>1. CASE ListEvents(t, "poll", 0)
    <3>1. /\ request'[t].op = "page" /\ request'[t].mode = "poll"
          /\ request'[t].acked = checkpoint.acked /\ request'[t].arg = 0
      BY <1>1, <2>1 DEF ListEvents
    <3>2. Max({checkpoint.acked, 0}) \in {checkpoint.acked, 0}
      <4>1. {checkpoint.acked, 0} \in SUBSET (0..MaxId) /\ MaxId \in Nat
        BY <1>1, BoundsAssumption
      <4> QED  BY <4>1, MaxIsLargest
    <3>3. LowerBound(request'[t]) <= checkpoint.acked
      BY <1>1, <3>1, <3>2, BoundsAssumption DEF LowerBound
    <3> QED  BY <1>1, <3>1, <3>3 DEF RequestSettled
  <2>2. ASSUME NEW n \in ReplayFrom, ListEvents(t, "replay", n)
        PROVE  RequestSettled(t)'
    <3>1. /\ request'[t].op = "page" /\ request'[t].mode = "replay"
          /\ request'[t].arg = n
      BY <1>1, <2>2 DEF ListEvents
    <3>2. n # 0
      BY <2>2, ReplayAssumption, BoundsAssumption DEF Ids
    <3> QED  BY <3>1, <3>2 DEF RequestSettled
  <2> QED  BY <2>1, <2>2 DEF FetchEvents
<1>4. \A u \in Threads : request'[u] = request[u] \/ RequestSettled(u)'
  BY <1>1, <1>3 DEF FetchEvents, ListEvents
<1>5. \A v \in Workers : worker'[v] = worker[v] \/ PageComplete(v)'
  BY <1>1 DEF FetchEvents, PageComplete
<1> QED  BY <1>1, <1>2, <1>4, <1>5, NothingLeftByParts

\* The page a coroutine receives is the one its request has read.
LEMMA EventsFetchedLeavesNothing ==
  ASSUME IInv, NEW t \in Threads, EventsFetched(t)
  PROVE  NothingLeft'
<1>1. /\ NothingLeft /\ request \in [Threads -> Request] /\ request[t].op = "mark"
      /\ worker \in [Workers -> Worker]
      /\ checkpoint \in [acked : 0..MaxId, seen : 0..MaxId]
      /\ UNCHANGED <<seq, status, projected, waived>>
      /\ request' = [request EXCEPT ![t] = NoRequest]
  BY DEF IInv, NothingLeft, TypeOK, WebTypeOK, EventsFetched, MarkPolled, feedVars, storeVars
<1>2. checkpoint'.acked = checkpoint.acked
  BY <1>1 DEF EventsFetched, MarkPolled
<1>3. Visible' = Visible /\ SequenceIsAhead'
  BY <1>1, FeedUnchanged
<1>4. Complete(request[t].page)
  BY <1>1 DEF NothingLeft, RequestsSettled, RequestSettled
<1>5. \A u \in Threads : request'[u] = request[u] \/ RequestSettled(u)'
  BY <1>1 DEF RequestSettled, NoRequest
<1>6. ASSUME NEW v \in Workers, worker'[v] # worker[v] PROVE PageComplete(v)'
  <2>1. CASE request[t].page = {}
    <3>1. worker'[v] = Idle
      BY <1>6, <2>1 DEF EventsFetched
    <3> QED  BY <3>1 DEF PageComplete, Idle
  <2>2. CASE request[t].page # {}
    <3>1. worker'[v].page = request[t].page
      BY <1>6, <2>2 DEF EventsFetched
    <3>2. Complete(worker[v].page)'
      BY <1>1, <1>3, <1>4, <3>1 DEF Complete
    <3> QED  BY <2>2, <3>1, <3>2 DEF PageComplete
  <2> QED  BY <2>1, <2>2
<1> QED  BY <1>1, <1>2, <1>3, <1>5, <1>6, NothingLeftByParts

\* Once its page is applied, the last event of a complete page is settled:
\* the ack that is sent skips nothing.
LEMMA ProjectPageLeavesNothing ==
  ASSUME IInv, NEW w \in Workers, NEW t \in Threads, ProjectPage(w, t)
  PROVE  NothingLeft'
<1> DEFINE S == worker[w].page
           n == Max(S)
<1>1. /\ NothingLeft /\ request \in [Threads -> Request]
      /\ worker \in [Workers -> Worker] /\ worker[w].pc = "projecting"
      /\ UNCHANGED <<seq, status, checkpoint, waived>> /\ projected' = projected \union S
      /\ request' = [request EXCEPT ![t] =
                       [op |-> "ack", mode |-> "poll", arg |-> n, acked |-> 0,
                        seen |-> 0, page |-> {}]]
  BY DEF IInv, NothingLeft, TypeOK, WebTypeOK, ProjectPage, ProjectEvents, PostAck, feedVars
<1>2. Complete(S) /\ S # {}
  BY <1>1 DEF NothingLeft, PagesComplete, PageComplete
<1>3. n \in S
  <2>1. S \in SUBSET (0..MaxId)
    BY <1>2, BoundsAssumption DEF Complete, Visible, Ids
  <2> QED  BY <1>2, <2>1, MaxIsLargest, BoundsAssumption
<1>4. Visible' = Visible /\ SequenceIsAhead'
  BY <1>1, FeedUnchanged
<1>5. RequestSettled(t)'
  <2> HIDE DEF S, n
  <2>1. request'[t].op = "ack" /\ request'[t].arg = n
    BY <1>1
  <2>2. n \in Visible' /\ \A i \in Visible' : i <= n => i \in projected' \union waived'
    BY <1>1, <1>2, <1>3, <1>4 DEF Complete
  <2> QED  BY <2>1, <2>2 DEF RequestSettled, Settled
<1>6. \A u \in Threads : request'[u] = request[u] \/ RequestSettled(u)'
  BY <1>1, <1>5
<1>7. \A v \in Workers : worker'[v] = worker[v] \/ PageComplete(v)'
  BY <1>1 DEF ProjectPage, PageComplete
<1> QED  BY <1>1, <1>4, <1>6, <1>7, NothingLeftByParts

\* A projection that stops half-way acknowledges nothing.
LEMMA ProjectionFailsLeavesNothing ==
  ASSUME IInv, NEW w \in Workers, NEW n \in 0..MaxId, ProjectionFails(w, n)
  PROVE  NothingLeft'
<1>1. /\ NothingLeft /\ worker \in [Workers -> Worker]
      /\ UNCHANGED <<seq, status, checkpoint, request>>
      /\ projected \subseteq projected' /\ UNCHANGED waived
  BY DEF IInv, NothingLeft, TypeOK, ProjectionFails, ProjectEvents, webVars
<1>2. Visible' = Visible /\ SequenceIsAhead'
  BY <1>1, FeedUnchanged
<1>3. \A v \in Workers : worker'[v] = worker[v] \/ PageComplete(v)'
  BY <1>1 DEF ProjectionFails, PageComplete, Idle
<1> QED  BY <1>1, <1>2, <1>3, NothingLeftByParts

\* Only settled offsets are on their way to the server.
LEMMA AckServedLeavesNothing ==
  ASSUME IInv, NEW t \in Threads, AckServed(t)
  PROVE  /\ NothingLeft' /\ Visible' = Visible /\ UNCHANGED <<projected, waived>>
         /\ \/ checkpoint'.acked = checkpoint.acked
            \/ /\ checkpoint'.acked \in Visible
               /\ checkpoint'.acked > checkpoint.acked
               /\ Settled(checkpoint'.acked)
<1> DEFINE n == request[t].arg
<1>1. /\ NothingLeft /\ request \in [Threads -> Request] /\ request[t].op = "ack"
      /\ request[t] \in Request /\ worker \in [Workers -> Worker]
      /\ checkpoint.acked \in 0..MaxId
      /\ UNCHANGED <<seq, status, projected, waived>>
      /\ request' = [request EXCEPT ![t] = NoRequest]
  BY DEF IInv, NothingLeft, TypeOK, WebTypeOK, AckServed, AckEvent, feedVars
<1>2. Visible' = Visible /\ SequenceIsAhead'
  BY <1>1, FeedUnchanged
<1>3. n \in Visible /\ Settled(n) /\ n \in 0..MaxId
  BY <1>1 DEF NothingLeft, RequestsSettled, RequestSettled, Request
<1>4. \/ checkpoint'.acked = checkpoint.acked
      \/ checkpoint'.acked = n /\ n > checkpoint.acked
  <2>1. CASE AckOutcome(n) = "advanced"
    <3>1. ~ (n <= checkpoint.acked)
      BY <2>1 DEF AckOutcome
    <3> QED  BY <1>1, <1>3, <2>1, <3>1, BoundsAssumption DEF AckServed, AckEvent
  <2>2. CASE AckOutcome(n) # "advanced"
    BY <2>2 DEF AckServed, AckEvent
  <2> QED  BY <2>1, <2>2
<1>5. checkpoint'.acked >= checkpoint.acked /\ checkpoint'.acked \in Nat
  BY <1>1, <1>3, <1>4, BoundsAssumption
<1>6. CheckpointSettled'
  <2>1. checkpoint'.acked \in Visible' \union {0}
    BY <1>1, <1>2, <1>3, <1>4 DEF NothingLeft, CheckpointSettled
  <2>2. \A i \in Visible' : i <= checkpoint'.acked => i \in projected' \union waived'
    BY <1>1, <1>2, <1>3, <1>4 DEF NothingLeft, CheckpointSettled, Settled
  <2> QED  BY <2>1, <2>2 DEF CheckpointSettled, Settled
<1>7. ASSUME NEW u \in Threads PROVE RequestSettled(u)'
  <2>1. CASE request'[u] = NoRequest
    BY <2>1 DEF RequestSettled, NoRequest
  <2>2. CASE request'[u] = request[u]
    <3>1. RequestSettled(u) /\ request[u] \in Request
      BY <1>1 DEF NothingLeft, RequestsSettled
    <3>2. (request[u].op = "page" =>
             \/ LowerBound(request[u]) <= checkpoint.acked
             \/ request[u].mode = "replay" /\ request[u].arg # 0)'
      BY <1>1, <1>5, <2>2, <3>1, LowerBoundIsOffset, BoundsAssumption
      DEF RequestSettled
    <3>3. (request[u].op = "mark" => Complete(request[u].page))'
      BY <1>1, <1>2, <2>2, <3>1 DEF RequestSettled, Complete
    <3>4. (request[u].op = "ack" =>
             request[u].arg \in Visible /\ Settled(request[u].arg))'
      BY <1>1, <1>2, <2>2, <3>1 DEF RequestSettled, Settled
    <3> QED  BY <3>2, <3>3, <3>4 DEF RequestSettled
  <2> QED  BY <1>1, <2>1, <2>2
<1>8. ASSUME NEW v \in Workers PROVE PageComplete(v)'
  <2>1. CASE worker'[v] = Idle
    BY <2>1 DEF PageComplete, Idle
  <2>2. CASE worker'[v] = worker[v]
    BY <1>1, <1>2, <2>2, PageStaysComplete
  <2> QED  BY <2>1, <2>2 DEF AckServed
<1>9. NothingLeft'
  BY <1>2, <1>6, <1>7, <1>8 DEF NothingLeft, RequestsSettled, PagesComplete
<1> QED  BY <1>1, <1>2, <1>3, <1>4, <1>9

\* Timeouts, restarts and direct projections leave the feed alone.
LEMMA OtherStepLeavesNothing ==
  ASSUME IInv,
         \/ \E w \in Workers : TimeOut(w)
         \/ Restart
         \/ \E k \in Keys : ProjectDirect(k)
         \/ UNCHANGED vars
  PROVE  NothingLeft' /\ UNCHANGED <<webVars, projected, waived>>
<1>1. /\ NothingLeft /\ worker \in [Workers -> Worker]
      /\ UNCHANGED <<webVars, projected, waived>>
  BY DEF IInv, NothingLeft, TypeOK, TimeOut, Restart, ProjectDirect, vars, storeVars
<1>2. UNCHANGED <<seq, status, checkpoint, request>>
  BY <1>1 DEF webVars
<1>3. Visible' = Visible /\ SequenceIsAhead'
  BY <1>1, <1>2, FeedUnchanged
<1>4. \A v \in Workers : worker'[v] = worker[v] \/ PageComplete(v)'
  BY <1>1 DEF TimeOut, Restart, ProjectDirect, vars, PageComplete, Idle
<1> QED  BY <1>1, <1>2, <1>3, <1>4, NothingLeftByParts

LEMMA NextLeavesNothing ==
  ASSUME IInv, [Next]_vars
  PROVE  NothingLeft'
<1>1. CASE WebStep
  BY <1>1, EmitEventLeavesNothing, CommitEventLeavesNothing,
     AbortEventLeavesNothing, PageReadLeavesNothing
  DEF WebStep, EventEmitted, EventSettled
<1>2. ASSUME NEW w \in Workers, NEW t \in Threads,
             FetchEvents(w, t) \/ ProjectPage(w, t)
      PROVE  NothingLeft'
  BY <1>2, FetchEventsLeavesNothing, ProjectPageLeavesNothing
<1>3. ASSUME NEW t \in Threads, EventsFetched(t) \/ AckServed(t)
      PROVE  NothingLeft'
  BY <1>3, EventsFetchedLeavesNothing, AckServedLeavesNothing
<1>4. ASSUME NEW w \in Workers, NEW n \in 0..MaxId, ProjectionFails(w, n)
      PROVE  NothingLeft'
  BY <1>4, ProjectionFailsLeavesNothing
<1> QED
  BY <1>1, <1>2, <1>3, <1>4, OtherStepLeavesNothing DEF Next, ConsumerStep

\* The inductive invariant: the checkpoint, the pages and the acks under way leave
\* nothing behind.
THEOREM AlwaysSettled == Spec => []IInv
<1>1. Init => IInv
  BY SaneInit, NothingLeftInit, IInvIsSane
<1>2. IInv /\ [Next]_vars => IInv'
  <2> SUFFICES ASSUME IInv, [Next]_vars PROVE IInv'
    OBVIOUS
  <2>1. Sane'
    BY IInvIsSane, NextStaysSane DEF StaysSane
  <2>2. NothingLeft'
    BY NextLeavesNothing
  <2> QED  BY <2>1, <2>2 DEF IInv, Sane, NothingLeft
<1> QED  BY <1>1, <1>2, PTL DEF Spec

\* No event the consumer could read is left behind an acknowledged offset without
\* having been applied, but those that committed below an offset already handed out
\* and those a replay was asked to leave out.
THEOREM NothingIsSkipped == Spec => []NothingSkipped
<1>1. IInv => NothingSkipped
  BY DEF IInv, CheckpointSettled, Settled, NothingSkipped
<1> QED  BY AlwaysSettled, <1>1, PTL

-----------------------------------------------------------------------------
(***************************************************************************)
(* The outbox and its consumer implement AtLeastOnce: one lemma for each   *)
(* kind of step that the contract sees.                                    *)
(***************************************************************************)
LEMMA WebStepDelivers ==
  ASSUME IInv, WebStep
  PROVE  [Contract!Next]_(Contract!vars)
<1>1. UNCHANGED projected
  BY DEF WebStep, EventEmitted, EventSettled, PageRead, storeVars
<1>2. ASSUME NEW i \in Ids, CommitEvent(i), EventSettled(i) PROVE Contract!Publish
  <2>1. /\ UNCHANGED <<worker, storeVars, checkpoint>>
        /\ waived' = waived \union (IF Overtaken(i) THEN {i} ELSE {})
    <3>1. status \in [Ids -> {"free", "open", "visible", "burnt"}]
      BY DEF IInv, TypeOK, WebTypeOK
    <3>2. ~AbortEvent(i)
      BY <1>2, <3>1 DEF CommitEvent, AbortEvent
    <3> QED  BY <1>2, <3>2 DEF EventSettled, CommitEvent
  <2>2. /\ Visible' = Visible \union {i} /\ i \notin Visible
        /\ Overtaken(i) => \E j \in Visible : j > i
        /\ ~Overtaken(i) => i > checkpoint.acked
    BY <1>2, <2>1, CommitEventLeavesNothing
  <2>3. \/ i > checkpoint.acked /\ UNCHANGED waived
        \/ (\E j \in Visible : j > i) /\ waived' = waived \union {i}
    BY <2>1, <2>2
  <2> QED  BY <1>1, <2>1, <2>2, <2>3 DEF Contract!Publish
<1>3. ASSUME NEW i \in Ids, AbortEvent(i), EventSettled(i)
      PROVE  UNCHANGED Contract!vars
  <2>1. Visible' = Visible
    BY <1>3 DEF IInv, TypeOK, WebTypeOK, AbortEvent, Visible
  <2>2. UNCHANGED <<waived, checkpoint>>
    <3>1. status[i] = "open" /\ status \in [Ids -> {"free", "open", "visible", "burnt"}]
      BY <1>3 DEF AbortEvent, IInv, TypeOK, WebTypeOK
    <3>2. ~CommitEvent(i)
      BY <1>3, <3>1 DEF AbortEvent, CommitEvent
    <3> QED  BY <1>3, <3>2 DEF EventSettled, AbortEvent
  <2> QED  BY <1>1, <2>1, <2>2 DEF Contract!vars
<1>4. ASSUME NEW k \in Keys, EventEmitted(k) PROVE UNCHANGED Contract!vars
  <2>1. /\ seq \in Nat /\ seq + 1 \in Ids
        /\ status \in [Ids -> {"free", "open", "visible", "burnt"}]
        /\ status' = [status EXCEPT ![seq + 1] = "open"]
        /\ UNCHANGED <<waived, checkpoint>>
    BY <1>4, BoundsAssumption DEF IInv, TypeOK, WebTypeOK, EventEmitted, EmitEvent, Ids
  <2>2. status[seq + 1] = "free"
    BY <2>1 DEF IInv, SequenceIsAhead
  <2>3. Visible' = Visible
    BY <2>1, <2>2 DEF Visible
  <2> QED  BY <1>1, <2>1, <2>3 DEF Contract!vars
<1>5. ASSUME NEW t \in Threads, PageRead(t)
      PROVE  [Contract!Next]_(Contract!vars)
  <2> DEFINE r == request[t]
  <2>1. /\ r \in Request /\ checkpoint.acked \in Nat /\ Visible' = Visible
        /\ UNCHANGED checkpoint /\ waived' = waived \union LeftOut(r)
    BY <1>5, BoundsAssumption
    DEF IInv, TypeOK, WebTypeOK, PageRead, ReadPage, feedVars, Visible
  <2>2. CASE LeftOut(r) = {}
    BY <1>1, <2>1, <2>2 DEF Contract!vars
  <2>3. CASE LeftOut(r) # {}
    <3>1. /\ r.mode = "replay"
          /\ LeftOut(r) = {i \in Visible : checkpoint.acked < i /\ i < r.arg}
      BY <2>3 DEF LeftOut
    <3>2. PICK n : n \in DeliveryPage(LowerBound(r))
      BY <2>3 DEF LeftOut
    <3>3. PICK i \in Visible : checkpoint.acked < i /\ i < r.arg
      BY <2>3, <3>1
    <3>4. i \in Nat /\ r.arg \in Nat /\ r.arg # 0 /\ r.arg \in Ids
      BY <2>1, <3>3, BoundsAssumption DEF Visible, Ids, Request
    <3>5. n \in Visible /\ n \in Nat /\ n > r.arg - 1
      BY <3>1, <3>2, <3>4, BoundsAssumption DEF DeliveryPage, LowerBound, Visible, Ids
    <3>6. n > checkpoint.acked /\ n >= r.arg
      BY <2>1, <3>3, <3>4, <3>5
    <3> QED
      BY <1>1, <2>1, <3>1, <3>4, <3>5, <3>6 DEF Contract!Next, Contract!Jump
  <2> QED  BY <2>2, <2>3
<1> QED
  BY <1>2, <1>3, <1>4, <1>5 DEF WebStep, EventSettled, Contract!Next

\* Applying a part of a page applies visible events.
LEMMA ProjectionDelivers ==
  ASSUME IInv, NEW w \in Workers, worker[w].pc = "projecting",
         NEW S, S \subseteq worker[w].page, ProjectEvents(S),
         UNCHANGED <<status, checkpoint, waived>>
  PROVE  Contract!Process
<1>1. S \in SUBSET Visible
  BY DEF IInv, PagesComplete, PageComplete, Complete
<1>2. projected' = projected \union S /\ Visible' = Visible
  BY DEF ProjectEvents, Visible
<1> QED  BY <1>1, <1>2 DEF Contract!Process

\* An ack that is served acknowledges a settled offset, or changes nothing.
LEMMA AckDelivers ==
  ASSUME IInv, NEW t \in Threads, AckServed(t)
  PROVE  [Contract!Next]_(Contract!vars)
<1>1. Visible' = Visible /\ UNCHANGED <<projected, waived>>
  BY AckServedLeavesNothing
<1>2. CASE checkpoint'.acked = checkpoint.acked
  BY <1>1, <1>2 DEF Contract!vars
<1>3. CASE checkpoint'.acked # checkpoint.acked
  <2>1. /\ checkpoint'.acked \in Visible
        /\ checkpoint'.acked > checkpoint.acked
        /\ Settled(checkpoint'.acked)
    BY <1>3, AckServedLeavesNothing
  <2> QED  BY <1>1, <2>1 DEF Contract!Next, Contract!Acknowledge, Settled
<1> QED  BY <1>2, <1>3

\* The delivery contract: every behaviour of the outbox and its consumer is a
\* behaviour of AtLeastOnce.
THEOREM ImplementsAtLeastOnce == Spec => DeliversAtLeastOnce
<1>1. Init => Contract!Init
  BY DEF Init, WebInit, Visible, Contract!Init
<1>2. IInv /\ [Next]_vars => [Contract!Next]_(Contract!vars)
  <2> SUFFICES ASSUME IInv, [Next]_vars PROVE [Contract!Next]_(Contract!vars)
    OBVIOUS
  <2>1. CASE WebStep
    BY <2>1, WebStepDelivers
  <2>2. ASSUME NEW w \in Workers, NEW t \in Threads, FetchEvents(w, t)
        PROVE  UNCHANGED Contract!vars
    BY <2>2 DEF FetchEvents, ListEvents, feedVars, storeVars, Visible, Contract!vars
  <2>3. ASSUME NEW w \in Workers, NEW t \in Threads, ProjectPage(w, t)
        PROVE  Contract!Process
    BY <2>3, ProjectionDelivers DEF ProjectPage, PostAck, feedVars
  <2>4. ASSUME NEW t \in Threads, EventsFetched(t)
        PROVE  UNCHANGED Contract!vars
    <3>1. checkpoint'.acked = checkpoint.acked
      BY <2>4 DEF IInv, TypeOK, WebTypeOK, EventsFetched, MarkPolled
    <3> QED  BY <2>4, <3>1
        DEF EventsFetched, MarkPolled, feedVars, storeVars, Visible, Contract!vars
  <2>5. ASSUME NEW w \in Workers, NEW n \in 0..MaxId, ProjectionFails(w, n)
        PROVE  Contract!Process
    <3>1. {i \in worker[w].page : i <= n} \subseteq worker[w].page
      OBVIOUS
    <3> QED  BY <2>5, <3>1, ProjectionDelivers DEF ProjectionFails, webVars
  <2>6. ASSUME \/ \E w \in Workers : TimeOut(w)
               \/ Restart
               \/ \E k \in Keys : ProjectDirect(k)
               \/ UNCHANGED vars
        PROVE  UNCHANGED Contract!vars
    BY <2>6, OtherStepLeavesNothing DEF webVars, Visible, Contract!vars
  <2> QED
    BY <2>1, <2>2, <2>3, <2>4, <2>5, <2>6, AckDelivers
    DEF Next, ConsumerStep, Contract!Next
<1> QED
  BY <1>1, <1>2, AlwaysSettled, PTL DEF Spec, DeliversAtLeastOnce, Contract!Spec

-----------------------------------------------------------------------------
(***************************************************************************)
(* The snapshot.                                                           *)
(***************************************************************************)
\* What is visible was drawn, so a watermark is
\* the id of a drawn event, or 0.
LEMMA WatermarkWasDrawn ==
  ASSUME SnapshotInv
  PROVE  /\ Max(Visible \union {0}) \in 0..MaxId
         /\ Max(Visible \union {0}) <= seq
<1> DEFINE S == Visible \union {0}
<1>1. MaxId \in Nat /\ seq \in 0..MaxId
  BY BoundsAssumption DEF SnapshotInv, SnapshotTypeOK, WebTypeOK
<1>2. \A i \in Visible : i \in 0..MaxId /\ i <= seq
  BY <1>1 DEF SnapshotInv, Visible, Drawn, Ids
<1>3. S \in SUBSET (0..MaxId) /\ S # {}
  BY <1>1, <1>2
<1>4. Max(S) \in S
  BY <1>1, <1>3, MaxIsLargest
<1> QED  BY <1>1, <1>2, <1>4

\* A row only gets newer, and nothing else moves: every step of a handler that
\* writes a row.
LEMMA WriteIsCovered ==
  ASSUME SnapshotInv, NEW h \in Handlers, NEW a \in Rows,
         NEW state \in {"listed", "hidden", "gone"}, Write(h, a, state)
  PROVE  SnapshotInv'
<1> USE ChangesAssumption, KeysAssumption DEF Changes
<1>1. row[a] \in Row /\ row[a].version \in 0..MaxWrites /\ row[a].version + 1 \in 1..MaxWrites
  BY DEF SnapshotInv, SnapshotTypeOK, Row, Write
<1>2. [version |-> row[a].version + 1, state |-> state] \in Row
  BY <1>1 DEF Row
<1>3. row' \in [Rows -> Row]
  BY <1>2 DEF SnapshotInv, SnapshotTypeOK, Write
<1>4. <<a, row[a].version + 1>> \in Changes
  BY <1>1
<1>5. SnapshotTypeOK'
  BY <1>3, <1>4 DEF SnapshotInv, SnapshotTypeOK, WebTypeOK, Write, webVars, Request
<1>6. \A b \in Rows : row'[b].version \in Nat /\ row[b].version \in Nat
                      /\ row'[b].version >= row[b].version
  <2> TAKE b \in Rows
  <2>1. row[b].version \in 0..MaxWrites
    BY DEF SnapshotInv, SnapshotTypeOK, Row
  <2>2. row \in [Rows -> Row]
    BY DEF SnapshotInv, SnapshotTypeOK
  <2>3. CASE a = b
    BY <1>1, <2>1, <2>2, <2>3 DEF Write
  <2>4. CASE a # b
    BY <2>1, <2>2, <2>4 DEF Write
  <2> QED  BY <2>3, <2>4
<1>7. ASSUME NEW g \in Handlers, pending'[g] # NoKey
      PROVE  row'[pending'[g][1]].version >= pending'[g][2]
  <2>1. CASE g = h
    <3>1. pending'[g] = <<a, row[a].version + 1>>
      BY <2>1 DEF SnapshotInv, SnapshotTypeOK, Write
    <3>2. row'[a].version = row[a].version + 1
      BY DEF SnapshotInv, SnapshotTypeOK, Write
    <3> QED  BY <1>1, <3>1, <3>2
  <2>2. CASE g # h
    <3>1. pending'[g] = pending[g]
      BY <2>2 DEF SnapshotInv, SnapshotTypeOK, Write
    <3>2. pending[g] \in Changes
      BY <1>7, <3>1 DEF SnapshotInv, SnapshotTypeOK
    <3>3. pending[g][1] \in Rows /\ pending[g][2] \in Nat
      BY <3>2
    <3>4. row[pending[g][1]].version >= pending[g][2]
      BY <1>7, <3>1 DEF SnapshotInv
    <3> QED  BY <1>6, <3>1, <3>3, <3>4
  <2> QED  BY <2>1, <2>2
<1>8. \A i \in Ids : (Drawn(i) <=> i <= seq)'
  BY DEF SnapshotInv, Write, webVars, Drawn
<1>9. ASSUME NEW i \in Ids, Drawn(i)'
      PROVE  (keyOf[i] \in Changes /\ row[RowOf(i)].version >= VersionOf(i))'
  <2>1. keyOf' = keyOf /\ Drawn(i)
    BY <1>9 DEF Write, webVars, Drawn
  <2>2. keyOf[i] \in Changes /\ row[keyOf[i][1]].version >= keyOf[i][2]
    BY <2>1 DEF SnapshotInv, RowOf, VersionOf
  <2>3. keyOf[i][1] \in Rows /\ keyOf[i][2] \in Nat
    BY <2>2
  <2> QED  BY <1>6, <2>1, <2>2, <2>3 DEF RowOf, VersionOf
<1>10. (snap.watermark <= seq)' /\ SnapshotCovers'
  BY DEF SnapshotInv, Write, webVars, SnapshotCovers, Drawn, ReadAlready, RowOf, VersionOf
<1> QED  BY <1>5, <1>7, <1>8, <1>9, <1>10 DEF SnapshotInv

\* An event draws an id above the watermark and announces a change that is
\* committed.
LEMMA AnnounceIsCovered ==
  ASSUME SnapshotInv, NEW h \in Handlers, Announce(h)
  PROVE  SnapshotInv'
<1> USE ChangesAssumption, KeysAssumption, BoundsAssumption DEF Changes
<1> DEFINE n == seq + 1
           k == pending[h]
<1>1. seq \in 0..MaxId /\ n \in Ids /\ k \in Changes /\ k \in Keys /\ seq' = n
  BY DEF SnapshotInv, SnapshotTypeOK, WebTypeOK, Announce, EmitEvent, Ids
<1>2. k[1] \in Rows /\ k[2] \in Nat /\ row[k[1]].version >= k[2]
  BY <1>1 DEF SnapshotInv, Announce
<1>3. /\ status' = [status EXCEPT ![n] = "open"]
      /\ keyOf' = [keyOf EXCEPT ![n] = k]
      /\ UNCHANGED <<checkpoint, request, row, snap>>
      /\ pending' = [pending EXCEPT ![h] = NoKey]
  BY DEF Announce, EmitEvent
<1>4. SnapshotTypeOK'
  <2>1. seq' \in 0..MaxId
    BY <1>1 DEF Ids
  <2>2. status' \in [Ids -> {"free", "open", "visible", "burnt"}]
    BY <1>1, <1>3 DEF SnapshotInv, SnapshotTypeOK, WebTypeOK
  <2>3. keyOf' \in [Ids -> Keys \union {NoKey}]
    BY <1>1, <1>3 DEF SnapshotInv, SnapshotTypeOK, WebTypeOK
  <2>4. pending' \in [Handlers -> Changes \union {NoKey}]
    BY <1>3 DEF SnapshotInv, SnapshotTypeOK
  <2> QED  BY <1>3, <2>1, <2>2, <2>3, <2>4 DEF SnapshotInv, SnapshotTypeOK, WebTypeOK
<1>5. ASSUME NEW i \in Ids
      PROVE  /\ i # n => Drawn(i)' = Drawn(i) /\ keyOf'[i] = keyOf[i]
             /\ i = n => Drawn(i)' /\ keyOf'[i] = k
  BY <1>1, <1>3 DEF SnapshotInv, SnapshotTypeOK, WebTypeOK, Drawn
<1>6. \A g \in Handlers : pending'[g] # NoKey =>
        row'[pending'[g][1]].version >= pending'[g][2]
  BY <1>3 DEF SnapshotInv, SnapshotTypeOK
<1>7. ASSUME NEW i \in Ids PROVE (Drawn(i) <=> i <= seq)'
  <2>1. i \in Nat /\ (Drawn(i) <=> i <= seq)
    BY DEF SnapshotInv, Ids
  <2>2. CASE i = n
    BY <1>1, <1>5, <2>1, <2>2
  <2>3. CASE i # n
    BY <1>1, <1>5, <2>1, <2>3
  <2> QED  BY <2>2, <2>3
<1>8. ASSUME NEW i \in Ids, Drawn(i)'
      PROVE  (keyOf[i] \in Changes /\ row[RowOf(i)].version >= VersionOf(i))'
  <2>1. CASE i = n
    BY <1>1, <1>2, <1>3, <1>5, <2>1 DEF RowOf, VersionOf
  <2>2. CASE i # n
    BY <1>3, <1>5, <1>8, <2>2 DEF SnapshotInv, RowOf, VersionOf
  <2> QED  BY <2>1, <2>2
<1>9. (snap.watermark <= seq)'
  BY <1>1, <1>3 DEF SnapshotInv, SnapshotTypeOK
<1>10. SnapshotCovers'
  <2> SUFFICES ASSUME NEW i \in Ids, Drawn(i)', i <= snap'.watermark,
                      ReadAlready(RowOf(i))'
               PROVE  snap'.copy[RowOf(i)'].version >= VersionOf(i)'
    BY DEF SnapshotCovers
  <2>1. i # n
    <3>1. snap.watermark \in 0..MaxId /\ snap.watermark <= seq /\ i <= snap.watermark
      BY <1>3 DEF SnapshotInv, SnapshotTypeOK
    <3> QED  BY <1>1, <3>1
  <2> QED  BY <1>3, <1>5, <2>1 DEF SnapshotInv, SnapshotCovers, RowOf, VersionOf, ReadAlready
<1> QED  BY <1>4, <1>6, <1>7, <1>8, <1>9, <1>10 DEF SnapshotInv

\* Handlers that say nothing, and events that commit or fail: every id, row and
\* copy stays what it was.
LEMMA QuietStepsAreCovered ==
  ASSUME SnapshotInv, (\E h \in Handlers : SayNothing(h)) \/ Feed
  PROVE  SnapshotInv'
<1>1. /\ UNCHANGED <<seq, keyOf, checkpoint, request, row, snap>>
      /\ pending' \in [Handlers -> Changes \union {NoKey}]
      /\ \A h \in Handlers : pending'[h] \in {pending[h], NoKey}
      /\ status' \in [Ids -> {"free", "open", "visible", "burnt"}]
      /\ \A i \in Ids : Drawn(i)' <=> Drawn(i)
  BY DEF SnapshotInv, SnapshotTypeOK, WebTypeOK, SayNothing, Feed, CommitEvent, AbortEvent,
         webVars, Drawn
<1>2. SnapshotTypeOK'
  BY <1>1 DEF SnapshotInv, SnapshotTypeOK, WebTypeOK
<1>3. \A h \in Handlers : pending'[h] # NoKey =>
        row'[pending'[h][1]].version >= pending'[h][2]
  BY <1>1 DEF SnapshotInv
<1>4. /\ \A i \in Ids : (Drawn(i) <=> i <= seq)'
      /\ \A i \in Ids : (Drawn(i) => keyOf[i] \in Changes /\ row[RowOf(i)].version >= VersionOf(i))'
      /\ (snap.watermark <= seq)'
  BY <1>1 DEF SnapshotInv, RowOf, VersionOf
<1>5. SnapshotCovers'
  BY <1>1 DEF SnapshotInv, SnapshotCovers, RowOf, VersionOf, ReadAlready
<1> QED  BY <1>2, <1>3, <1>4, <1>5 DEF SnapshotInv

\* A new watermark is drawn already and no row is read yet.
LEMMA TakeWatermarkIsCovered ==
  ASSUME SnapshotInv, NEW wanted \in Requested, TakeWatermark(wanted)
  PROVE  SnapshotInv'
<1> USE ResourcesAssumption
<1>1. /\ snap'.watermark = Max(Visible \union {0}) /\ snap'.left = wanted
      /\ snap'.read = {} /\ snap'.copy = snap.copy
  BY DEF TakeWatermark
<1>2. UNCHANGED <<webVars, row, pending>>
  BY DEF TakeWatermark
<1>3. snap'.watermark \in 0..MaxId /\ snap'.watermark <= seq
  BY <1>1, WatermarkWasDrawn
<1>4. SnapshotTypeOK'
  BY <1>2, <1>3 DEF SnapshotInv, SnapshotTypeOK, WebTypeOK, webVars, TakeWatermark
<1>5. SnapshotCovers'
  BY <1>1 DEF SnapshotCovers, ReadAlready
<1> QED  BY <1>2, <1>3, <1>4, <1>5 DEF SnapshotInv, webVars, Drawn, RowOf, VersionOf

\* A query finds every row at or after the change of any event drawn so far.
LEMMA ReadResourceIsCovered ==
  ASSUME SnapshotInv, NEW k \in Resources, ReadResource(k)
  PROVE  SnapshotInv'
<1>1. /\ snap'.watermark = snap.watermark /\ snap'.left = snap.left \ {k}
      /\ snap'.read = snap.read \union {k}
      /\ snap'.copy = [a \in Rows |-> IF Resource[a] = k THEN row[a] ELSE snap.copy[a]]
  BY DEF ReadResource
<1>2. UNCHANGED <<webVars, row, pending>>
  BY DEF ReadResource
<1>3. snap'.copy \in [Rows -> Row]
  BY <1>1 DEF SnapshotInv, SnapshotTypeOK
<1>4. SnapshotTypeOK'
  BY <1>1, <1>2, <1>3 DEF SnapshotInv, SnapshotTypeOK, WebTypeOK, webVars, ReadResource
<1>5. SnapshotCovers'
  <2> SUFFICES ASSUME NEW i \in Ids, Drawn(i), i <= snap.watermark,
                      ReadAlready(RowOf(i))'
               PROVE  snap'.copy[RowOf(i)].version >= VersionOf(i)
    BY <1>1, <1>2 DEF SnapshotCovers, webVars, Drawn, RowOf, VersionOf
  <2>1. RowOf(i) \in Rows /\ row[RowOf(i)].version >= VersionOf(i)
    BY DEF SnapshotInv, RowOf, Changes
  <2>2. CASE Resource[RowOf(i)] = k
    BY <1>1, <2>1, <2>2
  <2>3. CASE Resource[RowOf(i)] # k
    <3>1. ReadAlready(RowOf(i))
      BY <1>1, <1>2, <2>3 DEF ReadAlready, RowOf, webVars
    <3>2. snap.copy[RowOf(i)].version >= VersionOf(i)
      BY <3>1 DEF SnapshotInv, SnapshotCovers
    <3> QED  BY <1>1, <2>1, <2>3, <3>2
  <2> QED  BY <2>2, <2>3
<1> QED  BY <1>1, <1>2, <1>4, <1>5 DEF SnapshotInv, webVars, Drawn, RowOf, VersionOf

LEMMA NothingIsReadAtFirst == SnapshotInit => SnapshotInv
<1> SUFFICES ASSUME SnapshotInit PROVE SnapshotInv
  OBVIOUS
<1> USE BoundsAssumption, ChangesAssumption DEF Changes
<1>1. SnapshotTypeOK
  BY DEF SnapshotInit, WebInit, SnapshotTypeOK, WebTypeOK, Row, NewRow, Request, NoRequest
<1>2. \A i \in Ids : ~Drawn(i) /\ ~(i <= seq)
  BY DEF SnapshotInit, WebInit, Drawn, Ids
<1>3. snap.watermark <= seq
  BY DEF SnapshotInit, WebInit
<1> QED  BY <1>1, <1>2, <1>3 DEF SnapshotInit, SnapshotInv, SnapshotCovers

LEMMA StepIsCovered == SnapshotInv /\ [SnapshotNext]_snapshotVars => SnapshotInv'
<1> SUFFICES ASSUME SnapshotInv, [SnapshotNext]_snapshotVars PROVE SnapshotInv'
  OBVIOUS
<1>1. ASSUME NEW h \in Handlers, NEW a \in Rows, NEW state \in {"listed", "hidden"},
             SaveRow(h, a, state)
      PROVE  SnapshotInv'
  BY <1>1, WriteIsCovered DEF SaveRow
<1>2. ASSUME NEW h \in Handlers, NEW a \in Rows, DestroyRow(h, a)
      PROVE  SnapshotInv'
  BY <1>2, WriteIsCovered DEF DestroyRow
<1>3. ASSUME NEW h \in Handlers, Announce(h) PROVE SnapshotInv'
  BY <1>3, AnnounceIsCovered
<1>4. CASE (\E h \in Handlers : SayNothing(h)) \/ Feed
  BY <1>4, QuietStepsAreCovered
<1>5. ASSUME NEW wanted \in Requested, TakeWatermark(wanted) PROVE SnapshotInv'
  BY <1>5, TakeWatermarkIsCovered
<1>6. ASSUME NEW k \in Resources, ReadResource(k) PROVE SnapshotInv'
  BY <1>6, ReadResourceIsCovered
<1>7. CASE UNCHANGED snapshotVars
  <2>1. SnapshotTypeOK'
    BY <1>7 DEF SnapshotInv, SnapshotTypeOK, WebTypeOK, snapshotVars, webVars
  <2> QED  BY <1>7, <2>1
           DEF SnapshotInv, SnapshotCovers, snapshotVars, webVars, Drawn, RowOf, VersionOf,
               ReadAlready
<1> QED  BY <1>1, <1>2, <1>3, <1>4, <1>5, <1>6, <1>7 DEF SnapshotNext

\* The invariant holds for any number of rows, handlers, events and snapshots.
THEOREM EventsTrailTheirRows == SnapshotSpec => []SnapshotInv
<1>1. SnapshotInit => SnapshotInv
  BY NothingIsReadAtFirst
<1>2. SnapshotInv /\ [SnapshotNext]_snapshotVars => SnapshotInv'
  BY StepIsCovered
<1> QED  BY <1>1, <1>2, PTL DEF SnapshotSpec

\* A consumer that starts from a snapshot needs no event at or below its
\* watermark, in whatever order events commit (OutboxSnapshotAPIView.get).
THEOREM SnapshotAlwaysCovers == SnapshotSpec => []SnapshotCovers
<1>1. SnapshotInv => SnapshotCovers
  BY DEF SnapshotInv
<1> QED  BY <1>1, EventsTrailTheirRows, PTL

\* What a set of events says of a row: nothing, or the version of one of them that
\* no other outlasts.
LEMMA LastOwnEvent ==
  ASSUME SnapshotInv, NEW events \in SUBSET Visible, NEW a \in Rows, NEW start
  PROVE  LET own == {i \in events : RowOf(i) = a} IN
         /\ own = {} => Applied(events, a, start) = start
         /\ own # {} => \E n \in own : /\ \A i \in own : i <= n
                                       /\ Applied(events, a, start) = VersionOf(n)
<1> DEFINE own == {i \in events : RowOf(i) = a}
<1>1. MaxId \in Nat /\ own \in SUBSET (0..MaxId)
  <2>1. \A i \in Ids : i \in 0..MaxId
    BY BoundsAssumption DEF Ids
  <2>2. own \subseteq Ids
    BY DEF Visible
  <2> QED  BY <2>1, <2>2, BoundsAssumption
<1>2. own # {} => Max(own) \in own /\ \A i \in own : i <= Max(own)
  BY <1>1, MaxIsLargest
<1> QED  BY <1>2 DEF Applied

\* A consumer that starts from a snapshot is never behind one that applied the
\* whole feed: both end with the same last event of a row, or the snapshot is at
\* least as new as the row's last event.
THEOREM SnapshotAlwaysReplacesFeed == SnapshotSpec => []SnapshotReplacesFeed
<1>1. ASSUME SnapshotInv PROVE SnapshotReplacesFeed
  <2> SUFFICES ASSUME NEW a \in Rows, ReadAlready(a)
               PROVE  Applied({i \in Visible : i > snap.watermark}, a, snap.copy[a].version)
                        >= Applied(Visible, a, 0)
    BY DEF SnapshotReplacesFeed
  <2> DEFINE above == {i \in Visible : i > snap.watermark}
             own(events) == {i \in events : RowOf(i) = a}
             start == snap.copy[a].version
  <2>1. /\ start \in Nat
        /\ snap.watermark \in Nat
        /\ \A i \in Visible : i \in Ids /\ i \in Nat /\ Drawn(i) /\ VersionOf(i) \in Nat
    <3>1. start \in Nat /\ snap.watermark \in Nat
      BY <1>1, ChangesAssumption, BoundsAssumption DEF SnapshotInv, SnapshotTypeOK, Row
    <3>2. ASSUME NEW i \in Visible
          PROVE  i \in Ids /\ i \in Nat /\ Drawn(i) /\ VersionOf(i) \in Nat
      <4>1. i \in Ids /\ i \in Nat /\ Drawn(i)
        BY <3>2, BoundsAssumption DEF Visible, Drawn, Ids
      <4>2. keyOf[i] \in Changes
        BY <1>1, <4>1 DEF SnapshotInv
      <4>3. VersionOf(i) \in Nat
        BY <4>2 DEF VersionOf, Changes
      <4> QED  BY <4>1, <4>3
    <3> QED  BY <3>1, <3>2
  <2>2. CASE own(Visible) = {}
    <3>1. Applied(Visible, a, 0) = 0 /\ Applied(above, a, start) = start
      BY <1>1, <2>2, LastOwnEvent
    <3> QED  BY <2>1, <3>1
  <2>3. CASE own(Visible) # {}
    <3>1. PICK n \in own(Visible) : /\ \A i \in own(Visible) : i <= n
                                    /\ Applied(Visible, a, 0) = VersionOf(n)
      BY <1>1, <2>3, LastOwnEvent
    <3>2. CASE n \in above
      <4>1. PICK m \in own(above) : /\ \A i \in own(above) : i <= m
                                    /\ Applied(above, a, start) = VersionOf(m)
        <5>1. above \in SUBSET Visible /\ n \in own(above)
          BY <3>1, <3>2
        <5>2. own(above) # {}
          BY <5>1
        <5> HIDE DEF above
        <5> QED  BY <1>1, <5>1, <5>2, LastOwnEvent
      <4>2. m = n
        BY <2>1, <3>1, <3>2, <4>1
      <4> QED  BY <2>1, <3>1, <4>1, <4>2
    <3>3. CASE n \notin above
      <4>1. n <= snap.watermark /\ own(above) = {}
        BY <2>1, <3>1, <3>3
      <4>2. Applied(above, a, start) = start
        BY <1>1, <4>1, LastOwnEvent
      <4>3. start >= VersionOf(n)
        BY <1>1, <2>1, <3>1, <4>1 DEF SnapshotInv, SnapshotCovers
      <4> QED  BY <3>1, <4>2, <4>3
    <3> QED  BY <3>2, <3>3
  <2> QED  BY <2>2, <2>3
<1> QED  BY <1>1, EventsTrailTheirRows, PTL
=============================================================================
