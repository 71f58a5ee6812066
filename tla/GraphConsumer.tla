----------------------------- MODULE GraphConsumer -----------------------------
(***************************************************************************)
(* The feed as the graph service reads it: one page after another, each as *)
(* long as its request allows, from the checkpoint or, by /replay, from    *)
(* any event; and deaths between two events or between the two             *)
(* transactions of a match.  One coroutine projects at a time: a page      *)
(* holds no await.  Events are in the order of their commits.              *)
(***************************************************************************)
EXTENDS GraphStore, Sequences, FiniteSetsExt

CONSTANTS
  MaxEvents,    \* bound on the feed
  MaxReplays,   \* bound on pages that do not start at the checkpoint
  MaxDeaths     \* bound on deaths of any process

ASSUME GraphBoundsAssumption == MaxEvents \in Nat /\ MaxReplays \in Nat /\ MaxDeaths \in Nat

VARIABLES
  feed,     \* outbox_outboxevent
  graph,
  acked,    \* the consumer's checkpoint
  page,     \* the page being projected: first event, next event, last event
  half,     \* a match event has its first transaction, not its second
  shown,    \* history: no event up to here had an older one applied after it
  replays, deaths

graphVars == <<graph, acked, page, half, shown, replays>>

NoPage == [lo |-> 0, next |-> 0, hi |-> 0]
Busy == page # NoPage

GraphInit ==
  /\ feed = <<>>
  /\ graph = EmptyGraph
  /\ acked = 0
  /\ page = NoPage
  /\ half = FALSE
  /\ shown = 0
  /\ replays = 0
  /\ deaths = 0

GraphTypeOK ==
  /\ Len(feed) <= MaxEvents
  /\ graph.edges \subseteq graph.nodes \X Relations \X graph.nodes
  /\ acked \in 0..Len(feed) /\ shown \in 0..Len(feed)
  /\ Busy => page.lo \in 1..page.hi /\ page.next \in page.lo..page.hi + 1
             /\ page.hi <= Len(feed)
  /\ half => Busy /\ page.next <= page.hi

-----------------------------------------------------------------------------
\* sync_from_outbox, the fetch: one batch, of whatever size the caller asks for.
FetchEvents(lo) ==
  /\ ~Busy
  /\ \E hi \in lo..Len(feed) : page' = [lo |-> lo, next |-> lo, hi |-> hi]
  /\ UNCHANGED <<feed, graph, acked, half, shown, deaths>>

\* The poller and /sync go on after the checkpoint.
Poll == FetchEvents(acked + 1) /\ UNCHANGED replays

\* /replay starts where it is told to.  So, to the graph, does the page of a /sync
\* that was fetched before another request moved the checkpoint.
Replay ==
  /\ replays < MaxReplays
  /\ \E lo \in 1..Len(feed) : FetchEvents(lo)
  /\ replays' = replays + 1

\* project_events: one event of the page ...
ProjectEvent ==
  /\ Busy /\ page.next <= page.hi /\ ~half
  /\ LET ev == feed[page.next]
         more == ev.kind = "project_faculty_match" /\ Confirms(ev)
     IN  /\ graph' = Project(graph, ev)
         /\ half' = more
         /\ page' = IF more THEN page ELSE [page EXCEPT !.next = @ + 1]
  /\ UNCHANGED <<feed, acked, shown, replays, deaths>>

\* ... and the second transaction of a match.
FinishMatch ==
  /\ half
  /\ graph' = AttachMatch(graph, feed[page.next])
  /\ half' = FALSE
  /\ page' = [page EXCEPT !.next = @ + 1]
  /\ UNCHANGED <<feed, acked, shown, replays, deaths>>

\* Where the order of events stands when the page ends here.  A page that starts
\* after a hole says nothing of the hole; one that starts before the last event
\* applied leaves all that follow its own last one to be applied again.
ShownUpTo ==
  IF page.lo > shown + 1 \/ (page.next = page.lo /\ ~half) THEN shown ELSE page.next - 1

\* The acknowledgement; the server never moves the checkpoint back.
AckEvent ==
  /\ Busy /\ page.next > page.hi
  /\ acked' = Max({acked, page.hi})
  /\ shown' = ShownUpTo
  /\ page' = NoPage
  /\ UNCHANGED <<feed, graph, half, replays, deaths>>

\* The service, or its database, dies: what is committed stays, and the poller goes
\* on after the checkpoint.
GraphDies ==
  /\ Busy
  /\ deaths < MaxDeaths
  /\ shown' = ShownUpTo
  /\ page' = NoPage
  /\ half' = FALSE
  /\ deaths' = deaths + 1
  /\ UNCHANGED <<feed, graph, acked, replays>>

GraphStep == Poll \/ Replay \/ ProjectEvent \/ FinishMatch \/ AckEvent \/ GraphDies

-----------------------------------------------------------------------------
\* Nothing is left to be read.  For a service that only polls that is what the
\* checkpoint says; after a /replay the events it went back over, or left out, have
\* to be read once more.
CaughtUp == ~Busy /\ acked = Len(feed) /\ (replays = 0 \/ shown = Len(feed))

EventsAbout(x) == {i \in 1..Len(feed) : Aggregate(feed[i]) = x}

\* What is left of the claims of the last event about x: nothing that touches a
\* node removed by a later event.
LastClaims(x) ==
  LET last == Max(EventsAbout(x))
      gone == UNION {Removes(feed[i]) : i \in last + 1..Len(feed)}
  IN  {e \in Claims(feed[last]) : e[1] \notin gone /\ e[3] \notin gone}

ShowsLastEvents ==
  \A i \in 1..Len(feed) :
    Owned(graph, Aggregate(feed[i])) = LastClaims(Aggregate(feed[i]))

\* The projection converges.  Pages of any length and repetitions after a death
\* leave, for each aggregate, exactly the edges of the last event about it: of a
\* service that only polls, whenever its checkpoint is at the end of the feed; of
\* one that was told to replay, once it has been through the rest again.
GraphShowsLastEvents == CaughtUp => ShowsLastEvents

\* "The projector applies events idempotently": of a graph that shows every event,
\* with nothing left to be read, a page of these events that is projected once more
\* changes nothing.
ReplaysAreIdempotent ==
  Busy /\ page.next > page.hi /\ acked = Len(feed) /\ shown = Len(feed) => ShowsLastEvents

\* Whatever died half-way, a project has one confirmed head at most.
OneFacultyEdge ==
  \A e, f \in graph.edges :
    e[2] = "SUPERVISED_BY_FACULTY" /\ f[2] = "SUPERVISED_BY_FACULTY" /\ e[1] = f[1] => e = f
=============================================================================
