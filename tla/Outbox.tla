------------------------------- MODULE Outbox -------------------------------
(***************************************************************************)
(* The web side of the outbox, for one consumer: the event table, the      *)
(* consumer's checkpoint row and the HTTP handlers that read and move it.  *)
(*                                                                         *)
(* Settings turn ATOMIC_REQUESTS off, so every ORM statement is its own    *)
(* transaction and a handler is a series of steps that other handlers      *)
(* interleave with.  A handler runs on a server thread and goes on running *)
(* when its client has given up.  An event's id is drawn from a sequence   *)
(* before its insert commits, and inserts of concurrent sessions commit in *)
(* any order; an id whose insert fails is lost for good.                   *)
(***************************************************************************)
EXTENDS Naturals, FiniteSets, FiniteSetsExt

CONSTANTS
  Keys,              \* idempotency keys, one per change the program announces
  NoKey,             \* the key of an id that was not drawn yet
  Threads,           \* server threads that run outbox requests
  MaxId,             \* bound on the ids drawn from the sequence
  Limit              \* page size: the "limit" query parameter

ASSUME KeysAssumption == NoKey \notin Keys
ASSUME BoundsAssumption == MaxId \in Nat /\ Limit \in Nat \ {0}

Ids == 1..MaxId

VARIABLES
  seq,       \* the last id drawn from the sequence
  status,    \* of each id: "free", "open" (uncommitted), "visible" or "burnt"
  keyOf,     \* idempotency key of each id
  checkpoint,\* the consumer's row: last_acked_event_id, last_seen_event_id
  request    \* what each server thread is doing

feedVars == <<seq, status, keyOf>>
webVars == <<seq, status, keyOf, checkpoint, request>>

Visible == {i \in Ids : status[i] = "visible"}

(***************************************************************************)
(* Requests.  "page" and "mark" are the two points at which the list       *)
(* handler can be interrupted: it has read the checkpoint row (acked and   *)
(* seen are its copies, stale from then on), then it has read a page.  arg *)
(* is since_id, replay_from_id or the event_id to acknowledge; 0 stands    *)
(* for a parameter that was not given.                                     *)
(***************************************************************************)
Request ==
  [op : {"none", "page", "mark", "ack"}, mode : {"poll", "replay"},
   arg : 0..MaxId, acked : 0..MaxId, seen : 0..MaxId, page : SUBSET Ids]

NoRequest ==
  [op |-> "none", mode |-> "poll", arg |-> 0, acked |-> 0, seen |-> 0,
   page |-> {}]

WebTypeOK ==
  /\ seq \in 0..MaxId
  /\ status \in [Ids -> {"free", "open", "visible", "burnt"}]
  /\ keyOf \in [Ids -> Keys \union {NoKey}]
  /\ checkpoint \in [acked : 0..MaxId, seen : 0..MaxId]
  /\ request \in [Threads -> Request]

WebInit ==
  /\ seq = 0
  /\ status = [i \in Ids |-> "free"]
  /\ keyOf = [i \in Ids |-> NoKey]
  /\ checkpoint = [acked |-> 0, seen |-> 0]
  /\ request = [t \in Threads |-> NoRequest]

-----------------------------------------------------------------------------
(***************************************************************************)
(* emit_event: get_or_create by idempotency key.  The get found no visible *)
(* event with the key, so an insert draws an id.  A second emit of a       *)
(* visible key returns the first event and changes nothing.                *)
(***************************************************************************)
EmitEvent(k) ==
  /\ seq < MaxId
  /\ \A i \in Visible : keyOf[i] # k
  /\ seq' = seq + 1
  /\ status' = [status EXCEPT ![seq + 1] = "open"]
  /\ keyOf' = [keyOf EXCEPT ![seq + 1] = k]
  /\ UNCHANGED <<checkpoint, request>>

\* The insert commits; the unique index on idempotency_key lets one through.
CommitEvent(i) ==
  /\ status[i] = "open"
  /\ \A j \in Visible : keyOf[j] # keyOf[i]
  /\ status' = [status EXCEPT ![i] = "visible"]
  /\ UNCHANGED <<seq, keyOf, checkpoint, request>>

\* The insert fails (unique violation, crash, rollback): the id is a gap.
AbortEvent(i) ==
  /\ status[i] = "open"
  /\ status' = [status EXCEPT ![i] = "burnt"]
  /\ UNCHANGED <<seq, keyOf, checkpoint, request>>

-----------------------------------------------------------------------------
\* Mutations of LowerBound: polling from the last seen offset, and a replay that
\* leaves its first offset out.
LowerBoundFromSeen(r) ==
  IF r.mode = "replay" THEN (IF r.arg = 0 THEN 1 ELSE r.arg) - 1
                       ELSE Max({r.seen, r.arg})

LowerBoundExcludesFirst(r) ==
  IF r.mode = "replay" THEN (IF r.arg = 0 THEN 1 ELSE r.arg)
                       ELSE Max({r.acked, r.arg})

\* The exclusive lower bound of build_delivery_queryset.
LowerBound(r) ==
  IF r.mode = "replay" THEN (IF r.arg = 0 THEN 1 ELSE r.arg) - 1
                       ELSE Max({r.acked, r.arg})

\* Mutation of DeliveryPage: the newest events first.
NewestPage(low) ==
  {i \in Visible : /\ i > low
                   /\ Cardinality({j \in Visible : j > i}) < Limit}

\* The first Limit visible events above the bound, in id order.
DeliveryPage(low) ==
  {i \in Visible : /\ i > low
                   /\ Cardinality({j \in Visible : low < j /\ j < i}) < Limit}

\* A list request arrives and loads its checkpoint row.
ListEvents(t, mode, arg) ==
  /\ request[t].op = "none"
  /\ request' = [request EXCEPT ![t] =
                   [op |-> "page", mode |-> mode, arg |-> arg,
                    acked |-> checkpoint.acked, seen |-> checkpoint.seen,
                    page |-> {}]]
  /\ UNCHANGED <<feedVars, checkpoint>>

\* The paginator runs the query, with the bound of the loaded row.
ReadPage(t) ==
  /\ request[t].op = "page"
  /\ request' = [request EXCEPT ![t].op = "mark",
                                ![t].page = DeliveryPage(LowerBound(request[t]))]
  /\ UNCHANGED <<feedVars, checkpoint>>

\* Mutation of MarkPolled: a save without update_fields writes the whole row.
MarkPolledSavesRow(t) ==
  /\ request[t].op = "mark"
  /\ checkpoint' = [acked |-> request[t].acked,
                    seen |-> Max({request[t].seen} \union request[t].page)]
  /\ request' = [request EXCEPT ![t] = NoRequest]
  /\ UNCHANGED feedVars

\* mark_polled saves last_seen_event_id, and only that, from the loaded row.
MarkPolled(t) ==
  /\ request[t].op = "mark"
  /\ checkpoint' = [checkpoint EXCEPT !.seen =
                      Max({request[t].seen} \union request[t].page)]
  /\ request' = [request EXCEPT ![t] = NoRequest]
  /\ UNCHANGED feedVars

\* An ack request is on its way.
PostAck(t, n) ==
  /\ request[t].op = "none"
  /\ request' = [request EXCEPT ![t] =
                   [op |-> "ack", mode |-> "poll", arg |-> n, acked |-> 0,
                    seen |-> 0, page |-> {}]]
  /\ UNCHANGED <<feedVars, checkpoint>>

\* Mutation of AckOutcome: the ack is compared with the last seen offset.
AckOutcomeBySeen(n) ==
  IF n <= checkpoint.seen THEN "already_acked"
  ELSE IF n \notin Visible THEN "missing" ELSE "advanced"

\* ack_event, one transaction on the locked row.
AckOutcome(n) ==
  IF n <= checkpoint.acked THEN "already_acked"
  ELSE IF n \notin Visible THEN "missing" ELSE "advanced"

AckEvent(t) ==
  LET n == request[t].arg IN
  /\ request[t].op = "ack"
  /\ checkpoint' = IF AckOutcome(n) = "advanced"
                     THEN [acked |-> n, seen |-> Max({checkpoint.seen, n})]
                     ELSE checkpoint
  /\ request' = [request EXCEPT ![t] = NoRequest]
  /\ UNCHANGED feedVars

-----------------------------------------------------------------------------
(***************************************************************************)
(* The web side on its own, with clients that send any request at all: the *)
(* endpoints take the consumer's name from the query, so a person of the   *)
(* office may poll or acknowledge for a service.                           *)
(***************************************************************************)
WebNext ==
  \/ \E k \in Keys : EmitEvent(k)
  \/ \E i \in Ids : CommitEvent(i) \/ AbortEvent(i)
  \/ \E t \in Threads :
       \/ \E mode \in {"poll", "replay"}, arg \in 0..MaxId : ListEvents(t, mode, arg)
       \/ \E n \in Ids : PostAck(t, n)
       \/ ReadPage(t) \/ MarkPolled(t) \/ AckEvent(t)

WebSpec == WebInit /\ [][WebNext]_webVars

(***************************************************************************)
(* "Monotonic ack": no interleaving of polls, replays and acks moves the   *)
(* acknowledged offset back, although mark_polled saves a row it loaded    *)
(* before other requests moved it.                                         *)
(***************************************************************************)
CheckpointNeverRegresses == [][checkpoint'.acked >= checkpoint.acked]_webVars
=============================================================================
