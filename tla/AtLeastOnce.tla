---------------------------- MODULE AtLeastOnce ----------------------------
(***************************************************************************)
(* What the outbox promises its consumers, without saying how: an offset   *)
(* is acknowledged only when every event up to it has been processed or    *)
(* was waived.  Events are waived in two cases only: when they appear      *)
(* behind one that was visible before, and when a consumer is told to      *)
(* start beyond them.  This is the "at_least_once" guarantee with          *)
(* "monotonic ack" of the delivery contract, as far as it is kept.         *)
(***************************************************************************)
EXTENDS Naturals

CONSTANT Offset                  \* event ids

VARIABLES visible,               \* ids of the events a consumer can read
          processed,             \* ids the consumer has applied at least once
          waived,                \* ids that delivery is not promised of
          acked                  \* highest acknowledged offset

vars == <<visible, processed, waived, acked>>

Init == visible = {} /\ processed = {} /\ waived = {} /\ acked = 0

\* A new event appears.  Ahead of all others it is promised; behind the
\* acknowledged offset it is not.
Publish ==
  /\ \E i \in Offset \ visible :
       /\ visible' = visible \union {i}
       /\ \/ i > acked /\ UNCHANGED waived
          \/ (\E j \in visible : j > i) /\ waived' = waived \union {i}
  /\ UNCHANGED <<processed, acked>>

\* Any events may be applied, again or for the first time, in any order.
Process ==
  /\ \E S \in SUBSET visible : processed' = processed \union S
  /\ UNCHANGED <<visible, waived, acked>>

\* A consumer is told to go on with a later event, and leaves out those before it.
Jump ==
  /\ \E first \in Offset :
       /\ \E n \in visible : n > acked /\ n >= first
       /\ waived' = waived \union {i \in visible : acked < i /\ i < first}
  /\ UNCHANGED <<visible, processed, acked>>

\* The checkpoint advances over processed and waived events only.
Acknowledge ==
  /\ \E n \in visible :
       /\ n > acked
       /\ \A i \in visible : i <= n => i \in processed \union waived
       /\ acked' = n
  /\ UNCHANGED <<visible, processed, waived>>

Next == Publish \/ Process \/ Jump \/ Acknowledge

Spec == Init /\ [][Next]_vars
=============================================================================
