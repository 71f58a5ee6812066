-------------------------- MODULE MCOutboxConsumer --------------------------
(* Small instances of OutboxConsumer for TLC.                              *)
EXTENDS OutboxConsumer, TLC

CONSTANT a1

\* Every event is about one project: keys are interchangeable.
OneProject == [k \in Keys |-> a1]

Interchangeable == Permutations(Threads) \union Permutations(Keys)
=============================================================================
