------------------------------- MODULE EventLog -------------------------------
(***************************************************************************)
(* The Kafka topic of the domain events as the code in src/ uses it: one   *)
(* append-only log per partition, a message goes to the partition of its   *)
(* key, the broker never drops or reorders what it has stored.  The fault  *)
(* budget is shared by the writers and the readers of the log.             *)
(***************************************************************************)
EXTENDS Naturals, Sequences, FiniteSets

CONSTANTS DomainEvents,      \* events that may happen in a run
          Partitions,
          PartitionOf,       \* partition of the event's key, its aggregateId
          MaxLogFaults       \* bound: crashes and calls that throw

ASSUME LogAssumption == /\ PartitionOf \in [DomainEvents -> Partitions]
                        /\ MaxLogFaults \in Nat

VARIABLES log,               \* messages of each partition, oldest first
          logFaults          \* faults that have happened

Send(e) == log' = [log EXCEPT ![PartitionOf[e]] = Append(@, e)]

Copies(e) == Cardinality({i \in DOMAIN log[PartitionOf[e]] :
                             log[PartitionOf[e]][i] = e})
Sent(e) == Copies(e) > 0

LogFault == logFaults < MaxLogFaults /\ logFaults' = logFaults + 1

LogInit == log = [p \in Partitions |-> << >>] /\ logFaults = 0
===============================================================================
