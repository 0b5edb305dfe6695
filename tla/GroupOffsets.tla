---------------------------- MODULE GroupOffsets ----------------------------
(***************************************************************************)
(* What a consumer group that commits after processing promises, whatever  *)
(* the client does inside: per partition, `done` is the number of messages *)
(* some member has finished with and `committed` is the offset a new owner *)
(* of the partition would start from.  Commits never run ahead of the      *)
(* processing and never go back, so no message is skipped and none that    *)
(* was committed is delivered again.                                       *)
(***************************************************************************)
EXTENDS Naturals

CONSTANTS Partitions,   \* the partitions of the subscribed topics
          MaxOffset     \* bound: messages in each partition

VARIABLES done,         \* per partition: high-water mark of processing
          committed     \* per partition: offset stored on the broker

vars == <<done, committed>>

TypeOK == /\ done \in [Partitions -> 0..MaxOffset]
          /\ committed \in [Partitions -> 0..MaxOffset]

Init == /\ done = [p \in Partitions |-> 0]
        /\ committed = [p \in Partitions |-> 0]

\* A member finishes with the messages of p below offset n.
Process(p) == \E n \in done[p] + 1 .. MaxOffset :
                 /\ done' = [done EXCEPT ![p] = n]
                 /\ UNCHANGED committed

\* One round of commits: some partitions move up, as far as they were processed.
Commit == /\ committed' \in [Partitions -> 0..MaxOffset]
          /\ \A p \in Partitions : committed'[p] \in committed[p] .. done[p]
          /\ UNCHANGED done

Next == Commit \/ \E p \in Partitions : Process(p)

Spec == Init /\ [][Next]_vars
=============================================================================
