--------------------------- MODULE MCKafkaConsumer ---------------------------
(***************************************************************************)
(* KafkaConsumer on two partitions of different topics with distinct keys. *)
(***************************************************************************)
EXTENDS KafkaConsumer, TLC

CONSTANTS a, b, c, d, p1, p2, t1, t2, k1, k2

MCTopicOf == p1 :> t1 @@ p2 :> t2
MCKeyOf == p1 :> k1 @@ p2 :> k2
MCPauseSets == {{t1}}

Symmetry == Permutations(Obj)
=============================================================================
