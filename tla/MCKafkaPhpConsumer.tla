------------------------- MODULE MCKafkaPhpConsumer -------------------------
(***************************************************************************)
(* KafkaPhpConsumer on two partitions that share a key, as partition 11 of *)
(* topic t and partition 1 of topic t1 do.                                 *)
(***************************************************************************)
EXTENDS KafkaPhpConsumer, TLC

CONSTANTS a, b, c, p1, p2, t1, t2, k1

MCTopicOf == p1 :> t1 @@ p2 :> t2
MCKeyOf == p1 :> k1 @@ p2 :> k1
MCPauseSets == {{t1}}

Symmetry == Permutations(Obj)
=============================================================================
