--------------------------- MODULE MCProducerMap ---------------------------
(***************************************************************************)
(* ProducerMap with two Kafka targets whose strings run together to one key *)
(* and a Pulsar target; and with one Pulsar target.                         *)
(***************************************************************************)
EXTENDS ProducerMap, TLC

CONSTANTS t1, t2, t3, k1, k2

MCMqOf == t1 :> "kafka" @@ t2 :> "kafka" @@ t3 :> "pulsar"
MCKeyOf == t1 :> k1 @@ t2 :> k1 @@ t3 :> k2
MCPulsar == t3 :> "pulsar"
MCPulsarKey == t3 :> k2

Symmetry == Permutations(Objs) \cup Permutations(Addr)
=============================================================================
