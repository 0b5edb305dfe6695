--------------------------- MODULE MCPulsarProducer ---------------------------
(* PulsarProducer for TLC. *)
EXTENDS PulsarProducer

CONSTANTS m1, m2
=============================================================================
