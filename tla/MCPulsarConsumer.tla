--------------------------- MODULE MCPulsarConsumer ---------------------------
(* PulsarConsumer for TLC: both builds and every configuration. *)
EXTENDS PulsarConsumer

CONSTANTS t1, t2
=============================================================================
