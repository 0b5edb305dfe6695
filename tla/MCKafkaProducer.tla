--------------------------- MODULE MCKafkaProducer ---------------------------
(***************************************************************************)
(* KafkaProducer with interchangeable messages.                      *)
(***************************************************************************)
EXTENDS KafkaProducer, TLC

CONSTANTS m1, m2, m3, m4

Symmetry == Permutations(Msgs)
=============================================================================
