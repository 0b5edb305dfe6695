------------------------ MODULE MCKafkaProduceCalls ------------------------
(***************************************************************************)
(* KafkaProduceCalls with no key and with a key of a signed char and others. *)
(***************************************************************************)
EXTENDS KafkaProduceCalls

MCKeys == {<<>>, <<-28, -72, -83, 49>>}
=============================================================================
