---------------------- MODULE MCProducerConsumerQueue ----------------------
(* Instances of ProducerConsumerQueue for TLC.                             *)
EXTENDS ProducerConsumerQueue

CONSTANTS p1, c1, c2, v1, v2
=============================================================================
