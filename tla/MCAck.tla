-------------------------------- MODULE MCAck --------------------------------
(* Finite instances of AckTracking.                                         *)
EXTENDS AckTracking
=============================================================================
