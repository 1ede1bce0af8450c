-------------------------------- MODULE MCSem --------------------------------
(* Instances of LosSem for TLC. *)
EXTENDS LosSem

=============================================================================
