------------------------------- MODULE MCSwtmr -------------------------------
(* Instances of LosSwtmr for TLC. *)
EXTENDS LosSwtmr
CONSTANTS p1

\* Each mode, with periodic timers beside every other mode and beside one another.
Mixed == (0 :> {<<"ONCE", 2>>, <<"PERIOD", 1>>}) @@ (1 :> {<<"PERIOD", 2>>, <<"NO_SELFDELETE", 1>>})
OneShot == 0 :> {<<"ONCE", 1>>}
=============================================================================
