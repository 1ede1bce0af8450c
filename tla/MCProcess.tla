------------------------------ MODULE MCProcess ------------------------------
(* Instances of LosProcess for TLC. *)
EXTENDS LosProcess, TLC

CONSTANTS init, a, b, i1, i2, a1, a2, b1

FiveThreads == (init :> {i1, i2}) @@ (a :> {a1, a2}) @@ (b :> {b1})
SameThreads == Permutations({i1, i2}) \cup Permutations({a1, a2})
=============================================================================
