------------------------------ MODULE MCLiteIpc ------------------------------
(* An instance of LosLiteIpc for TLC: a client and a service with two threads. *)
EXTENDS LosLiteIpc

CONSTANTS c, s1, s2

Processes == [t \in Tasks |-> IF t = c THEN "client" ELSE "service"]
=============================================================================
