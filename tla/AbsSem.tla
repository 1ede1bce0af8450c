-------------------------------- MODULE AbsSem --------------------------------
(***************************************************************************)
(* What a pool of counting semaphores promises its callers: a live handle  *)
(* has a number of tokens; a post adds one, a successful pend removes one, *)
(* and nothing else changes it.                                            *)
(***************************************************************************)
EXTENDS Naturals

CONSTANT Handles, MaxValue, Dead

VARIABLE value   \* value[h]: the tokens of handle h, Dead when there is no such semaphore

Live(h) == value[h] # Dead

Init == value = [h \in Handles |-> Dead]

Create(h, count) == /\ ~Live(h)
                    /\ value' = [value EXCEPT ![h] = count]

Destroy(h) == /\ Live(h)
              /\ value' = [value EXCEPT ![h] = Dead]

Post(h) == /\ Live(h)
           /\ value' = [value EXCEPT ![h] = @ + 1]

\* A pend that returns LOS_OK.
Pend(h) == /\ Live(h)
           /\ value[h] > 0
           /\ value' = [value EXCEPT ![h] = @ - 1]

Next == \E h \in Handles :
            \/ \E count \in 0..MaxValue : Create(h, count)
            \/ Destroy(h)
            \/ Post(h)
            \/ Pend(h)

Spec == Init /\ [][Next]_value

=============================================================================
