------------------------------- MODULE LosList -------------------------------
(***************************************************************************)
(* The doubly linked lists of the kernel (kernel/include/los_list.h) as    *)
(* sequences of the objects their nodes are embedded in.                   *)
(***************************************************************************)
EXTENDS Integers, SequencesExt

\* LOS_ListDelete: unlink the node of e; a list that does not hold it is unchanged.
LOS_ListDelete(l, e) ==
    IF e \in ToSet(l) THEN RemoveAt(l, CHOOSE i \in DOMAIN l : l[i] = e) ELSE l

\* A walk over l that unlinks the elements of S: what is left, in its order.
ListWithout(l, S) ==
    LET left[i \in 0..Len(l)] ==
            IF i = 0 THEN <<>>
            ELSE IF l[i] \in S THEN left[i - 1] ELSE Append(left[i - 1], l[i])
    IN left[Len(l)]

=============================================================================
