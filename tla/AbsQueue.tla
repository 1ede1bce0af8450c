------------------------------- MODULE AbsQueue -------------------------------
(***************************************************************************)
(* What a message queue promises its callers: a bounded double-ended queue *)
(* per live handle.  A write adds one message at one end when there is     *)
(* room, a read takes the oldest from the head, and a message is never     *)
(* lost, duplicated, overwritten or reordered.                             *)
(***************************************************************************)
EXTENDS Naturals, Sequences

CONSTANTS Handles, Msgs, MaxLen

VARIABLES capacity,   \* capacity[h]: 0 when there is no such queue
          contents    \* contents[h]: the messages, oldest first

Live(h) == capacity[h] # 0

Init == /\ capacity = [h \in Handles |-> 0]
        /\ contents = [h \in Handles |-> <<>>]

Create(h, len) == /\ ~Live(h)
                  /\ capacity' = [capacity EXCEPT ![h] = len]
                  /\ UNCHANGED contents

Destroy(h) == /\ Live(h)
              /\ capacity' = [capacity EXCEPT ![h] = 0]
              /\ contents' = [contents EXCEPT ![h] = <<>>]

Read(h) == /\ Live(h)
           /\ contents[h] # <<>>
           /\ contents' = [contents EXCEPT ![h] = Tail(@)]
           /\ UNCHANGED capacity

Write(h, msg) == /\ Live(h)
                 /\ Len(contents[h]) < capacity[h]
                 /\ \/ contents' = [contents EXCEPT ![h] = Append(@, msg)]
                    \/ contents' = [contents EXCEPT ![h] = <<msg>> \o @]
                 /\ UNCHANGED capacity

Next == \E h \in Handles :
            \/ \E len \in 1..MaxLen : Create(h, len)
            \/ Destroy(h)
            \/ Read(h)
            \/ \E msg \in Msgs : Write(h, msg)

Spec == Init /\ [][Next]_<<capacity, contents>>

=============================================================================
