------------------------------- MODULE Delivery ------------------------------
(* What a client of the proxy lab is promised: the answer to its own request, *)
(* byte by byte in order, and the end of file not before the last byte, unless *)
(* the answer is one that breaks off or the connection fails.                 *)
EXTENDS Sequences, Naturals

CONSTANT Clients
VARIABLES owed,    \* owed[c]: the whole answer to the request of c; never changes
          fragile, \* the clients whose answer may end early; never changes
          got,     \* got[c]: the bytes c has received
          end      \* end[c]: "open", "eof" or "failed"

Init == got = [c \in Clients |-> <<>>] /\ end = [c \in Clients |-> "open"]

Deliver(c) ==
  /\ end[c] = "open"
  /\ \E n \in Len(got[c]) + 1..Len(owed[c]) : got' = [got EXCEPT ![c] = SubSeq(owed[c], 1, n)]
  /\ UNCHANGED <<end, owed, fragile>>
Finish(c) ==
  /\ end[c] = "open" /\ (got[c] = owed[c] \/ c \in fragile)
  /\ end' = [end EXCEPT ![c] = "eof"] /\ UNCHANGED <<got, owed, fragile>>
Fail(c) == end[c] = "open" /\ end' = [end EXCEPT ![c] = "failed"] /\ UNCHANGED <<got, owed, fragile>>

Next == \E c \in Clients : Deliver(c) \/ Finish(c) \/ Fail(c)
Spec == Init /\ [][Next]_<<got, end, owed, fragile>>
=============================================================================
