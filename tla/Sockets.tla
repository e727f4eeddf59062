------------------------------- MODULE Sockets -------------------------------
(* External: the stream sockets the proxy lab programs are written against.   *)
(* A connection has two ends: "near" called connect, "far" was accepted.      *)
(*   data[e]  bytes on their way to end e, at most SockBuf of them            *)
(*   shut     the ends that are closed                                        *)
(*   err[e]   whether end e was reset: "must" when its peer closed with       *)
(*            unread bytes, "may" when e wrote to a peer that was gone (the   *)
(*            reset and the peer's end of file race each other)               *)
EXTENDS Naturals, Sequences, SequencesExt

CONSTANT SockBuf        \* bytes the kernel holds for a reader
ASSUME SockBufAssumption == SockBuf \in Nat \ {0}

Ends == {"near", "far"}
Other(e) == IF e = "near" THEN "far" ELSE "near"

Absent == [data |-> [e \in Ends |-> <<>>], shut |-> Ends,
           err |-> [e \in Ends |-> "no"]]
Fresh == [Absent EXCEPT !.shut = {}]

Smaller(a, b) == IF a < b THEN a ELSE b

\* read: the kernel hands over the first n bytes.
Taken(k, e, n) == [k EXCEPT !.data[e] = SubSeq(@, n + 1, Len(@))]
AtEof(k, e) == k.data[e] = <<>> /\ Other(e) \in k.shut /\ k.err[e] # "must"
AtError(k, e) == k.data[e] = <<>> /\ k.err[e] # "no"

\* write: as many bytes as fit; to a closed peer they vanish and draw a reset.
Fits(k, e, s) == IF Other(e) \in k.shut THEN Len(s)
                 ELSE Smaller(SockBuf - Len(k.data[Other(e)]), Len(s))
Put(k, e, s) ==
  IF Other(e) \in k.shut
  THEN [k EXCEPT !.err[e] = IF @ = "no" THEN "may" ELSE @]
  ELSE [k EXCEPT !.data[Other(e)] = @ \o s]

\* close: unread bytes turn the end of file the peer would see into a reset,
\* and what the peer had not received yet may be lost with it.
Shut(k, e) ==
  LET closed == [k EXCEPT !.shut = @ \cup {e}, !.data[e] = <<>>]
  IN  IF k.data[e] = <<>> \/ Other(e) \in k.shut THEN {closed}
      ELSE {[closed EXCEPT !.err[Other(e)] = "must",
                           !.data[Other(e)] = SubSeq(@, 1, n)] :
              n \in 0..Len(k.data[Other(e)])}

\* The kernel closes what a process that exits had open.
Abandoned(k, e) ==
  IF e \in k.shut THEN k
  ELSE [k EXCEPT !.shut = @ \cup {e}, !.data[e] = <<>>,
                 !.err[Other(e)] = IF k.data[e] = <<>> THEN @ ELSE "must"]
=============================================================================
