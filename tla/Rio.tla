--------------------------------- MODULE Rio ---------------------------------
(* The robust I/O package of csapp.c. The calls that block (read, write) are  *)
(* steps of the programs that use it; what rio does between two of them is an *)
(* operator here. A rio_t is its unread bytes (buf) and the part of the       *)
(* caller's buffer that the call in progress has filled (usr).                *)
EXTENDS Sockets

CONSTANTS RioBuf,       \* sizeof(rio_buf)
          MaxLine       \* MAXLINE, the size of every buffer a caller passes
ASSUME RioAssumption == RioBuf \in Nat \ {0} /\ MaxLine \in Nat \ {0, 1}

EndsLine == {<<"LF">>, <<"hdr">>}     \* the bytes that hold a newline
Blank == <<<<"CR">>, <<"LF">>>>       \* the line "\r\n"

rio_readinitb == [buf |-> <<>>, usr |-> <<>>]

\* Bytes of buf that rio_readlineb takes before it returns: up to a newline,
\* or until maxlen - 1 bytes are in usr; 0 when it has to read more first.
LineBytes(r) ==
  LET stop == {n \in 1..Len(r.buf) : \/ r.buf[n] \in EndsLine
                                     \/ Len(r.usr) + n = MaxLine - 1}
  IN  IF stop = {} THEN 0 ELSE CHOOSE n \in stop : \A m \in stop : n <= m

\* What rio_readlineb returns without another read, and the rio_t it leaves: a
\* line, or the bytes before the end of file when there are any.
Lines(r, eof) ==
  LET all == r.usr \o r.buf
      n == LineBytes(r)
  IN  IF n > 0 THEN {[line |-> r.usr \o SubSeq(r.buf, 1, n),
                      rio |-> [buf |-> SubSeq(r.buf, n + 1, Len(r.buf)), usr |-> <<>>]]}
      ELSE IF eof /\ all # <<>> THEN {[line |-> all, rio |-> rio_readinitb]}
      ELSE {}

\* rio_read: everything unread goes to the caller, who wants it all, and the
\* buffer is refilled by one read that may come back short.
Refill(r, bytes) == [buf |-> bytes, usr |-> r.usr \o r.buf]
ReadSizes(k, e) == 1..Smaller(Len(k.data[e]), RioBuf)

\* rio_readnb: the block is full, or takes what it can of the unread bytes.
WantedAll(r) == Len(r.buf)         \* mutant: the caller's buffer is not looked at
Wanted(r) == Smaller(MaxLine - Len(r.usr), Len(r.buf))
Copied(r) == [buf |-> SubSeq(r.buf, Wanted(r) + 1, Len(r.buf)),
              usr |-> r.usr \o SubSeq(r.buf, 1, Wanted(r))]
BlockFull(r) == Len(r.usr) = MaxLine
=============================================================================
