----------------------------- MODULE WebProofs -----------------------------
(***************************************************************************)
(* The theorems about Web, for any clients, any scenarios of requests and  *)
(* any sizes of the buffers: every state is well-typed, and the proxy and  *)
(* tiny close the descriptors they open.                                   *)
(*                                                                         *)
(* The invariant has two layers. Held says what types and sizes the        *)
(* connections, threads and queues have, and where a client may be known   *)
(* while its connections are open. Asked follows the request of a client   *)
(* of the proxy, byte by byte, from the client through the connection into *)
(* the buffer of its thread: what the thread has decided agrees with the   *)
(* request. Of every action there is a lemma for each layer; what rio and  *)
(* the sockets do to a sequence of bytes is stated once, before.           *)
(***************************************************************************)
EXTENDS Web, TLAPS, NaturalsInduction, WellFoundedInduction, FiniteSetTheorems, SequenceTheorems

USE SockBufAssumption, RioAssumption

-----------------------------------------------------------------------------
(* Sequences, cut in two and joined. What is joined is written with ++, which *)
(* the provers take as it stands.                                             *)

s ++ t == s \o t

(* ++ is associative, and its length is the sum. *)
LEMMA Assoc == ASSUME NEW S, NEW s \in Seq(S), NEW t \in Seq(S), NEW u \in Seq(S)
               PROVE  (s ++ t) ++ u = s ++ (t ++ u)
  BY ConcatAssociative DEF ++

LEMMA Joined == ASSUME NEW S, NEW s \in Seq(S), NEW t \in Seq(S)
                PROVE  /\ s ++ t \in Seq(S) /\ Len(s ++ t) = Len(s) + Len(t)
                       /\ Len(s) \in Nat /\ Len(t) \in Nat
  BY ConcatProperties, LenProperties DEF ++

(* The empty sequence adds nothing. *)
LEMMA Unit == ASSUME NEW S, NEW s \in Seq(S) PROVE s ++ <<>> = s /\ <<>> ++ s = s /\ <<>> \in Seq(S)
  BY ConcatEmptySeq, EmptySeq DEF ++

(* Only empty sequences make an empty one. *)
LEMMA NoneJoined ==
  ASSUME NEW S, NEW s \in Seq(S), NEW t \in Seq(S), s ++ t = <<>>
  PROVE  s = <<>> /\ t = <<>>
<1>1. Len(s) + Len(t) = 0 /\ Len(s) \in Nat /\ Len(t) \in Nat
  BY Joined, EmptySeq
<1>2. Len(s) = 0 /\ Len(t) = 0
  BY <1>1
<1>3. QED
  BY <1>2, EmptySeq

(* A sequence cut in two. *)
LEMMA Cut ==
  ASSUME NEW S, NEW s \in Seq(S), NEW n \in Nat
  PROVE  /\ SubSeq(s, n + 1, Len(s)) \in Seq(S)
         /\ n <= Len(s) => /\ SubSeq(s, 1, n) \in Seq(S) /\ Len(SubSeq(s, 1, n)) = n
                           /\ Len(SubSeq(s, n + 1, Len(s))) = Len(s) - n
                           /\ SubSeq(s, 1, n) ++ SubSeq(s, n + 1, Len(s)) = s
         /\ n >= Len(s) => SubSeq(s, n + 1, Len(s)) = <<>>
<1>1. Len(s) \in Nat /\ \A i \in 1..Len(s) : s[i] \in S
  BY ElementOfSeq
<1>2. SubSeq(s, n + 1, Len(s)) \in Seq(S) /\ (n >= Len(s) => SubSeq(s, n + 1, Len(s)) = <<>>)
  BY <1>1, SubSeqProperties, SubSeqEmpty
<1>3. ASSUME n <= Len(s)
      PROVE  /\ SubSeq(s, 1, n) \in Seq(S) /\ Len(SubSeq(s, 1, n)) = n
             /\ Len(SubSeq(s, n + 1, Len(s))) = Len(s) - n
             /\ SubSeq(s, 1, n) ++ SubSeq(s, n + 1, Len(s)) = s
  <2>1. SubSeq(s, 1, n) \in Seq(S) /\ Len(SubSeq(s, 1, n)) = n /\ Len(SubSeq(s, n + 1, Len(s))) = Len(s) - n
    BY <1>1, <1>3, SubSeqProperties
  <2>2. SubSeq(s, 1, n) ++ SubSeq(s, n + 1, Len(s)) = SubSeq(s, 1, Len(s))
    <3>1. 1 \in 1..Len(s) + 1 /\ n \in 1 - 1..Len(s) /\ Len(s) \in n..Len(s)
      BY <1>1, <1>3
    <3>2. QED
      BY <3>1, ConcatAdjacentSubSeq DEF ++
  <2>3. SubSeq(s, 1, Len(s)) = s
    BY SubSeqFull
  <2>4. QED
    BY <2>1, <2>2, <2>3
<1>4. QED
  BY <1>1, <1>2, <1>3

-----------------------------------------------------------------------------
(* Connections.                                                              *)

(* The strings. The provers do not know that a literal is one of them. *)
Text == STRING \cup {"", "404", "403", "501", "status", "page", "head", "server", "sum"}
GetLine == {"GET"} \X Text \X Text
AskByte == GetLine \cup {<<"POST">>, <<"LF">>, <<"hdr">>, <<"CR">>}
AnsByte == Text \X (Text \cup Nat)
Byte == AskByte \cup AnsByte

Errs == {"no", "may", "must"}

(* A connection carries requests from near to far and answers back. An end is
   reset only after the other one closed, and a closed end holds no data. *)
GoodConn(k) ==
  /\ k \in [data : [Ends -> Seq(Byte)], shut : SUBSET Ends, err : [Ends -> Errs]]
  /\ k.data["near"] \in Seq(AnsByte) /\ k.data["far"] \in Seq(AskByte)
  /\ \A e \in Ends : Len(k.data[e]) <= SockBuf
  /\ \A e \in Ends : (k.err[e] # "no" => Other(e) \in k.shut) /\ (e \in k.shut => k.data[e] = <<>>)

(* The bytes on their way to an end. *)
Flow(e) == IF e = "near" THEN AnsByte ELSE AskByte

(* The two ends. *)
LEMMA EndsAre == /\ Ends = {"near", "far"} /\ Other("near") = "far" /\ Other("far") = "near"
                 /\ \A e \in Ends : Other(e) \in Ends /\ Other(e) # e /\ Other(Other(e)) = e
  BY DEF Ends, Other

(* What flows either way is bytes. *)
LEMMA FlowIsByte == \A e \in Ends : Seq(Flow(e)) \subseteq Seq(Byte)
  BY SeqMonotonic DEF Flow, Byte

(* What a connection holds for an end. *)
LEMMA ConnData ==
  ASSUME NEW k, GoodConn(k), NEW e \in Ends
  PROVE  k.data[e] \in Seq(Flow(e)) /\ Len(k.data[e]) \in 0..SockBuf
<1>1. k.data[e] \in Seq(Flow(e))
  BY EndsAre DEF GoodConn, Flow
<1>2. Len(k.data[e]) \in Nat /\ Len(k.data[e]) <= SockBuf
  BY <1>1, LenProperties DEF GoodConn
<1>3. QED
  BY <1>1, <1>2

(* No connection, a new one, and one after each call on it. *)
LEMMA AbsentIs == /\ GoodConn(Absent) /\ Absent.shut = Ends /\ Absent.err = [e \in Ends |-> "no"]
                  /\ \A e \in Ends : Absent.data[e] = <<>>
<1>1. <<>> \in Seq(Byte) /\ <<>> \in Seq(AnsByte) /\ <<>> \in Seq(AskByte) /\ Len(<<>>) = 0
  BY EmptySeq
<1>2. QED
  BY <1>1, EndsAre DEF GoodConn, Absent, Errs

LEMMA FreshIs == /\ GoodConn(Fresh) /\ Fresh.shut = {} /\ Fresh.err = [e \in Ends |-> "no"]
                 /\ \A e \in Ends : Fresh.data[e] = <<>>
<1>1. <<>> \in Seq(Byte) /\ <<>> \in Seq(AnsByte) /\ <<>> \in Seq(AskByte) /\ Len(<<>>) = 0
  BY EmptySeq
<1>2. Fresh = [data |-> [e \in Ends |-> <<>>], shut |-> {}, err |-> [e \in Ends |-> "no"]]
  <2>1. \A d, s, r : [[data |-> d, shut |-> s, err |-> r] EXCEPT !.shut = {}] = [data |-> d, shut |-> {}, err |-> r]
    OBVIOUS
  <2>2. QED
    BY <2>1 DEF Fresh, Absent
<1>3. QED
  BY <1>1, <1>2, EndsAre DEF GoodConn, Errs

LEMMA TakenIs ==
  ASSUME NEW k, GoodConn(k), NEW e \in Ends, NEW n \in Nat
  PROVE  /\ GoodConn(Taken(k, e, n))
         /\ Taken(k, e, n).data[e] = SubSeq(k.data[e], n + 1, Len(k.data[e]))
         /\ Taken(k, e, n).data[Other(e)] = k.data[Other(e)]
         /\ Taken(k, e, n).shut = k.shut /\ Taken(k, e, n).err = k.err
<1>1. PICK new : new = SubSeq(k.data[e], n + 1, Len(k.data[e]))
  OBVIOUS
<1>2. new \in Seq(Flow(e)) /\ Len(new) <= Len(k.data[e]) /\ (k.data[e] = <<>> => new = <<>>)
  <2>1. CASE n <= Len(k.data[e])
    BY <1>1, <2>1, ConnData, Cut, LenProperties, EmptySeq
  <2>2. CASE n > Len(k.data[e])
    BY <1>1, <2>2, ConnData, Cut, LenProperties, EmptySeq
  <2>3. QED
    BY <2>1, <2>2, ConnData
<1>3. PICK j : j = Taken(k, e, n) /\ j = [k EXCEPT !.data[e] = new]
  BY <1>1 DEF Taken
<1>4. k \in [data : [Ends -> Seq(Byte)], shut : SUBSET Ends, err : [Ends -> Errs]]
  BY DEF GoodConn
<1>5. j = [data |-> [k.data EXCEPT ![e] = new], shut |-> k.shut, err |-> k.err]
  BY <1>3, <1>4
<1>6. new \in Seq(Byte)
  BY <1>2, FlowIsByte
<1>7. /\ j.data \in [Ends -> Seq(Byte)] /\ j.data[e] = new /\ j.data[Other(e)] = k.data[Other(e)]
      /\ \A d \in Ends : j.data[d] = IF d = e THEN new ELSE k.data[d]
  BY <1>4, <1>5, <1>6, EndsAre
<1>8. j.data["near"] \in Seq(AnsByte) /\ j.data["far"] \in Seq(AskByte)
  BY <1>2, <1>7, EndsAre DEF GoodConn, Flow
<1>9. \A d \in Ends : Len(j.data[d]) <= SockBuf /\ (k.data[d] = <<>> => j.data[d] = <<>>)
  <2>1. Len(new) \in Nat /\ Len(new) <= SockBuf
    BY <1>2, ConnData, LenProperties
  <2>2. QED
    BY <2>1, <1>2, <1>7 DEF GoodConn
<1>10. GoodConn(j)
  BY <1>4, <1>5, <1>7, <1>8, <1>9 DEF GoodConn
<1>11. QED
  BY <1>1, <1>3, <1>5, <1>7, <1>10

LEMMA FitsIs ==
  ASSUME NEW k, GoodConn(k), NEW e \in Ends, NEW S, NEW s \in Seq(S)
  PROVE  /\ Fits(k, e, s) \in 0..Len(s) /\ Len(s) \in Nat
         /\ Other(e) \notin k.shut => Len(k.data[Other(e)]) + Fits(k, e, s) <= SockBuf
<1>1. PICK m, d : m = Len(s) /\ d = Len(k.data[Other(e)]) /\ m \in Nat /\ d \in 0..SockBuf
  BY ConnData, EndsAre, LenProperties
<1>2. Fits(k, e, s) = IF Other(e) \in k.shut THEN m ELSE Smaller(SockBuf - d, m)
  BY <1>1 DEF Fits
<1>3. ASSUME NEW a \in Nat, NEW b \in 0..a, NEW i \in Nat
      PROVE  Smaller(a - b, i) \in 0..i /\ b + Smaller(a - b, i) <= a
  <2>1. CASE a - b < i
    BY <2>1 DEF Smaller
  <2>2. CASE ~ (a - b < i)
    BY <2>2 DEF Smaller
  <2>3. QED
    BY <2>1, <2>2
<1>4. SockBuf \in Nat
  OBVIOUS
<1>5. Smaller(SockBuf - d, m) \in 0..m /\ d + Smaller(SockBuf - d, m) <= SockBuf
  BY <1>1, <1>3, <1>4
<1>6. QED
  BY <1>1, <1>2, <1>5

LEMMA PutIs ==
  ASSUME NEW k, GoodConn(k), NEW e \in Ends, NEW s \in Seq(Flow(Other(e))),
         Other(e) \notin k.shut => Len(k.data[Other(e)]) + Len(s) <= SockBuf
  PROVE  /\ GoodConn(Put(k, e, s))
         /\ Put(k, e, s).data[e] = k.data[e] /\ Put(k, e, s).shut = k.shut
         /\ Put(k, e, s).err[Other(e)] = k.err[Other(e)]
         /\ Other(e) \in k.shut => /\ Put(k, e, s).data = k.data
                                   /\ Put(k, e, s).err[e] = IF k.err[e] = "no" THEN "may" ELSE k.err[e]
         /\ Other(e) \notin k.shut => /\ Put(k, e, s).data[Other(e)] = k.data[Other(e)] ++ s
                                      /\ Put(k, e, s).err = k.err
<1> DEFINE o == Other(e)
           j == Put(k, e, s)
<1>1. o \in Ends /\ o # e /\ Other(o) = e /\ (o = "near" \/ o = "far")
  BY EndsAre
<1>2. CASE o \in k.shut
  <2>1. j = [data |-> k.data, shut |-> k.shut,
             err |-> [k.err EXCEPT ![e] = IF k.err[e] = "no" THEN "may" ELSE k.err[e]]]
    BY <1>2 DEF Put, GoodConn
  <2>2. j.err[e] = (IF k.err[e] = "no" THEN "may" ELSE k.err[e]) /\ j.err[o] = k.err[o] /\ j.err \in [Ends -> Errs]
    BY <2>1, <1>1 DEF GoodConn, Errs
  <2>3. GoodConn(j)
    BY <2>1, <2>2, <1>1, <1>2, EndsAre DEF GoodConn
  <2>4. QED
    BY <2>1, <2>2, <2>3, <1>2
<1>3. CASE o \notin k.shut
  <2>1. k.data[o] ++ s \in Seq(Flow(o)) /\ Len(k.data[o] ++ s) = Len(k.data[o]) + Len(s)
    BY <1>1, ConnData, Joined
  <2>2. k.data[o] ++ s \in Seq(Byte)
    BY <2>1, <1>1, FlowIsByte
  <2>3. j = [data |-> [k.data EXCEPT ![o] = k.data[o] ++ s], shut |-> k.shut, err |-> k.err]
    BY <1>3 DEF Put, GoodConn, ++
  <2>4. \A d \in Ends : j.data[d] = IF d = o THEN k.data[o] ++ s ELSE k.data[d]
    BY <2>3 DEF GoodConn
  <2>5. GoodConn(j)
    BY <2>1, <2>2, <2>3, <2>4, <1>1, <1>3, EndsAre DEF GoodConn, Flow
  <2>6. j.data[e] = k.data[e] /\ j.data[o] = k.data[o] ++ s
    BY <2>4, <1>1
  <2>7. j.shut = k.shut /\ j.err = k.err
    BY <2>3
  <2>8. QED
    BY <2>5, <2>6, <2>7, <1>3
<1>4. QED
  BY <1>2, <1>3

LEMMA ShutIs ==
  ASSUME NEW k, GoodConn(k), NEW e \in Ends, NEW j \in Shut(k, e)
  PROVE  /\ GoodConn(j) /\ j.shut = k.shut \cup {e} /\ j.data[e] = <<>> /\ j.err[e] = k.err[e]
         /\ \E n \in 0..Len(k.data[Other(e)]) : j.data[Other(e)] = SubSeq(k.data[Other(e)], 1, n)
         /\ k.data[e] = <<>> \/ Other(e) \in k.shut => 
              j.data[Other(e)] = k.data[Other(e)] /\ j.err = k.err
         /\ k.data[e] # <<>> /\ Other(e) \notin k.shut => j.err[Other(e)] = "must"
<1> DEFINE o == Other(e)
<1>1. o \in Ends /\ o # e /\ Other(o) = e /\ (o = "near" \/ o = "far") /\ (e = "near" \/ e = "far")
  BY EndsAre
<1>2. k.data[o] \in Seq(Flow(o)) /\ Len(k.data[o]) \in 0..SockBuf
  BY <1>1, ConnData
<1>3. <<>> \in Seq(Byte) /\ <<>> \in Seq(AnsByte) /\ <<>> \in Seq(AskByte) /\ Len(<<>>) = 0
  BY EmptySeq
<1>4. CASE k.data[e] = <<>> \/ o \in k.shut
  <2>1. j = [data |-> [k.data EXCEPT ![e] = <<>>], shut |-> k.shut \cup {e}, err |-> k.err]
    BY <1>4 DEF Shut, GoodConn
  <2>2. j.data[e] = <<>> /\ j.data[o] = k.data[o] /\ j.data \in [Ends -> Seq(Byte)]
    BY <2>1, <1>1, <1>3 DEF GoodConn
  <2>3. GoodConn(j)
    BY <2>1, <2>2, <1>1, <1>2, <1>3, EndsAre DEF GoodConn
  <2>4. k.data[o] = SubSeq(k.data[o], 1, Len(k.data[o])) /\ Len(k.data[o]) \in 0..Len(k.data[o])
    BY <1>2, SubSeqFull
  <2>5. QED
    BY <2>1, <2>2, <2>3, <2>4, <1>4
<1>5. CASE ~ (k.data[e] = <<>> \/ o \in k.shut)
  <2>1. PICK n \in 0..Len(k.data[o]) :
          j = [data |-> [[k.data EXCEPT ![e] = <<>>] EXCEPT ![o] = SubSeq(k.data[o], 1, n)],
               shut |-> k.shut \cup {e}, err |-> [k.err EXCEPT ![o] = "must"]]
    BY <1>5, <1>1, ZenonT(40) DEF Shut, GoodConn
  <2>2. SubSeq(k.data[o], 1, n) \in Seq(Flow(o)) /\ Len(SubSeq(k.data[o], 1, n)) = n
    BY <1>2, Cut
  <2>3. SubSeq(k.data[o], 1, n) \in Seq(Byte)
    BY <2>2, <1>1, FlowIsByte
  <2>4. j.data[e] = <<>> /\ j.data[o] = SubSeq(k.data[o], 1, n) /\ j.data \in [Ends -> Seq(Byte)]
    <3>1. PICK t : t = SubSeq(k.data[o], 1, n) /\ t \in Seq(Byte)
      BY <2>3
    <3>2. PICK x : x = k.data /\ x \in [Ends -> Seq(Byte)]
      BY DEF GoodConn
    <3>3. PICK d : d = [x EXCEPT ![e] = <<>>]
      OBVIOUS
    <3>4. d \in [Ends -> Seq(Byte)] /\ d[e] = <<>>
      BY <3>2, <3>3, <1>3
    <3>5. j.data = [d EXCEPT ![o] = t]
      BY <2>1, <3>1, <3>2, <3>3
    <3>6. j.data[o] = t /\ j.data[e] = d[e] /\ j.data \in [Ends -> Seq(Byte)]
      BY <1>1, <3>1, <3>4, <3>5
    <3>7. QED
      BY <3>1, <3>4, <3>6
  <2>5. j.err[o] = "must" /\ j.err[e] = k.err[e] /\ j.err \in [Ends -> Errs]
    BY <2>1, <1>1 DEF GoodConn, Errs
  <2>6. GoodConn(j)
    BY <2>1, <2>2, <2>4, <2>5, <1>1, <1>2, <1>3, <1>5, EndsAre, SMTT(40) DEF GoodConn, Flow
  <2>7. QED
    BY <2>1, <2>4, <2>5, <2>6, <1>5
<1>6. QED
  BY <1>4, <1>5

LEMMA AbandonedIs ==
  ASSUME NEW k, GoodConn(k), NEW e \in Ends
  PROVE  /\ GoodConn(Abandoned(k, e)) /\ Abandoned(k, e).shut = k.shut \cup {e}
         /\ Abandoned(k, e).data[e] = <<>> /\ Abandoned(k, e).err[e] = k.err[e]
         /\ Abandoned(k, e).data[Other(e)] = k.data[Other(e)]
<1> DEFINE o == Other(e)
           j == Abandoned(k, e)
<1>1. o \in Ends /\ o # e /\ Other(o) = e /\ (o = "near" \/ o = "far") /\ (e = "near" \/ e = "far")
  BY EndsAre
<1>2. <<>> \in Seq(Byte) /\ <<>> \in Seq(AnsByte) /\ <<>> \in Seq(AskByte) /\ Len(<<>>) = 0
  BY EmptySeq
<1>3. CASE e \in k.shut
  <2>1. j = k /\ k.shut = k.shut \cup {e} /\ k.data[e] = <<>>
    BY <1>3 DEF Abandoned, GoodConn
  <2>2. QED
    BY <2>1
<1>4. CASE e \notin k.shut
  <2>1. j = [data |-> [k.data EXCEPT ![e] = <<>>], shut |-> k.shut \cup {e},
             err |-> [k.err EXCEPT ![o] = IF k.data[e] = <<>> THEN k.err[o] ELSE "must"]]
    BY <1>4 DEF Abandoned, GoodConn
  <2>2. j.data[e] = <<>> /\ j.data[o] = k.data[o] /\ j.data \in [Ends -> Seq(Byte)]
    BY <2>1, <1>1, <1>2 DEF GoodConn
  <2>3. j.err[e] = k.err[e] /\ j.err \in [Ends -> Errs]
    BY <2>1, <1>1 DEF GoodConn, Errs
  <2>4. GoodConn(j)
    BY <2>1, <2>2, <2>3, <1>1, <1>2, EndsAre DEF GoodConn
  <2>5. QED
    BY <2>1, <2>2, <2>3, <2>4
<1>5. QED
  BY <1>3, <1>4

-----------------------------------------------------------------------------
(* The buffered reads.                                                       *)

(* The order of the natural numbers as a relation. *)
Below == {p \in Nat \X Nat : p[1] < p[2]}

LEMMA BelowWellFounded == IsWellFoundedOn(Below, Nat)
<1>1. Below = OpToRel(<, Nat)
  BY DEF Below, OpToRel
<1>2. QED
  BY <1>1, NatLessThanWellFounded

(* Induction: what fails for some number fails for a least one. *)
LEMMA LeastNat ==
  ASSUME NEW S, S \subseteq Nat, S # {}
  PROVE  \E m \in S : \A k \in S : m <= k
<1>1. PICK m \in S : \A k \in S : ~ (<<k, m>> \in Below)
  BY BelowWellFounded, WFMin
<1>2. ASSUME NEW k \in S, k < m PROVE FALSE
  <2>1. <<k, m>> \in Below
    BY <1>2 DEF Below
  <2>2. QED
    BY <1>1, <2>1
<1>3. \A k \in S : m <= k
  BY <1>2
<1>4. QED
  BY <1>3

Rio(S) == [buf : Seq(S), usr : Seq(S)]

LEMMA RioInit == ASSUME NEW S PROVE rio_readinitb \in Rio(S) /\ rio_readinitb.buf = <<>> /\ rio_readinitb.usr = <<>>
BY EmptySeq DEF Rio, rio_readinitb

LEMMA RioParts ==
  ASSUME NEW S, NEW r \in Rio(S)
  PROVE  /\ r.buf \in Seq(S) /\ r.usr \in Seq(S)
         /\ Len(r.buf) \in Nat /\ Len(r.usr) \in Nat
         /\ r = [buf |-> r.buf, usr |-> r.usr]
BY LenProperties DEF Rio

LEMMA RioMade ==
  ASSUME NEW S, NEW b \in Seq(S), NEW u \in Seq(S), NEW r, r = [buf |-> b, usr |-> u]
  PROVE  r \in Rio(S) /\ r.buf = b /\ r.usr = u
BY DEF Rio

(* The line that rio_readlineb takes ends in the unread bytes. *)
LEMMA LineBytesIs ==
  ASSUME NEW S, NEW r \in Rio(S), NEW l, l = LineBytes(r)
  PROVE  /\ l \in 0..Len(r.buf)
         /\ l = 0 => \A n \in 1..Len(r.buf) : Len(r.usr) + n # MaxLine - 1
<1>1. PICK b, u : b = r.buf /\ u = r.usr /\ Len(b) \in Nat
  BY RioParts
<1>2. PICK stop : stop = {n \in 1..Len(b) : \/ b[n] \in EndsLine
                                           \/ Len(u) + n = MaxLine - 1}
  OBVIOUS
<1>3. l = IF stop = {} THEN 0 ELSE CHOOSE n \in stop : \A m \in stop : n <= m
  BY <1>1, <1>2 DEF LineBytes
<1>4. stop \subseteq 1..Len(b) /\ stop \subseteq Nat
  BY <1>1, <1>2
<1>5. CASE stop = {}
  <2>1. l = 0 /\ \A n \in 1..Len(b) : Len(u) + n # MaxLine - 1
    BY <1>2, <1>3, <1>5
  <2>2. QED
    BY <1>1, <2>1
<1>6. CASE stop # {}
  <2>1. \E n \in stop : \A m \in stop : n <= m
    BY <1>4, <1>6, LeastNat
  <2>2. l \in stop
    BY <1>3, <1>6, <2>1
  <2>3. l \in 1..Len(b)
    BY <1>4, <2>2
  <2>4. QED
    BY <1>1, <2>3
<1>7. QED
  BY <1>5, <1>6

(* rio_readlineb takes the line off the front of what has been read, and leaves
   the rest in the buffer. *)
LEMMA LinesAre ==
  ASSUME NEW S, NEW r \in Rio(S), NEW eof, NEW g \in Lines(r, eof)
  PROVE  /\ g.line \in Seq(S) /\ g.line # <<>>
         /\ g.rio \in Rio(S) /\ g.rio.usr = <<>> /\ Len(g.rio.buf) <= Len(r.buf)
         /\ g.line ++ g.rio.buf = r.usr ++ r.buf
<1>1. PICK n, buf, usr : n = LineBytes(r) /\ buf = r.buf /\ usr = r.usr
  OBVIOUS
<1>2. n \in 0..Len(buf) /\ Len(buf) \in Nat /\ buf \in Seq(S) /\ usr \in Seq(S) /\ Len(usr) \in Nat
  BY <1>1, LineBytesIs, RioParts
<1>3. <<>> \in Seq(S) /\ Len(<<>>) = 0
  BY EmptySeq
<1>4. SUFFICES \E line, b : /\ g.line = line /\ g.rio = [buf |-> b, usr |-> <<>>]
                            /\ line \in Seq(S) /\ line # <<>> /\ b \in Seq(S) /\ Len(b) <= Len(buf)
                            /\ line ++ b = usr ++ buf
  BY <1>1, <1>3 DEF Rio
<1>5. CASE n > 0
  <2>1. PICK a, b : a = SubSeq(buf, 1, n) /\ b = SubSeq(buf, n + 1, Len(buf))
    OBVIOUS
  <2>2. g = [line |-> usr ++ a, rio |-> [buf |-> b, usr |-> <<>>]]
    BY <1>1, <1>5, <2>1 DEF Lines, ++
  <2>3. a \in Seq(S) /\ b \in Seq(S) /\ Len(a) = n /\ Len(b) = Len(buf) - n /\ a ++ b = buf
    BY <1>2, <2>1, Cut
  <2>4. usr ++ a \in Seq(S) /\ Len(usr ++ a) = Len(usr) + Len(a)
    BY <1>2, <2>3, Joined
  <2>5. usr ++ a # <<>>
    BY <1>2, <1>5, <1>3, <2>3, <2>4
  <2>6. (usr ++ a) ++ b = usr ++ buf
    BY <1>2, <2>3, Assoc
  <2>7. Len(b) <= Len(buf)
    BY <1>2, <2>3
  <2>8. QED
    BY <2>2, <2>3, <2>4, <2>5, <2>6, <2>7
<1>6. CASE ~ (n > 0)
  <2>1. g = [line |-> usr ++ buf, rio |-> rio_readinitb] /\ usr ++ buf # <<>>
    BY <1>1, <1>6 DEF Lines, ++
  <2>2. usr ++ buf \in Seq(S)
    BY <1>2, Joined
  <2>3. (usr ++ buf) ++ <<>> = usr ++ buf
    BY <2>2, Unit
  <2>4. g.rio = [buf |-> <<>>, usr |-> <<>>]
    BY <2>1 DEF rio_readinitb
  <2>5. Len(<<>>) <= Len(buf)
    BY <1>2, <1>3
  <2>6. QED
    BY <1>3, <2>1, <2>2, <2>3, <2>4, <2>5
<1>7. QED
  BY <1>5, <1>6

(* A read that rio_readlineb needs appends to what has been read. *)
LEMMA RefillIs ==
  ASSUME NEW S, NEW r \in Rio(S), NEW bytes \in Seq(S), NEW q, q = Refill(r, bytes)
  PROVE  /\ q \in Rio(S) /\ q.buf = bytes /\ q.usr = r.usr ++ r.buf
         /\ LineBytes(r) = 0 /\ Len(r.usr) < MaxLine - 1 => Len(q.usr) < MaxLine - 1
<1>1. PICK n, buf, usr : n = LineBytes(r) /\ buf = r.buf /\ usr = r.usr
  OBVIOUS
<1>2. n \in 0..Len(buf) /\ Len(buf) \in Nat /\ buf \in Seq(S) /\ usr \in Seq(S) /\ Len(usr) \in Nat
  BY <1>1, LineBytesIs, RioParts
<1>3. usr ++ buf \in Seq(S) /\ Len(usr ++ buf) = Len(usr) + Len(buf)
  BY <1>2, Joined
<1>4. q = [buf |-> bytes, usr |-> usr ++ buf]
  BY <1>1 DEF Refill, ++
<1>5. q \in Rio(S) /\ q.buf = bytes /\ q.usr = usr ++ buf
  BY <1>3, <1>4 DEF Rio
<1>6. ASSUME n = 0, Len(usr) < MaxLine - 1 PROVE Len(usr) + Len(buf) < MaxLine - 1
  <2>1. \A i \in 1..Len(buf) : Len(usr) + i # MaxLine - 1
    BY <1>1, <1>6, LineBytesIs
  <2>2. SUFFICES ASSUME Len(usr) + Len(buf) >= MaxLine - 1 PROVE FALSE
    BY <1>2
  <2>3. PICK i : i = MaxLine - 1 - Len(usr)
    OBVIOUS
  <2>4. i \in 1..Len(buf) /\ Len(usr) + i = MaxLine - 1
    BY <1>2, <1>6, <2>2, <2>3
  <2>5. QED
    BY <2>1, <2>4
<1>7. n = 0 /\ Len(usr) < MaxLine - 1 => Len(q.usr) < MaxLine - 1
  BY <1>3, <1>5, <1>6
<1>8. QED
  BY <1>1, <1>5, <1>7

(* rio_readnb moves bytes to the caller until his buffer is full. *)
LEMMA CopiedIs ==
  ASSUME NEW S, NEW r \in Rio(S), Len(r.usr) <= MaxLine, NEW q, q = Copied(r)
  PROVE  /\ q \in Rio(S) /\ Len(q.usr) <= MaxLine /\ Len(q.buf) <= Len(r.buf)
         /\ q.usr ++ q.buf = r.usr ++ r.buf
         /\ Len(q.usr) # MaxLine => q.buf = <<>>
<1>1. PICK n, buf, usr : n = Wanted(r) /\ buf = r.buf /\ usr = r.usr
  OBVIOUS
<1>2. Len(buf) \in Nat /\ buf \in Seq(S) /\ usr \in Seq(S) /\ Len(usr) \in Nat /\ Len(usr) <= MaxLine
  BY <1>1, RioParts
<1>3. n = IF MaxLine - Len(usr) < Len(buf) THEN MaxLine - Len(usr) ELSE Len(buf)
  BY <1>1 DEF Wanted, Smaller
<1>4. /\ n \in 0..Len(buf) /\ Len(usr) + n <= MaxLine
      /\ Len(usr) + n # MaxLine => n = Len(buf)
  BY <1>2, <1>3
<1>5. PICK a, b : a = SubSeq(buf, 1, n) /\ b = SubSeq(buf, n + 1, Len(buf))
  OBVIOUS
<1>6. q = [buf |-> b, usr |-> usr ++ a]
  BY <1>1, <1>5 DEF Copied, ++
<1>7. a \in Seq(S) /\ b \in Seq(S) /\ Len(a) = n /\ Len(b) = Len(buf) - n /\ a ++ b = buf /\ (n >= Len(buf) => b = <<>>)
  BY <1>2, <1>4, <1>5, Cut
<1>8. usr ++ a \in Seq(S) /\ Len(usr ++ a) = Len(usr) + n
  BY <1>2, <1>7, Joined
<1>9. (usr ++ a) ++ b = usr ++ buf
  BY <1>2, <1>7, Assoc
<1>10. q \in Rio(S) /\ q.buf = b /\ q.usr = usr ++ a
  BY <1>6, <1>7, <1>8 DEF Rio
<1>11. Len(b) <= Len(buf) /\ (Len(usr ++ a) # MaxLine => b = <<>>) /\ Len(usr ++ a) <= MaxLine
  BY <1>2, <1>4, <1>7, <1>8
<1>12. QED
  BY <1>1, <1>9, <1>10, <1>11

-----------------------------------------------------------------------------
(* The invariant: types, sizes, and who holds which descriptor.              *)

ConnType == [data : [Ends -> Seq(Byte)], shut : SUBSET Ends, err : [Ends -> Errs]]
Serving == {"send", "relay", "write"}
Reading == {"line", "hdr1", "hdrs"}

PxType == [pc : Busy \cup {"none", "leaked", "done"}, rio : Rio(Byte), out : Seq(Byte), uri : Byte \cup {<<>>}]
GoodThread(p) ==
  /\ p \in PxType
  /\ Len(p.rio.buf) <= RioBuf /\ Len(p.rio.usr) <= MaxLine
  /\ p.pc \in {"none", "done"} => p = [Idle EXCEPT !.pc = p.pc]
  /\ p.pc \in Reading => p.rio \in Rio(AskByte) /\ Len(p.rio.usr) < MaxLine - 1
  /\ p.pc \in {"hdr1", "hdrs", "connect", "send"} => p.uri \in GetLine
  /\ p.pc = "send" => p.out \in Seq(AskByte)
  /\ p.pc \in {"relay", "write"} => p.rio \in Rio(AnsByte)
  /\ p.pc = "relay" => p.rio.buf = <<>> /\ Len(p.rio.usr) < MaxLine /\ p.out = <<>>
  /\ p.pc = "write" => p.rio.usr = <<>>
  /\ p.pc \in {"write", "error"} => p.out \in Seq(AnsByte)

TinyPcs == {"starting", "accept", "line", "hdr1", "hdrs", "serve", "page", "head", "map",
            "body", "cgi", "fork", "wait", "close", "spin", "down"}
GoodTiny ==
  /\ tiny \in [pc : TinyPcs, conn : Clients \cup {NoConn}, rio : Rio(AskByte), out : Seq(AnsByte), path : Text]
  /\ Len(tiny.rio.buf) <= RioBuf /\ Len(tiny.rio.usr) < MaxLine
  /\ tiny.pc \in Reading => Len(tiny.rio.usr) < MaxLine - 1
  /\ tiny.conn = NoConn <=> tiny.pc \in {"starting", "accept", "down"}
  /\ cgi \in [up : BOOLEAN, out : Seq(AnsByte)]
  /\ cgi.up => tiny.pc = "wait"

OnceOnly(s) == s \in Seq(Clients) /\ \A i, j \in 1..Len(s) : s[i] = s[j] => i = j
GoodQueues ==
  /\ OnceOnly(calls) /\ OnceOnly(ring)
  /\ tiny.conn \notin Queued(ring)
  /\ tiny.pc = "starting" => proxy = "starting" /\ ring = <<>>
  /\ proxy = "starting" => calls = <<>>

EndType == {"new", "open", "eof", "failed", "left"}
Functions ==
  /\ ask \in [Clients -> Requests]
  /\ front \in [Clients -> ConnType] /\ back \in [Clients -> ConnType] /\ px \in [Clients -> PxType]
  /\ todo \in [Clients -> Seq(AskByte)] /\ got \in [Clients -> Seq(AnsByte)] /\ end \in [Clients -> EndType]
  /\ proxy \in {"starting", "up", "down"}

(* Which ends are open, and where a client is known. *)
Holding(c) ==
  /\ "far" \notin back[c].shut <=> c = tiny.conn \/ (c \in Queued(ring) /\ tiny.pc # "down")
  /\ proxy # "up" => px[c] = Idle
  /\ end[c] = "new" => /\ front[c] = Absent /\ px[c] = Idle /\ c \notin Queued(calls)
                       /\ back[c] = Absent /\ c \notin Queued(ring) /\ tiny.conn # c
  /\ ask[c].to = "proxy" =>
       /\ proxy = "starting" => end[c] = "new"
       /\ c \in Queued(calls) => px[c] = Idle
       /\ proxy = "up" => ("far" \notin front[c].shut <=> c \in Queued(calls) \/ px[c].pc \notin {"none", "done"})
       /\ "near" \notin back[c].shut <=> px[c].pc \in Serving
       /\ proxy = "up" /\ px[c].pc \notin Serving \cup {"done"} =>
            back[c] = Absent /\ c \notin Queued(ring) /\ tiny.conn # c
  /\ ask[c].to # "proxy" => front[c] = Absent /\ px[c] = Idle /\ c \notin Queued(calls)
  /\ "near" \notin Link(c).shut <=> end[c] = "open"

GoodAt(c) == GoodConn(front[c]) /\ GoodConn(back[c]) /\ GoodThread(px[c]) /\ Holding(c)
Held == Functions /\ GoodTiny /\ GoodQueues /\ \A c \in Clients : GoodAt(c)

(* What concerns client c does not change. *)
Still(c) ==
  /\ front'[c] = front[c] /\ back'[c] = back[c] /\ px'[c] = px[c] /\ end'[c] = end[c] /\ ask' = ask
  /\ c \in Queued(calls') <=> c \in Queued(calls)
  /\ c \in Queued(ring') <=> c \in Queued(ring)
  /\ c = tiny'.conn <=> c = tiny.conn

(* What does not concern c keeps what holds of c. *)
LEMMA StillGood ==
  ASSUME NEW c \in Clients, GoodAt(c), Still(c), proxy' = proxy, tiny'.pc = "down" <=> tiny.pc = "down"
  PROVE  GoodAt(c)'
BY DEF GoodAt, Holding, Still, Link, GoodConn, GoodThread

(* A listen queue after connect, and after accept. *)
LEMMA Queues ==
  ASSUME NEW s, OnceOnly(s)
  PROVE  /\ \A c \in Clients : c \notin Queued(s) =>
              OnceOnly(Append(s, c)) /\ Queued(Append(s, c)) = Queued(s) \cup {c}
         /\ s # <<>> => /\ Head(s) \in Clients /\ Head(s) \in Queued(s) /\ OnceOnly(Tail(s))
                        /\ Queued(Tail(s)) = Queued(s) \ {Head(s)}
         /\ Queued(s) \subseteq Clients
<1>1. s \in Seq(Clients) /\ Len(s) \in Nat /\ \A i, j \in 1..Len(s) : s[i] = s[j] => i = j
  BY LenProperties DEF OnceOnly
<1>2. ASSUME NEW c \in Clients, c \notin Queued(s)
      PROVE  OnceOnly(Append(s, c)) /\ Queued(Append(s, c)) = Queued(s) \cup {c}
  <2>1. PICK t : t = Append(s, c)
    OBVIOUS
  <2>2. /\ t \in Seq(Clients) /\ Len(t) = Len(s) + 1 /\ t[Len(s) + 1] = c
        /\ \A i \in 1..Len(s) : t[i] = s[i] /\ t[i] # c
    BY <1>1, <1>2, <2>1, AppendProperties DEF Queued
  <2>3. \A i \in 1..Len(t) : i \in 1..Len(s) \/ i = Len(s) + 1
    BY <1>1, <2>2
  <2>4. OnceOnly(t)
    BY <1>1, <2>2, <2>3 DEF OnceOnly
  <2>5. Queued(t) = Queued(s) \cup {c}
    BY <1>1, <2>2, <2>3 DEF Queued
  <2>6. QED
    BY <2>1, <2>4, <2>5
<1>3. ASSUME s # <<>>
      PROVE  /\ Head(s) \in Clients /\ Head(s) \in Queued(s) /\ OnceOnly(Tail(s))
             /\ Queued(Tail(s)) = Queued(s) \ {Head(s)}
  <2>1. PICK h, t : h = Head(s) /\ t = Tail(s)
    OBVIOUS
  <2>2. /\ h \in Clients /\ h = s[1] /\ t \in Seq(Clients) /\ Len(t) = Len(s) - 1 /\ Len(s) > 0
        /\ \A i \in 1..Len(t) : t[i] = s[i + 1]
    BY <1>1, <1>3, <2>1, HeadTailProperties, EmptySeq
  <2>3. 1 \in 1..Len(s) /\ \A i \in 1..Len(t) : i + 1 \in 1..Len(s) /\ t[i] # h
    BY <1>1, <2>2
  <2>4. OnceOnly(t)
    BY <1>1, <2>2, <2>3 DEF OnceOnly
  <2>5. \A i \in 1..Len(s) : i = 1 \/ (i - 1 \in 1..Len(t) /\ t[i - 1] = s[i])
    BY <1>1, <2>2
  <2>6. Queued(t) = Queued(s) \ {h} /\ h \in Queued(s)
    BY <1>1, <2>2, <2>3, <2>5 DEF Queued
  <2>7. QED
    BY <2>1, <2>2, <2>4, <2>6
<1>4. Queued(s) \subseteq Clients
  BY <1>1, ElementOfSeq DEF Queued
<1>5. QED
  BY <1>2, <1>3, <1>4

(* Requests are bytes. *)
LEMMA Wires == ASSUME NEW r \in Requests PROVE Wire(r) \in Seq(AskByte)
<1>1. /\ <<"GET", r.scheme, r.path>> \in AskByte /\ <<"LF">> \in AskByte /\ <<"hdr">> \in AskByte
      /\ <<"CR">> \in AskByte /\ <<"POST">> \in AskByte
  BY DEF Requests, AskByte, GetLine, Text
<1>2. QED
  BY <1>1 DEF Wire

LEMMA IdleIs == GoodThread(Idle) /\ Idle.pc = "none" /\ Idle.rio = rio_readinitb /\ Idle.out = <<>> /\ Idle.uri = <<>>
<1>1. <<>> \in Seq(Byte) /\ Len(<<>>) = 0 /\ rio_readinitb \in Rio(Byte)
  BY EmptySeq, RioInit
<1>2. Idle \in PxType
  BY <1>1 DEF Idle, PxType, Busy
<1>3. Idle = [Idle EXCEPT !.pc = "none"]
  BY DEF Idle
<1>4. QED
  BY <1>1, <1>2, <1>3, RioInit DEF Idle, GoodThread, Reading

(* It holds at the start. *)
LEMMA StartsHeld == Init => Held
<1> SUFFICES ASSUME Init PROVE Held
  OBVIOUS
<1>1. Functions
  <2>1. ask \in [Clients -> Requests]
    BY WebAssumption DEF Init
  <2>2. Absent \in ConnType
    BY AbsentIs DEF GoodConn, ConnType
  <2>3. Idle \in PxType
    BY IdleIs DEF GoodThread
  <2>4. \A c \in Clients : Wire(ask[c]) \in Seq(AskByte)
    BY <2>1, Wires
  <2>5. <<>> \in Seq(AnsByte)
    BY EmptySeq
  <2>6. front \in [Clients -> ConnType] /\ back \in [Clients -> ConnType]
    BY <2>2 DEF Init
  <2>7. px \in [Clients -> PxType] /\ proxy \in {"starting", "up", "down"}
    BY <2>3 DEF Init, ProxyInit
  <2>8. todo \in [Clients -> Seq(AskByte)] /\ got \in [Clients -> Seq(AnsByte)] /\ end \in [Clients -> EndType]
    BY <2>4, <2>5 DEF Init, EndType
  <2>9. QED
    BY <2>1, <2>6, <2>7, <2>8 DEF Functions
<1>2. <<>> \in Seq(Clients) /\ <<>> \in Seq(AnsByte) /\ Len(<<>>) = 0 /\ Queued(<<>>) = {}
  BY EmptySeq DEF Queued
<1>3. GoodTiny
  <2>1. PICK r : r = rio_readinitb /\ r \in Rio(AskByte) /\ r.buf = <<>> /\ r.usr = <<>>
    BY RioInit
  <2>2. PICK o, n, p : o = <<>> /\ n = NoConn /\ p = "" /\ o \in Seq(AnsByte)
    BY <1>2
  <2>3. tiny = [pc |-> "starting", conn |-> n, rio |-> r, out |-> o, path |-> p]
    BY <2>1, <2>2 DEF Init, TinyInit
  <2>4. /\ tiny.pc = "starting" /\ tiny.conn = n /\ tiny.rio = r /\ tiny.out = o /\ tiny.path = p
    BY <2>3
  <2>5. p \in Text /\ n \in Clients \cup {NoConn}
    BY <2>2 DEF Text
  <2>6. tiny \in [pc : TinyPcs, conn : Clients \cup {NoConn}, rio : Rio(AskByte), out : Seq(AnsByte), path : Text]
    BY <2>1, <2>2, <2>3, <2>5 DEF TinyPcs
  <2>7. Len(r.buf) = 0 /\ Len(r.usr) = 0
    BY <1>2, <2>1
  <2>8. Len(tiny.rio.buf) <= RioBuf /\ Len(tiny.rio.usr) < MaxLine
    BY <2>4, <2>7
  <2>9. cgi \in [up : BOOLEAN, out : Seq(AnsByte)] /\ ~cgi.up
    BY <1>2 DEF Init, TinyInit
  <2>10. QED
    BY <2>2, <2>4, <2>6, <2>8, <2>9 DEF GoodTiny, Reading
<1>4. GoodQueues
  <2>1. OnceOnly(<<>>)
    BY <1>2 DEF OnceOnly
  <2>2. QED
    BY <1>2, <2>1 DEF Init, ProxyInit, TinyInit, GoodQueues
<1>5. ASSUME NEW c \in Clients PROVE GoodAt(c)
  <2>1. front[c] = Absent /\ back[c] = Absent /\ px[c] = Idle /\ c # tiny.conn /\ end[c] = "new"
    BY WebAssumption DEF Init, ProxyInit, TinyInit
  <2>2. Holding(c)
    BY <2>1, <1>2, AbsentIs, IdleIs, EndsAre DEF Init, ProxyInit, TinyInit, Holding, Link, Serving
  <2>3. QED
    BY <2>1, <2>2, AbsentIs, IdleIs DEF GoodAt
<1>6. QED
  BY <1>1, <1>3, <1>4, <1>5 DEF Held

-----------------------------------------------------------------------------
(* A step of one client, of its thread, or of tiny for it.                   *)

(* Only what concerns client c changes, and no process exits. *)
Only(c) ==
  /\ front' = [front EXCEPT ![c] = front'[c]] /\ back' = [back EXCEPT ![c] = back'[c]]
  /\ px' = [px EXCEPT ![c] = px'[c]] /\ todo' = [todo EXCEPT ![c] = todo'[c]]
  /\ got' = [got EXCEPT ![c] = got'[c]] /\ end' = [end EXCEPT ![c] = end'[c]]
  /\ ask' = ask /\ proxy' = proxy /\ (tiny'.pc = "down" <=> tiny.pc = "down")
  /\ \A d \in Clients \ {c} : /\ d \in Queued(calls') <=> d \in Queued(calls)
                              /\ d \in Queued(ring') <=> d \in Queued(ring)
                              /\ d = tiny'.conn <=> d = tiny.conn

(* It is enough to look at the one client a step concerns. *)
LEMMA OneAtATime ==
  ASSUME Held, NEW c \in Clients, Only(c), GoodAt(c)', GoodTiny', GoodQueues',
         todo'[c] \in Seq(AskByte), got'[c] \in Seq(AnsByte), end'[c] \in EndType
  PROVE  Held'
<1>1. front'[c] \in ConnType /\ back'[c] \in ConnType /\ px'[c] \in PxType
  BY DEF GoodAt, GoodConn, GoodThread, ConnType
<1>2. Functions'
  <2>1. front' \in [Clients -> ConnType] /\ back' \in [Clients -> ConnType] /\ px' \in [Clients -> PxType]
    BY <1>1 DEF Held, Functions, Only
  <2>2. todo' \in [Clients -> Seq(AskByte)] /\ got' \in [Clients -> Seq(AnsByte)] /\ end' \in [Clients -> EndType]
    BY DEF Held, Functions, Only
  <2>3. QED
    BY <2>1, <2>2 DEF Held, Functions, Only
<1>3. ASSUME NEW d \in Clients, d # c PROVE GoodAt(d)'
  <2>1. Still(d)
    <3>1. front'[d] = front[d] /\ back'[d] = back[d] /\ px'[d] = px[d] /\ end'[d] = end[d]
      BY <1>3 DEF Held, Functions, Only
    <3>2. /\ d \in Queued(calls') <=> d \in Queued(calls)
          /\ d \in Queued(ring') <=> d \in Queued(ring)
          /\ d = tiny'.conn <=> d = tiny.conn
      BY <1>3 DEF Only
    <3>3. QED
      BY <3>1, <3>2 DEF Only, Still
  <2>2. QED
    BY <1>3, <2>1, StillGood DEF Held, Only
<1>4. QED
  BY <1>2, <1>3 DEF Held

(* A thread reads, thinks or writes, and opens and closes nothing. *)
LEMMA ThreadMoves ==
  ASSUME Held, NEW c \in Clients, NEW p, NEW f, NEW b, proxy = "up", px[c].pc \in Busy,
         px' = [px EXCEPT ![c] = p], front' = [front EXCEPT ![c] = f], back' = [back EXCEPT ![c] = b],
         UNCHANGED <<calls, proxy, ring, tinyVars, clientVars>>,
         GoodThread(p), GoodConn(f), GoodConn(b),
         p.pc \in Busy \cup {"leaked"}, p.pc \in Serving <=> px[c].pc \in Serving,
         f.shut = front[c].shut, b.shut = back[c].shut, px[c].pc \in Serving \/ b = back[c]
  PROVE  Held'
<1>1. px'[c] = p /\ front'[c] = f /\ back'[c] = b
  BY DEF Held, Functions
<1>2. Only(c)
  <2>1. front' = [front EXCEPT ![c] = front'[c]] /\ back' = [back EXCEPT ![c] = back'[c]] /\ px' = [px EXCEPT ![c] = px'[c]]
    BY <1>1
  <2>2. todo' = [todo EXCEPT ![c] = todo'[c]] /\ got' = [got EXCEPT ![c] = got'[c]] /\ end' = [end EXCEPT ![c] = end'[c]]
    BY DEF Held, Functions, clientVars
  <2>3. calls' = calls /\ ring' = ring /\ tiny' = tiny /\ ask' = ask /\ proxy' = proxy
    BY DEF clientVars, tinyVars
  <2>4. QED
    BY <2>1, <2>2, <2>3 DEF Only
<1>3. Idle.pc = "none" /\ px[c] # Idle /\ px[c].pc \notin {"none", "done"} /\ p.pc \notin {"none", "done"}
  BY IdleIs DEF Busy
<1>4. Holding(c) /\ GoodTiny /\ GoodQueues /\ Functions
  BY DEF Held, GoodAt
<1>5. ask[c].to = "proxy" /\ end[c] # "new" /\ c \notin Queued(calls)
  BY <1>3, <1>4 DEF Holding
<1>6. Holding(c)'
  BY <1>1, <1>3, <1>4, <1>5 DEF Holding, Link, tinyVars, clientVars
<1>7. GoodAt(c)' /\ GoodTiny' /\ GoodQueues'
  BY <1>1, <1>4, <1>6 DEF GoodAt, GoodTiny, GoodQueues, tinyVars
<1>8. todo'[c] \in Seq(AskByte) /\ got'[c] \in Seq(AnsByte) /\ end'[c] \in EndType
  BY <1>4 DEF Functions, clientVars
<1>9. QED
  BY <1>2, <1>7, <1>8, OneAtATime

(* A read takes what is there. *)
LEMMA ReadSizesAre ==
  ASSUME NEW k, GoodConn(k), NEW e \in Ends, NEW n \in ReadSizes(k, e)
  PROVE  /\ n \in 1..RioBuf /\ n <= Len(k.data[e])
         /\ SubSeq(k.data[e], 1, n) \in Seq(Flow(e)) /\ Len(SubSeq(k.data[e], 1, n)) = n
<1>1. k.data[e] \in Seq(Flow(e)) /\ Len(k.data[e]) \in Nat
  BY ConnData
<1>2. n \in 1..RioBuf /\ n <= Len(k.data[e])
  BY <1>1 DEF ReadSizes, Smaller
<1>3. QED
  BY <1>1, <1>2, Cut

(* The end of the proxy, whoever of its threads causes it. *)
LEMMA ProxyDiesHeld == ASSUME Held, proxy = "up", ProxyDies, UNCHANGED <<tinyVars, clientVars>> PROVE Held'
<1>1. Functions /\ GoodTiny /\ GoodQueues
  BY DEF Held
<1>2. ASSUME NEW c \in Clients
      PROVE  /\ GoodAt(c)'
             /\ front'[c] \in ConnType /\ back'[c] \in ConnType
  <2>1. GoodConn(front[c]) /\ GoodConn(back[c]) /\ Holding(c)
    BY DEF Held, GoodAt
  <2>2. PICK f : f = Abandoned(front[c], "far")
    OBVIOUS
  <2>3. PICK b : b = Abandoned(back[c], "near")
    OBVIOUS
  <2>4. /\ GoodConn(f) /\ f.shut = front[c].shut \cup {"far"}
        /\ GoodConn(b) /\ b.shut = back[c].shut \cup {"near"}
    BY <2>1, <2>2, <2>3, AbandonedIs, EndsAre
  <2>5. front'[c] = f /\ back'[c] = (IF px[c].pc \in Serving THEN b ELSE back[c]) /\ px'[c] = Idle
    BY <2>2, <2>3 DEF ProxyDies, Serving
  <2>6. front[c] = Absent => f = Absent
    BY <2>2, AbsentIs, EndsAre DEF Abandoned
  <2>7. Holding(c)'
    BY <2>1, <2>4, <2>5, <2>6, IdleIs DEF Holding, Link, ProxyDies, Serving, tinyVars, clientVars
  <2>8. GoodConn(front'[c]) /\ GoodConn(back'[c]) /\ GoodThread(px'[c])
    BY <2>1, <2>4, <2>5, IdleIs
  <2>9. QED
    BY <2>7, <2>8 DEF GoodAt, GoodConn, ConnType
<1>3. Functions'
  <2>1. px' \in [Clients -> PxType] /\ proxy' \in {"starting", "up", "down"}
    BY IdleIs DEF ProxyDies, GoodThread
  <2>2. front' \in [Clients -> ConnType] /\ back' \in [Clients -> ConnType]
    BY <1>2 DEF ProxyDies
  <2>3. QED
    BY <1>1, <2>1, <2>2 DEF Functions, clientVars
<1>4. GoodTiny' /\ GoodQueues'
  BY <1>1 DEF GoodTiny, GoodQueues, ProxyDies, tinyVars
<1>5. QED
  BY <1>2, <1>3, <1>4 DEF Held

-----------------------------------------------------------------------------
(* The steps of a thread.                                                    *)

ThreadFrame == UNCHANGED <<tinyVars, clientVars>>

(* The steps of a thread, one lemma each. *)
LEMMA ReadsClientHeld ==
  ASSUME Held, NEW c \in Clients, proxy = "up", px[c].pc \in Reading, ReadsClient(c), ThreadFrame
  PROVE  Held'
<1>1. PICK n \in ReadSizes(front[c], "far") :
        /\ px' = [px EXCEPT ![c].rio = Refill(@, SubSeq(front[c].data["far"], 1, n))]
        /\ front' = [front EXCEPT ![c] = Taken(@, "far", n)]
  BY DEF ReadsClient
<1>2. PICK old, s : old = px[c].rio /\ s = SubSeq(front[c].data["far"], 1, n)
  OBVIOUS
<1>3. PICK q, f : q = Refill(old, s) /\ f = Taken(front[c], "far", n)
  OBVIOUS
<1>4. PICK p : p = [px[c] EXCEPT !.rio = q]
  OBVIOUS
<1>5. GoodConn(front[c]) /\ GoodConn(back[c]) /\ GoodThread(px[c]) /\ Functions
  BY DEF Held, GoodAt
<1>a. "far" \in Ends /\ Flow("far") = AskByte
  BY EndsAre DEF Flow
<1>6. n \in 1..RioBuf /\ n \in Nat /\ s \in Seq(AskByte) /\ Len(s) = n
  <2>1. n \in 1..RioBuf /\ s \in Seq(Flow("far")) /\ Len(s) = n
    <3>1. PICK k : k = front[c] /\ GoodConn(k)
      BY <1>5
    <3>2. n \in ReadSizes(k, "far") /\ s = SubSeq(k.data["far"], 1, n)
      BY <1>1, <1>2, <3>1
    <3>3. QED
      BY <3>1, <3>2, <1>a, ReadSizesAre
  <2>2. QED
    BY <2>1, <1>a
<1>7. GoodConn(f) /\ f.shut = front[c].shut
  <2>1. n \in Nat
    BY <1>6
  <2>2. QED
    BY <2>1, <1>3, <1>5, <1>a, TakenIs
<1>8. px[c] \in PxType /\ old \in Rio(AskByte) /\ Len(old.usr) < MaxLine - 1
  BY <1>2, <1>5 DEF GoodThread
<1>9. q \in Rio(AskByte) /\ q.buf = s /\ Len(q.usr) < MaxLine - 1
  <2>1. LineBytes(old) = 0
    BY <1>2 DEF ReadsClient
  <2>2. QED
    BY <2>1, <1>3, <1>6, <1>8, RefillIs
<1>10. q \in Rio(Byte) /\ Len(q.usr) \in Nat
  BY <1>9, FlowIsByte, EndsAre, RioParts, RioMade DEF Rio, Flow
<1>11. p \in PxType /\ p.pc = px[c].pc /\ p.rio = q /\ p.uri = px[c].uri
  BY <1>4, <1>8, <1>10 DEF PxType
<1>12. GoodThread(p)
  BY <1>5, <1>6, <1>9, <1>10, <1>11 DEF GoodThread, Reading
<1>13. px' = [px EXCEPT ![c] = p] /\ front' = [front EXCEPT ![c] = f] /\ back' = [back EXCEPT ![c] = back[c]]
  BY <1>1, <1>2, <1>3, <1>4, <1>5 DEF ReadsClient, Functions
<1>14. px[c].pc \in Busy /\ p.pc \in Busy /\ p.pc \notin Serving /\ px[c].pc \notin Serving
  BY <1>11 DEF Reading, Busy, Serving
<1>15. QED
  BY <1>5, <1>7, <1>12, <1>13, <1>14, ThreadMoves DEF ReadsClient, ThreadFrame

(* A thread that has all it needs goes on without a call. *)
LEMMA ThreadThinks ==
  ASSUME Held, NEW c \in Clients, NEW p, proxy = "up", px[c].pc \in Busy \ Serving,
         px' = [px EXCEPT ![c] = p], UNCHANGED <<calls, proxy, netVars>>, ThreadFrame,
         GoodThread(p), p.pc \in (Busy \cup {"leaked"}) \ Serving
  PROVE  Held'
<1>1. GoodConn(front[c]) /\ GoodConn(back[c]) /\ Functions
  BY DEF Held, GoodAt
<1>2. front' = [front EXCEPT ![c] = front[c]] /\ back' = [back EXCEPT ![c] = back[c]]
  BY <1>1 DEF Functions, netVars
<1>3. QED
  BY <1>1, <1>2, ThreadMoves DEF netVars, ThreadFrame

(* The first byte of a line that a reader got, and what the thread makes of it. *)
LEMMA LineHead == ASSUME NEW s \in Seq(AskByte), s # <<>> PROVE s[1] \in AskByte /\ (s[1][1] = "GET" => s[1] \in GetLine)
<1>1. s[1] \in AskByte
  BY ElementOfSeq, LenProperties, EmptySeq
<1>2. QED
  BY <1>1 DEF AskByte

(* What clienterror writes is bytes of an answer. *)
LEMMA ErrorPages == \A w \in {"404", "403", "501"} : /\ clienterror(w) \in Seq(AnsByte) /\ clienterror(w) \in Seq(Byte)
                                                     /\ Len(clienterror(w)) = 2
<1>1. ASSUME NEW w \in {"404", "403", "501"} PROVE <<w, "status">> \in AnsByte /\ <<w, "page">> \in AnsByte
  BY DEF AnsByte, Text
<1>2. QED
  BY <1>1 DEF clienterror, Byte

LEMMA RequestLineHeld ==
  ASSUME Held, NEW c \in Clients, RequestLine(c), ThreadFrame
  PROVE  Held'
<1>1. proxy = "up" /\ px[c].pc = "line"
  BY DEF RequestLine
<1>2. PICK o : o = px[c]
  OBVIOUS
<1>3. GoodThread(o) /\ o \in PxType /\ o.rio \in Rio(AskByte) /\ o.pc = "line" /\ Len(o.rio.usr) < MaxLine - 1
  BY <1>1, <1>2 DEF Held, GoodAt, GoodThread, Reading
<1>4. CASE ReadsClient(c)
  BY <1>1, <1>4, ReadsClientHeld DEF Reading
<1>5. CASE ClientReset(c)
  BY <1>1, <1>5, ProxyDiesHeld DEF ClientReset, ThreadFrame
<1>6. CASE NoLine(c) /\ Goes(c, "leaked")
  <2>1. PICK p : p = [o EXCEPT !.pc = "leaked"]
    OBVIOUS
  <2>2. px' = [px EXCEPT ![c] = p]
    BY <1>2, <1>6, <2>1 DEF Goes
  <2>3. p \in PxType /\ p.pc = "leaked" /\ p.rio = o.rio
    BY <1>3, <2>1 DEF PxType
  <2>4. GoodThread(p)
    BY <1>3, <2>3 DEF GoodThread, Reading
  <2>5. QED
    BY <1>1, <1>6, <2>2, <2>3, <2>4, ThreadThinks DEF Goes, Busy, Serving
<1>7. ASSUME NEW g \in GotLines(c),
             px' = [px EXCEPT ![c] =
               IF g.line[1][1] = "GET"
               THEN [@ EXCEPT !.pc = "hdr1", !.uri = g.line[1], !.rio = g.rio]
               ELSE [@ EXCEPT !.pc = "error", !.out = clienterror("501")]],
             UNCHANGED <<calls, proxy, netVars>>
      PROVE  Held'
  <2>1. /\ g.line \in Seq(AskByte) /\ g.line # <<>>
        /\ g.rio \in Rio(AskByte) /\ g.rio.usr = <<>> /\ Len(g.rio.buf) <= Len(o.rio.buf)
    BY <1>2, <1>3, <1>7, LinesAre DEF GotLines
  <2>2. PICK byte, rio : byte = g.line[1] /\ rio = g.rio
    OBVIOUS
  <2>3. byte \in AskByte /\ (byte[1] = "GET" => byte \in GetLine)
    BY <2>1, <2>2, LineHead
  <2>4. Len(<<>>) = 0 /\ rio \in Rio(Byte) /\ byte \in Byte
    <3>1. byte \in Byte
      BY <2>3 DEF Byte
    <3>2. QED
      BY <3>1, <2>1, <2>2, FlowIsByte, EndsAre, RioParts, RioMade, EmptySeq DEF Flow
  <2>5. PICK p : p = IF byte[1] = "GET" THEN [o EXCEPT !.pc = "hdr1", !.uri = byte, !.rio = rio]
                                        ELSE [o EXCEPT !.pc = "error", !.out = clienterror("501")]
    OBVIOUS
  <2>6. px' = [px EXCEPT ![c] = p]
    BY <1>2, <1>7, <2>2, <2>5
  <2>7. CASE byte[1] = "GET"
    <3>1. p \in PxType /\ p.pc = "hdr1" /\ p.rio = rio /\ p.uri = byte
      BY <1>3, <2>4, <2>5, <2>7 DEF PxType, Busy
    <3>2. GoodThread(p)
      BY <1>3, <2>1, <2>2, <2>3, <2>4, <2>7, <3>1, SMTT(40) DEF GoodThread, Reading
    <3>3. QED
      BY <1>1, <1>7, <2>6, <3>1, <3>2, ThreadThinks DEF Busy, Serving
  <2>8. CASE byte[1] # "GET"
    <3>1. PICK page : page = clienterror("501") /\ page \in Seq(AnsByte) /\ page \in Seq(Byte)
      BY ErrorPages
    <3>2. p \in PxType /\ p.pc = "error" /\ p.rio = o.rio /\ p.out = page
      BY <1>3, <2>5, <2>8, <3>1 DEF PxType, Busy
    <3>3. GoodThread(p)
      BY <1>3, <3>1, <3>2 DEF GoodThread, Reading
    <3>4. QED
      BY <1>1, <1>7, <2>6, <3>2, <3>3, ThreadThinks DEF Busy, Serving
  <2>9. QED
    BY <2>7, <2>8
<1>8. QED
  BY <1>4, <1>5, <1>6, <1>7 DEF RequestLine

LEMMA HeadersHeld ==
  ASSUME Held, NEW c \in Clients, Headers(c), ThreadFrame
  PROVE  Held'
<1>1. proxy = "up" /\ px[c].pc \in {"hdr1", "hdrs"}
  BY DEF Headers
<1>2. PICK o : o = px[c]
  OBVIOUS
<1>3. GoodThread(o) /\ o \in PxType /\ o.rio \in Rio(AskByte) /\ o.pc \in {"hdr1", "hdrs"} /\ o.uri \in GetLine
  BY <1>1, <1>2 DEF Held, GoodAt, GoodThread, Reading
<1>4. CASE ReadsClient(c)
  BY <1>1, <1>4, ReadsClientHeld DEF Reading
<1>5. CASE ClientReset(c)
  BY <1>1, <1>5, ProxyDiesHeld DEF ClientReset, ThreadFrame
<1>6. ASSUME NEW to \in {"spin", "connect"}, Goes(c, to) PROVE Held'
  <2>1. PICK p : p = [o EXCEPT !.pc = to]
    OBVIOUS
  <2>2. px' = [px EXCEPT ![c] = p]
    BY <1>2, <1>6, <2>1 DEF Goes
  <2>3. p \in PxType /\ p.pc = to /\ p.rio = o.rio /\ p.uri = o.uri
    BY <1>3, <2>1 DEF PxType, Busy
  <2>4. GoodThread(p)
    BY <1>3, <2>3 DEF GoodThread, Reading
  <2>5. QED
    BY <1>1, <1>6, <2>2, <2>3, <2>4, ThreadThinks DEF Goes, Busy, Serving
<1>7. ASSUME NEW g \in GotLines(c),
             px' = [px EXCEPT ![c].rio = g.rio,
                              ![c].pc = IF g.line = Blank THEN "connect" ELSE "hdrs"],
             UNCHANGED <<calls, proxy, netVars>>
      PROVE  Held'
  <2>1. /\ g.line \in Seq(AskByte) /\ g.line # <<>>
        /\ g.rio \in Rio(AskByte) /\ g.rio.usr = <<>> /\ Len(g.rio.buf) <= Len(o.rio.buf)
    BY <1>2, <1>3, <1>7, LinesAre DEF GotLines
  <2>2. PICK rio, to : rio = g.rio /\ to = IF g.line = Blank THEN "connect" ELSE "hdrs"
    OBVIOUS
  <2>3. Len(<<>>) = 0 /\ rio \in Rio(Byte)
    BY <2>1, <2>2, FlowIsByte, EndsAre, RioParts, RioMade, EmptySeq DEF Flow
  <2>4. PICK p : p = [o EXCEPT !.rio = rio, !.pc = to]
    OBVIOUS
  <2>5. px' = [px EXCEPT ![c] = p]
    BY <1>2, <1>7, <2>2, <2>4
  <2>6. p \in PxType /\ p.pc = to /\ p.rio = rio /\ p.uri = o.uri /\ to \in {"connect", "hdrs"}
    BY <1>3, <2>2, <2>3, <2>4 DEF PxType, Busy
  <2>7. GoodThread(p)
    BY <1>3, <2>1, <2>2, <2>3, <2>6 DEF GoodThread, Reading
  <2>8. QED
    BY <1>1, <1>7, <2>5, <2>6, <2>7, ThreadThinks DEF Busy, Serving
<1>8. QED
  BY <1>4, <1>5, <1>6, <1>7 DEF Headers

(* One write of a part of s by end e, and what is left of s. *)
LEMMA WriteIs ==
  ASSUME NEW k, GoodConn(k), NEW e \in Ends, NEW s \in Seq(Flow(Other(e))), NEW n, n = Fits(k, e, s), n > 0
  PROVE  /\ n \in 1..Len(s) /\ n \in Nat /\ Len(s) \in Nat
         /\ GoodConn(Put(k, e, SubSeq(s, 1, n))) /\ Put(k, e, SubSeq(s, 1, n)).shut = k.shut
         /\ Put(k, e, SubSeq(s, 1, n)).data[e] = k.data[e]
         /\ Other(e) \notin k.shut =>
              Put(k, e, SubSeq(s, 1, n)).data[Other(e)] = k.data[Other(e)] ++ SubSeq(s, 1, n)
         /\ SubSeq(s, n + 1, Len(s)) \in Seq(Flow(Other(e)))
         /\ n = Len(s) => SubSeq(s, n + 1, Len(s)) = <<>>
<1>1. /\ n \in 0..Len(s) /\ Len(s) \in Nat
      /\ Other(e) \notin k.shut => Len(k.data[Other(e)]) + n <= SockBuf
  BY FitsIs
<1>2. n \in Nat /\ n <= Len(s) /\ n \in 1..Len(s)
  BY <1>1
<1>3. PICK t : t = SubSeq(s, 1, n)
  OBVIOUS
<1>4. t \in Seq(Flow(Other(e))) /\ Len(t) = n
  BY <1>2, <1>3, Cut
<1>5. /\ GoodConn(Put(k, e, t)) /\ Put(k, e, t).shut = k.shut /\ Put(k, e, t).data[e] = k.data[e]
      /\ Other(e) \notin k.shut => Put(k, e, t).data[Other(e)] = k.data[Other(e)] ++ t
  BY <1>1, <1>4, PutIs
<1>6. SubSeq(s, n + 1, Len(s)) \in Seq(Flow(Other(e)))
  BY <1>2, Cut
<1>7. n = Len(s) => SubSeq(s, n + 1, Len(s)) = <<>>
  BY <1>2, Cut
<1>8. QED
  BY <1>1, <1>2, <1>3, <1>5, <1>6, <1>7

(* And what rebuild_request writes those of a request. *)
LEMMA RebuiltIs == ASSUME NEW uri \in GetLine PROVE rebuild_request(uri) \in Seq(AskByte)
<1>1. PathOf(uri) \in Text /\ "" \in Text
  BY DEF GetLine, PathOf, Text
<1>2. <<"GET", "", PathOf(uri)>> \in AskByte /\ <<"LF">> \in AskByte /\ <<"hdr">> \in AskByte /\ <<"CR">> \in AskByte
  BY <1>1 DEF AskByte, GetLine
<1>3. PICK a, b, d, e : /\ a = <<"GET", "", PathOf(uri)>> /\ b = <<"LF">> /\ d = <<"hdr">> /\ e = <<"CR">>
                       /\ a \in AskByte /\ b \in AskByte /\ d \in AskByte /\ e \in AskByte
  BY <1>2
<1>4. rebuild_request(uri) = <<a, b, d, e, b>>
  BY <1>3 DEF rebuild_request
<1>5. <<a, b, d, e, b>> \in Seq(AskByte)
  <2>1. a \in AskByte /\ b \in AskByte /\ d \in AskByte /\ e \in AskByte
    BY <1>3
  <2>2. QED
    BY <2>1
<1>6. QED
  BY <1>4, <1>5

LEMMA AskIsByte == /\ \A s \in Seq(AskByte) : s \in Seq(Byte)
                   /\ \A s \in Seq(AnsByte) : s \in Seq(Byte)
                   /\ \A r \in Rio(AskByte) : r \in Rio(Byte)
                   /\ \A r \in Rio(AnsByte) : r \in Rio(Byte)
<1>1. /\ \A s \in Seq(AskByte) : s \in Seq(Byte)
      /\ \A s \in Seq(AnsByte) : s \in Seq(Byte)
  BY FlowIsByte, EndsAre DEF Flow
<1>2. QED
  BY <1>1 DEF Rio

LEMMA OpensServerHeld ==
  ASSUME Held, NEW c \in Clients, OpensServer(c, Listening), ThreadFrame
  PROVE  Held'
<1>1. proxy = "up" /\ px[c].pc = "connect"
  BY DEF OpensServer
<1>2. PICK o : o = px[c]
  OBVIOUS
<1>3. /\ GoodThread(o) /\ o \in PxType /\ o.pc = "connect" /\ o.uri \in GetLine
      /\ GoodConn(front[c]) /\ Functions /\ GoodTiny /\ GoodQueues /\ Holding(c)
  BY <1>1, <1>2 DEF Held, GoodAt, GoodThread
<1>4. CASE ProxyDies
  BY <1>1, <1>4, ProxyDiesHeld DEF ThreadFrame
<1>5. ASSUME px' = [px EXCEPT ![c].pc = "send", ![c].out = rebuild_request(px[c].uri)],
             back' = [back EXCEPT ![c] = Fresh], ring' = Append(ring, c), UNCHANGED <<calls, proxy, front>>,
             Listening
      PROVE  Held'
  <2>1. PICK s, p : s = rebuild_request(o.uri) /\ p = [o EXCEPT !.pc = "send", !.out = s]
    OBVIOUS
  <2>2. s \in Seq(AskByte) /\ s \in Seq(Byte)
    BY <1>3, <2>1, RebuiltIs, AskIsByte
  <2>3. px' = [px EXCEPT ![c] = p]
    BY <1>2, <1>5, <2>1
  <2>4. p \in PxType /\ p.pc = "send" /\ p.rio = o.rio /\ p.uri = o.uri /\ p.out = s
    BY <1>3, <2>1, <2>2 DEF PxType, Busy
  <2>5. GoodThread(p)
    BY <1>3, <2>2, <2>4 DEF GoodThread, Reading
  <2>6. px'[c] = p /\ back'[c] = Fresh /\ front'[c] = front[c]
    BY <1>3, <1>5, <2>3 DEF Functions
  <2>7. /\ ask[c].to = "proxy" /\ end[c] # "new" /\ c \notin Queued(calls) /\ "far" \notin front[c].shut
        /\ c \notin Queued(ring) /\ tiny.conn # c /\ px[c] # Idle
    BY <1>1, <1>2, <1>3, IdleIs DEF Holding, Serving
  <2>8. OnceOnly(ring') /\ Queued(ring') = Queued(ring) \cup {c}
    BY <1>3, <1>5, <2>7, Queues DEF GoodQueues
  <2>9. tiny' = tiny /\ cgi' = cgi /\ ask' = ask /\ end' = end /\ todo' = todo /\ got' = got /\ calls' = calls /\ proxy' = proxy
    BY <1>5 DEF ThreadFrame, tinyVars, clientVars
  <2>10. tiny.pc \notin {"starting", "down"}
    BY <1>5 DEF Listening
  <2>11. Holding(c)'
    BY <1>1, <1>3, <2>4, <2>6, <2>7, <2>8, <2>9, <2>10, FreshIs, IdleIs DEF Holding, Link, Serving
  <2>12. GoodTiny' /\ GoodQueues'
    <3>1. GoodTiny'
      BY <1>3, <2>9 DEF GoodTiny
    <3>2. tiny.conn \notin Queued(ring')
      BY <1>3, <2>7, <2>8 DEF GoodQueues
    <3>3. QED
      BY <1>1, <1>3, <3>1, <3>2, <2>8, <2>9, <2>10 DEF GoodQueues
  <2>13. Only(c)
    <3>1. front' = [front EXCEPT ![c] = front'[c]] /\ back' = [back EXCEPT ![c] = back'[c]] /\ px' = [px EXCEPT ![c] = px'[c]]
      BY <1>3, <1>5, <2>3, <2>6 DEF Functions
    <3>2. todo' = [todo EXCEPT ![c] = todo'[c]] /\ got' = [got EXCEPT ![c] = got'[c]] /\ end' = [end EXCEPT ![c] = end'[c]]
      BY <1>3, <2>9 DEF Functions
    <3>3. QED
      BY <2>8, <2>9, <3>1, <3>2 DEF Only
  <2>14. GoodAt(c)'
    BY <1>3, <2>5, <2>6, <2>11, FreshIs DEF GoodAt
  <2>15. QED
    BY <1>3, <2>9, <2>12, <2>13, <2>14, OneAtATime DEF Functions
<1>6. QED
  BY <1>4, <1>5 DEF OpensServer, open_clientfd

LEMMA WritesServerHeld ==
  ASSUME Held, NEW c \in Clients, WritesServer(c), ThreadFrame
  PROVE  Held'
<1>1. proxy = "up" /\ px[c].pc = "send"
  BY DEF WritesServer
<1>2. PICK o : o = px[c]
  OBVIOUS
<1>3. /\ GoodThread(o) /\ o \in PxType /\ o.pc = "send" /\ o.uri \in GetLine /\ o.out \in Seq(AskByte)
      /\ GoodConn(front[c]) /\ GoodConn(back[c]) /\ Functions
  BY <1>1, <1>2 DEF Held, GoodAt, GoodThread
<1>4. CASE ProxyDies
  BY <1>1, <1>4, ProxyDiesHeld DEF ThreadFrame
<1>5. ASSUME NEW n \in {Fits(back[c], "near", px[c].out)}, n > 0,
             back' = [back EXCEPT ![c] = Put(@, "near", SubSeq(px[c].out, 1, n))],
             px' = [px EXCEPT ![c].out = SubSeq(@, n + 1, Len(@)),
                              ![c].pc = IF n = Len(px[c].out) THEN "relay" ELSE @,
                              ![c].rio = IF n = Len(px[c].out) THEN rio_readinitb ELSE @],
             UNCHANGED <<calls, proxy, front, ring>>
      PROVE  Held'
  <2>1. PICK s, k : s = o.out /\ k = back[c] /\ GoodConn(k) /\ s \in Seq(AskByte)
    BY <1>3
  <2>2. "near" \in Ends /\ Flow(Other("near")) = AskByte
    BY EndsAre DEF Flow
  <2>3. n = Fits(k, "near", s)
    BY <1>2, <1>5, <2>1
  <2>4. PICK b, rest : b = Put(k, "near", SubSeq(s, 1, n)) /\ rest = SubSeq(s, n + 1, Len(s))
    OBVIOUS
  <2>5. GoodConn(b) /\ b.shut = k.shut /\ rest \in Seq(AskByte) /\ (n = Len(s) => rest = <<>>)
    BY <1>5, <2>1, <2>2, <2>3, <2>4, WriteIs, SMTT(40)
  <2>6. rest \in Seq(Byte) /\ rio_readinitb \in Rio(Byte) /\ rio_readinitb \in Rio(AnsByte)
        /\ rio_readinitb.buf = <<>> /\ rio_readinitb.usr = <<>> /\ Len(<<>>) = 0
    BY <2>5, AskIsByte, RioInit, EmptySeq
  <2>7. PICK p : p = [o EXCEPT !.out = rest, !.pc = IF n = Len(s) THEN "relay" ELSE @,
                                             !.rio = IF n = Len(s) THEN rio_readinitb ELSE @]
    OBVIOUS
  <2>8. px' = [px EXCEPT ![c] = p] /\ back' = [back EXCEPT ![c] = b]
    BY <1>2, <1>3, <1>5, <2>1, <2>4, <2>7 DEF Functions
  <2>9. p \in PxType /\ p.out = rest /\ p.uri = o.uri /\ p.pc = (IF n = Len(s) THEN "relay" ELSE "send")
        /\ p.rio = (IF n = Len(s) THEN rio_readinitb ELSE o.rio)
    BY <1>3, <2>6, <2>7 DEF PxType, Busy
  <2>10. GoodThread(p)
    BY <1>3, <2>5, <2>6, <2>9 DEF GoodThread, Reading
  <2>11. px[c].pc \in Busy /\ p.pc \in Busy /\ px[c].pc \in Serving /\ p.pc \in Serving
    BY <1>1, <2>9 DEF Busy, Serving
  <2>12. front' = [front EXCEPT ![c] = front[c]]
    BY <1>3, <1>5 DEF Functions
  <2>13. QED
    BY <1>1, <1>3, <1>5, <2>1, <2>5, <2>8, <2>10, <2>11, <2>12, ThreadMoves DEF ThreadFrame
<1>6. QED
  BY <1>4, <1>5 DEF WritesServer

(* What the thread does with a block that rio_readnb filled or not. *)
LEMMA BlockIs ==
  ASSUME NEW c, px[c] \in PxType, NEW r \in Rio(AnsByte), Len(r.usr) <= MaxLine, Len(r.buf) <= RioBuf,
         Len(r.usr) # MaxLine => r.buf = <<>>, NEW p, p = Block(c, r)
  PROVE  GoodThread(p) /\ p.pc \in {"write", "relay"}
<1>1. PICK o, buf, usr : o = px[c] /\ buf = r.buf /\ usr = r.usr /\ o \in PxType
  OBVIOUS
<1>2. buf \in Seq(AnsByte) /\ usr \in Seq(AnsByte) /\ Len(usr) \in Nat /\ r = [buf |-> buf, usr |-> usr]
  BY <1>1, RioParts
<1>3. <<>> \in Seq(AnsByte) /\ <<>> \in Seq(Byte) /\ Len(<<>>) = 0
  BY EmptySeq
<1>4. CASE Len(usr) = MaxLine
  <2>1. PICK q : q = [buf |-> buf, usr |-> <<>>]
    OBVIOUS
  <2>2. q \in Rio(AnsByte) /\ q \in Rio(Byte) /\ q.buf = buf /\ q.usr = <<>>
    <3>1. q \in Rio(AnsByte) /\ q.buf = buf /\ q.usr = <<>>
      BY <1>2, <1>3, <2>1, RioMade, ZenonT(40)
    <3>2. QED
      BY <3>1, AskIsByte
  <2>3. p = [o EXCEPT !.pc = "write", !.out = usr, !.rio = q]
    <3>1. [r EXCEPT !.usr = <<>>] = q
      BY <1>2, <2>1
    <3>2. QED
      BY <1>1, <1>4, <3>1 DEF Block, BlockFull
  <2>4. usr \in Seq(Byte)
    BY <1>2, AskIsByte
  <2>5. p \in PxType /\ p.pc = "write" /\ p.out = usr /\ p.rio = q
    BY <1>1, <2>2, <2>3, <2>4 DEF PxType, Busy
  <2>6. QED
    BY <1>1, <1>2, <1>3, <2>2, <2>5 DEF GoodThread, Reading
<1>5. CASE Len(usr) # MaxLine
  <2>1. p = [o EXCEPT !.pc = "relay", !.out = <<>>, !.rio = r]
    BY <1>1, <1>2, <1>5 DEF Block, BlockFull
  <2>2. r \in Rio(Byte)
    BY AskIsByte
  <2>3. p \in PxType /\ p.pc = "relay" /\ p.out = <<>> /\ p.rio = r
    BY <1>1, <1>3, <2>1, <2>2 DEF PxType, Busy
  <2>4. QED
    BY <1>1, <1>2, <1>3, <1>5, <2>3 DEF GoodThread, Reading
<1>6. QED
  BY <1>4, <1>5

LEMMA ReadsServerHeld ==
  ASSUME Held, NEW c \in Clients, ReadsServer(c), ThreadFrame
  PROVE  Held'
<1>1. proxy = "up" /\ px[c].pc = "relay"
  BY DEF ReadsServer
<1>2. PICK o, rio : o = px[c] /\ rio = o.rio
  OBVIOUS
<1>3. /\ GoodThread(o) /\ o \in PxType /\ o.pc = "relay" /\ rio \in Rio(AnsByte)
      /\ rio.buf = <<>> /\ Len(rio.usr) < MaxLine
      /\ GoodConn(front[c]) /\ GoodConn(back[c]) /\ Functions /\ GoodTiny /\ GoodQueues /\ Holding(c)
  BY <1>1, <1>2 DEF Held, GoodAt, GoodThread
<1>4. CASE ProxyDies
  BY <1>1, <1>4, ProxyDiesHeld DEF ThreadFrame
<1>5. px[c].pc \in Busy /\ px[c].pc \in Serving /\ front[c] = front[c]
  BY <1>1 DEF Busy, Serving
<1>6. ASSUME NEW n \in ReadSizes(back[c], "near"),
             px' = [px EXCEPT ![c] = Block(c, Copied(Refill(@.rio, SubSeq(back[c].data["near"], 1, n))))],
             back' = [back EXCEPT ![c] = Taken(@, "near", n)],
             UNCHANGED <<calls, proxy, front, ring>>
      PROVE  Held'
  <2>1. PICK k : k = back[c] /\ GoodConn(k)
    BY <1>3
  <2>2. "near" \in Ends /\ Flow("near") = AnsByte
    BY EndsAre DEF Flow
  <2>3. n \in 1..RioBuf /\ SubSeq(k.data["near"], 1, n) \in Seq(AnsByte) /\ Len(SubSeq(k.data["near"], 1, n)) = n
    BY <1>6, <2>1, <2>2, ReadSizesAre
  <2>4. PICK s, b : s = SubSeq(k.data["near"], 1, n) /\ b = Taken(k, "near", n)
    OBVIOUS
  <2>5. s \in Seq(AnsByte) /\ Len(s) = n /\ n \in Nat /\ n <= RioBuf
    BY <2>3, <2>4
  <2>6. GoodConn(b) /\ b.shut = k.shut
    BY <2>1, <2>2, <2>4, <2>5, TakenIs
  <2>7. PICK q : q = Refill(rio, s)
    OBVIOUS
  <2>8. q \in Rio(AnsByte) /\ q.buf = s /\ q.usr = rio.usr ++ rio.buf
    BY <1>3, <2>5, <2>7, RefillIs
  <2>9. q.usr = rio.usr /\ Len(rio.usr) \in Nat
    BY <1>3, <2>8, Unit, RioParts
  <2>10. PICK r : r = Copied(q)
    OBVIOUS
  <2>11. r \in Rio(AnsByte) /\ Len(r.usr) <= MaxLine /\ Len(r.buf) <= Len(q.buf) /\ (Len(r.usr) # MaxLine => r.buf = <<>>)
    <3>1. Len(q.usr) <= MaxLine
      BY <1>3, <2>9
    <3>2. QED
      BY <3>1, <2>8, <2>10, CopiedIs
  <2>12. Len(r.buf) <= RioBuf
    BY <2>5, <2>8, <2>11, RioParts
  <2>13. PICK p : p = Block(c, r)
    OBVIOUS
  <2>14. GoodThread(p) /\ p.pc \in {"write", "relay"}
    BY <1>2, <1>3, <2>11, <2>12, <2>13, BlockIs
  <2>15. px' = [px EXCEPT ![c] = p] /\ back' = [back EXCEPT ![c] = b] /\ front' = [front EXCEPT ![c] = front[c]]
    BY <1>2, <1>3, <1>6, <2>1, <2>4, <2>7, <2>10, <2>13 DEF Functions
  <2>16. p.pc \in Busy /\ p.pc \in Serving
    BY <2>14 DEF Busy, Serving
  <2>17. QED
    BY <1>1, <1>3, <1>5, <1>6, <2>1, <2>6, <2>14, <2>15, <2>16, ThreadMoves DEF ThreadFrame
<1>7. ASSUME px' = [px EXCEPT ![c].pc = "write", ![c].out = px[c].rio.usr, ![c].rio.usr = <<>>],
             UNCHANGED <<calls, proxy, netVars>>
      PROVE  Held'
  <2>1. PICK usr, q : usr = rio.usr /\ q = [rio EXCEPT !.usr = <<>>]
    OBVIOUS
  <2>2. <<>> \in Seq(AnsByte) /\ Len(<<>>) = 0 /\ usr \in Seq(AnsByte) /\ usr \in Seq(Byte)
    BY <1>3, <2>1, EmptySeq, RioParts, AskIsByte
  <2>3. q \in Rio(AnsByte) /\ q.usr = <<>> /\ q.buf = <<>>
    BY <1>3, <2>1, <2>2 DEF Rio
  <2>4. q \in Rio(Byte)
    BY <2>3, AskIsByte
  <2>5. PICK p : p = [o EXCEPT !.pc = "write", !.out = usr, !.rio = q]
    OBVIOUS
  <2>6. p \in PxType /\ p.pc = "write" /\ p.out = usr /\ p.rio = q
    BY <1>3, <2>2, <2>4, <2>5 DEF PxType, Busy
  <2>7. GoodThread(p)
    BY <1>3, <2>2, <2>3, <2>6 DEF GoodThread, Reading
  <2>8. px' = [px EXCEPT ![c] = p] /\ back' = [back EXCEPT ![c] = back[c]] /\ front' = [front EXCEPT ![c] = front[c]]
    BY <1>2, <1>3, <1>7, <2>1, <2>5, ZenonT(40) DEF Functions, netVars
  <2>9. p.pc \in Busy /\ p.pc \in Serving
    BY <2>6 DEF Busy, Serving
  <2>10. QED
    BY <1>1, <1>3, <1>5, <1>7, <2>7, <2>8, <2>9, ThreadMoves DEF ThreadFrame, netVars
<1>8. ASSUME NEW f \in Shut(front[c], "far"), NEW b \in Shut(back[c], "near"),
             front' = [front EXCEPT ![c] = f], back' = [back EXCEPT ![c] = b],
             px' = [px EXCEPT ![c] = [Idle EXCEPT !.pc = "done"]],
             UNCHANGED <<calls, proxy, ring>>
      PROVE  Held'
  <2>1. GoodConn(f) /\ f.shut = front[c].shut \cup {"far"} /\ GoodConn(b) /\ b.shut = back[c].shut \cup {"near"}
    BY <1>3, <1>8, ShutIs, EndsAre
  <2>2. PICK p : p = [Idle EXCEPT !.pc = "done"]
    OBVIOUS
  <2>3. GoodThread(p) /\ p.pc = "done"
    <3>1. Idle \in PxType /\ Idle.rio = rio_readinitb /\ rio_readinitb.buf = <<>> /\ rio_readinitb.usr = <<>> /\ Len(<<>>) = 0
      BY IdleIs, RioInit, EmptySeq DEF GoodThread
    <3>2. p \in PxType /\ p.pc = "done" /\ p.rio = Idle.rio
      BY <2>2, <3>1 DEF PxType
    <3>3. QED
      BY <2>2, <3>1, <3>2 DEF GoodThread, Reading
  <2>4. px'[c] = p /\ front'[c] = f /\ back'[c] = b
    BY <1>3, <1>8, <2>2 DEF Functions
  <2>5. tiny' = tiny /\ cgi' = cgi /\ ask' = ask /\ end' = end /\ todo' = todo /\ got' = got /\ calls' = calls
        /\ proxy' = proxy /\ ring' = ring
    BY <1>8 DEF ThreadFrame, tinyVars, clientVars
  <2>6. px[c] # Idle /\ ask[c].to = "proxy" /\ end[c] # "new" /\ c \notin Queued(calls)
    BY <1>2, <1>3, IdleIs DEF Holding
  <2>7. Holding(c)'
    BY <1>1, <1>3, <2>1, <2>3, <2>4, <2>5, <2>6 DEF Holding, Link, Serving
  <2>8. Only(c)
    <3>1. front' = [front EXCEPT ![c] = front'[c]] /\ back' = [back EXCEPT ![c] = back'[c]] /\ px' = [px EXCEPT ![c] = px'[c]]
      BY <1>8, <2>2, <2>4
    <3>2. todo' = [todo EXCEPT ![c] = todo'[c]] /\ got' = [got EXCEPT ![c] = got'[c]] /\ end' = [end EXCEPT ![c] = end'[c]]
      BY <1>3, <2>5 DEF Functions
    <3>3. QED
      BY <2>5, <3>1, <3>2 DEF Only
  <2>9. GoodAt(c)' /\ GoodTiny' /\ GoodQueues'
    BY <1>3, <2>1, <2>3, <2>4, <2>5, <2>7 DEF GoodAt, GoodTiny, GoodQueues
  <2>10. QED
    BY <1>3, <2>5, <2>8, <2>9, OneAtATime DEF Functions
<1>9. QED
  BY <1>4, <1>6, <1>7, <1>8 DEF ReadsServer

LEMMA WritesClientHeld ==
  ASSUME Held, NEW c \in Clients, WritesClient(c), ThreadFrame
  PROVE  Held'
<1>1. proxy = "up" /\ px[c].pc \in {"write", "error"}
  BY DEF WritesClient
<1>2. PICK o, rio : o = px[c] /\ rio = o.rio
  OBVIOUS
<1>3. /\ GoodThread(o) /\ o \in PxType /\ o.pc \in {"write", "error"} /\ o.out \in Seq(AnsByte)
      /\ Len(rio.buf) <= RioBuf
      /\ o.pc = "write" => rio \in Rio(AnsByte) /\ rio.usr = <<>>
      /\ GoodConn(front[c]) /\ GoodConn(back[c]) /\ Functions
  BY <1>1, <1>2 DEF Held, GoodAt, GoodThread
<1>4. CASE ProxyDies
  BY <1>1, <1>4, ProxyDiesHeld DEF ThreadFrame
<1>5. ASSUME NEW n \in {Fits(front[c], "far", px[c].out)}, n > 0,
             front' = [front EXCEPT ![c] = Put(@, "far", SubSeq(px[c].out, 1, n))],
             px' = [px EXCEPT ![c] =
               IF n < Len(@.out) THEN [px[c] EXCEPT !.out = SubSeq(@, n + 1, Len(@))]
               ELSE IF @.pc = "error" THEN [Idle EXCEPT !.pc = "leaked"]
               ELSE Block(c, Copied(@.rio))],
             UNCHANGED <<calls, proxy, back, ring>>
      PROVE  Held'
  <2>1. PICK s, k : s = o.out /\ k = front[c] /\ GoodConn(k) /\ s \in Seq(AnsByte)
    BY <1>3
  <2>2. "far" \in Ends /\ Flow(Other("far")) = AnsByte
    BY EndsAre DEF Flow
  <2>3. n = Fits(k, "far", s)
    BY <1>2, <1>5, <2>1
  <2>4. PICK f, rest : f = Put(k, "far", SubSeq(s, 1, n)) /\ rest = SubSeq(s, n + 1, Len(s))
    OBVIOUS
  <2>5. GoodConn(f) /\ f.shut = k.shut /\ rest \in Seq(AnsByte)
    BY <1>5, <2>1, <2>2, <2>3, <2>4, WriteIs
  <2>6. PICK p : p = IF n < Len(s) THEN [o EXCEPT !.out = rest]
                     ELSE IF o.pc = "error" THEN [Idle EXCEPT !.pc = "leaked"] ELSE Block(c, Copied(rio))
    OBVIOUS
  <2>7. px' = [px EXCEPT ![c] = p] /\ front' = [front EXCEPT ![c] = f] /\ back' = [back EXCEPT ![c] = back[c]]
    <3>1. front' = [front EXCEPT ![c] = f] /\ back' = [back EXCEPT ![c] = back[c]]
      <4>1. front' = [front EXCEPT ![c] = Put(front[c], "far", SubSeq(px[c].out, 1, n))]
        BY <1>5, Zenon
      <4>2. QED
        BY <4>1, <1>2, <1>3, <1>5, <2>1, <2>4 DEF Functions
    <3>2. px' = [px EXCEPT ![c] =
                   IF n < Len(px[c].out) THEN [px[c] EXCEPT !.out = SubSeq(px[c].out, n + 1, Len(px[c].out))]
                   ELSE IF px[c].pc = "error" THEN [Idle EXCEPT !.pc = "leaked"]
                   ELSE Block(c, Copied(px[c].rio))]
      BY <1>5, Zenon
    <3>3. p = (IF n < Len(px[c].out) THEN [px[c] EXCEPT !.out = SubSeq(px[c].out, n + 1, Len(px[c].out))]
               ELSE IF px[c].pc = "error" THEN [Idle EXCEPT !.pc = "leaked"]
               ELSE Block(c, Copied(px[c].rio)))
      BY <1>2, <2>1, <2>4, <2>6
    <3>4. QED
      BY <3>1, <3>2, <3>3
  <2>8. /\ GoodThread(p) /\ p.pc \in Busy \cup {"leaked"}
        /\ p.pc \in Serving <=> px[c].pc \in Serving
    <3>1. CASE n < Len(s)
      <4>1. rest \in Seq(Byte)
        BY <2>5, AskIsByte
      <4>2. p \in PxType /\ p.pc = o.pc /\ p.rio = rio /\ p.out = rest
        BY <1>2, <1>3, <2>6, <3>1, <4>1 DEF PxType
      <4>3. QED
        BY <1>2, <1>3, <2>5, <4>2 DEF GoodThread, Reading, Busy
    <3>2. CASE ~ (n < Len(s)) /\ o.pc = "error"
      <4>1. Idle \in PxType /\ Idle.rio = rio_readinitb /\ rio_readinitb.buf = <<>> /\ rio_readinitb.usr = <<>> /\ Len(<<>>) = 0
        BY IdleIs, RioInit, EmptySeq DEF GoodThread
      <4>2. p = [Idle EXCEPT !.pc = "leaked"]
        BY <2>6, <3>2
      <4>3. p \in PxType /\ p.pc = "leaked" /\ p.rio = rio_readinitb
        BY <4>1, <4>2 DEF PxType
      <4>4. QED
        BY <1>2, <3>2, <4>1, <4>3 DEF GoodThread, Reading, Serving
    <3>3. CASE ~ (n < Len(s)) /\ o.pc # "error"
      <4>1. rio \in Rio(AnsByte) /\ rio.usr = <<>> /\ Len(rio.usr) = 0 /\ Len(rio.buf) \in Nat
        BY <1>3, <3>3, RioParts, EmptySeq
      <4>2. PICK r : r = Copied(rio)
        OBVIOUS
      <4>3. r \in Rio(AnsByte) /\ Len(r.usr) <= MaxLine /\ Len(r.buf) <= Len(rio.buf) /\ (Len(r.usr) # MaxLine => r.buf = <<>>)
        <5>1. Len(rio.usr) <= MaxLine
          BY <4>1
        <5>2. QED
          BY <5>1, <4>1, <4>2, CopiedIs
      <4>4. Len(r.buf) <= RioBuf
        BY <1>3, <4>1, <4>3, RioParts
      <4>5. p = Block(c, r)
        BY <2>6, <3>3, <4>2
      <4>6. GoodThread(p) /\ p.pc \in {"write", "relay"}
        BY <1>2, <1>3, <4>3, <4>4, <4>5, BlockIs
      <4>7. QED
        BY <1>2, <1>3, <3>3, <4>6 DEF Busy, Serving
    <3>4. QED
      BY <3>1, <3>2, <3>3
  <2>9. px[c].pc \in Busy
    BY <1>1 DEF Busy
  <2>10. QED
    BY <1>1, <1>3, <1>5, <2>1, <2>5, <2>7, <2>8, <2>9, ThreadMoves DEF ThreadFrame
<1>6. QED
  BY <1>4, <1>5 DEF WritesClient

-----------------------------------------------------------------------------
(* The main thread of the proxy.                                             *)

(* The main thread of the proxy. *)
LEMMA ProxyListensHeld ==
  ASSUME Held, Listening, ProxyListens, UNCHANGED <<tinyVars, clientVars>>
  PROVE  Held'
<1>1. Functions /\ GoodTiny /\ GoodQueues
  BY DEF Held
<1>2. Functions' /\ GoodTiny' /\ GoodQueues'
  <2>1. Functions'
    BY <1>1 DEF Functions, ProxyListens, netVars, clientVars
  <2>2. GoodTiny'
    BY <1>1 DEF GoodTiny, tinyVars
  <2>3. tiny.pc # "starting" /\ GoodQueues'
    BY <1>1 DEF GoodQueues, ProxyListens, Listening, netVars, tinyVars
  <2>4. QED
    BY <2>1, <2>2, <2>3
<1>3. ASSUME NEW c \in Clients PROVE GoodAt(c)'
  <2>1. GoodAt(c) /\ Holding(c)
    BY DEF Held, GoodAt
  <2>2. /\ front'[c] = front[c] /\ back'[c] = back[c] /\ px'[c] = px[c] /\ ask' = ask /\ end' = end /\ calls' = calls
        /\ ring' = ring /\ tiny' = tiny /\ proxy = "starting" /\ proxy' = "up"
    BY DEF ProxyListens, netVars, tinyVars, clientVars
  <2>3. Holding(c)'
    BY <2>1, <2>2, AbsentIs, IdleIs, EndsAre DEF Holding, Link, Serving
  <2>4. QED
    BY <2>1, <2>2, <2>3 DEF GoodAt
<1>4. QED
  BY <1>2, <1>3 DEF Held

LEMMA ProxyAcceptHeld ==
  ASSUME Held, ProxyAccept, UNCHANGED <<tinyVars, clientVars>>
  PROVE  Held'
<1>1. Functions /\ GoodTiny /\ GoodQueues
  BY DEF Held
<1>2. PICK c \in Clients : c = Head(calls) /\ c \in Queued(calls) /\ OnceOnly(calls') /\ Queued(calls') = Queued(calls) \ {c}
  BY <1>1, Queues DEF GoodQueues, ProxyAccept
<1>3. PICK p : p = [Idle EXCEPT !.pc = "line"]
  OBVIOUS
<1>4. GoodThread(p) /\ p.pc = "line"
  <2>1. Idle \in PxType /\ Idle.rio = rio_readinitb /\ rio_readinitb.buf = <<>> /\ rio_readinitb.usr = <<>> /\ Len(<<>>) = 0
        /\ rio_readinitb \in Rio(AskByte)
    BY IdleIs, RioInit, EmptySeq DEF GoodThread
  <2>2. p \in PxType /\ p.pc = "line" /\ p.rio = rio_readinitb
    BY <1>3, <2>1 DEF PxType, Busy
  <2>3. QED
    BY <2>1, <2>2 DEF GoodThread, Reading
<1>5. px' = [px EXCEPT ![c] = p]
  BY <1>2, <1>3 DEF ProxyAccept
<1>6. px'[c] = p /\ front'[c] = front[c] /\ back'[c] = back[c] /\ ask' = ask /\ end' = end /\ todo' = todo /\ got' = got
      /\ ring' = ring /\ tiny' = tiny /\ cgi' = cgi /\ proxy' = proxy /\ proxy = "up" /\ front' = front /\ back' = back
  BY <1>1, <1>5 DEF Functions, ProxyAccept, netVars, tinyVars, clientVars
<1>7. GoodAt(c) /\ Holding(c)
  BY DEF Held, GoodAt
<1>8. ask[c].to = "proxy" /\ end[c] # "new" /\ px[c] = Idle
  BY <1>2, <1>7 DEF Holding
<1>9. Holding(c)'
  BY <1>2, <1>4, <1>6, <1>7, <1>8, IdleIs DEF Holding, Link, Serving
<1>10. GoodAt(c)'
  BY <1>4, <1>6, <1>7, <1>9 DEF GoodAt
<1>11. GoodTiny' /\ GoodQueues'
  BY <1>1, <1>2, <1>6 DEF GoodTiny, GoodQueues
<1>12. Only(c)
  <2>1. front' = [front EXCEPT ![c] = front'[c]] /\ back' = [back EXCEPT ![c] = back'[c]] /\ px' = [px EXCEPT ![c] = px'[c]]
    BY <1>1, <1>5, <1>6 DEF Functions
  <2>2. todo' = [todo EXCEPT ![c] = todo'[c]] /\ got' = [got EXCEPT ![c] = got'[c]] /\ end' = [end EXCEPT ![c] = end'[c]]
    BY <1>1, <1>6 DEF Functions
  <2>3. QED
    BY <1>2, <1>6, <2>1, <2>2 DEF Only
<1>13. QED
  BY <1>1, <1>6, <1>10, <1>11, <1>12, OneAtATime DEF Functions

-----------------------------------------------------------------------------
(* The clients.                                                              *)

(* connect reaches a listen queue. *)
LEMMA ClientConnectsHeld ==
  ASSUME Held, NEW c \in Clients, ClientConnects(c)
  PROVE  Held'
<1>1. Functions /\ GoodTiny /\ GoodQueues /\ GoodAt(c) /\ Holding(c) /\ GoodConn(front[c]) /\ GoodConn(back[c]) /\ GoodThread(px[c])
  BY DEF Held, GoodAt
<1>2. /\ end[c] = "new" /\ end' = [end EXCEPT ![c] = "open"] /\ end'[c] = "open"
      /\ proxy' = proxy /\ px' = px /\ tiny' = tiny /\ cgi' = cgi /\ ask' = ask /\ todo' = todo /\ got' = got
  BY <1>1 DEF ClientConnects, tinyVars, Functions
<1>3. GoodTiny' /\ todo'[c] \in Seq(AskByte) /\ got'[c] \in Seq(AnsByte) /\ end'[c] \in EndType /\ px'[c] = px[c]
  BY <1>1, <1>2 DEF GoodTiny, Functions, EndType
<1>4. CASE ask[c].to = "proxy"
  <2>1. proxy = "up" /\ calls' = Append(calls, c) /\ ring' = ring /\ front' = [front EXCEPT ![c] = Fresh] /\ back' = back
    BY <1>4 DEF ClientConnects, Holds
  <2>2. OnceOnly(calls') /\ Queued(calls') = Queued(calls) \cup {c} /\ front'[c] = Fresh /\ back'[c] = back[c]
    BY <1>1, <1>2, <2>1, Queues DEF GoodQueues, Holding, Functions
  <2>3. Holding(c)'
    BY <1>1, <1>2, <1>3, <1>4, <2>1, <2>2, FreshIs, IdleIs DEF Holding, Link, Serving
  <2>4. GoodAt(c)'
    BY <1>1, <1>3, <2>2, <2>3, FreshIs DEF GoodAt
  <2>5. GoodQueues'
    BY <1>1, <1>2, <2>1, <2>2 DEF GoodQueues
  <2>6. Only(c)
    <3>1. front' = [front EXCEPT ![c] = front'[c]] /\ back' = [back EXCEPT ![c] = back'[c]] /\ px' = [px EXCEPT ![c] = px'[c]]
      BY <1>1, <1>2, <2>1, <2>2 DEF Functions
    <3>2. todo' = [todo EXCEPT ![c] = todo'[c]] /\ got' = [got EXCEPT ![c] = got'[c]] /\ end' = [end EXCEPT ![c] = end'[c]]
      BY <1>1, <1>2 DEF Functions
    <3>3. QED
      BY <1>2, <2>1, <2>2, <3>1, <3>2 DEF Only
  <2>7. QED
    BY <1>3, <2>4, <2>5, <2>6, OneAtATime
<1>5. CASE ask[c].to # "proxy"
  <2>1. tiny.pc \notin {"starting", "down"} /\ ring' = Append(ring, c) /\ calls' = calls /\ back' = [back EXCEPT ![c] = Fresh] /\ front' = front
    BY <1>5 DEF ClientConnects, Holds
  <2>2. OnceOnly(ring') /\ Queued(ring') = Queued(ring) \cup {c} /\ back'[c] = Fresh /\ front'[c] = front[c]
    BY <1>1, <1>2, <2>1, Queues DEF GoodQueues, Holding, Functions
  <2>3. Holding(c)'
    BY <1>1, <1>2, <1>3, <1>5, <2>1, <2>2, FreshIs, IdleIs DEF Holding, Link, Serving
  <2>4. GoodAt(c)'
    BY <1>1, <1>3, <2>2, <2>3, FreshIs DEF GoodAt
  <2>5. GoodQueues'
    <3>1. tiny.conn \notin Queued(ring')
      BY <1>1, <1>2, <2>2 DEF GoodQueues, Holding
    <3>2. QED
      BY <1>1, <1>2, <2>1, <2>2, <3>1 DEF GoodQueues
  <2>6. Only(c)
    <3>1. front' = [front EXCEPT ![c] = front'[c]] /\ back' = [back EXCEPT ![c] = back'[c]] /\ px' = [px EXCEPT ![c] = px'[c]]
      BY <1>1, <1>2, <2>1, <2>2 DEF Functions
    <3>2. todo' = [todo EXCEPT ![c] = todo'[c]] /\ got' = [got EXCEPT ![c] = got'[c]] /\ end' = [end EXCEPT ![c] = end'[c]]
      BY <1>1, <1>2 DEF Functions
    <3>3. QED
      BY <1>2, <2>1, <2>2, <3>1, <3>2 DEF Only
  <2>7. QED
    BY <1>3, <2>4, <2>5, <2>6, OneAtATime
<1>6. QED
  BY <1>4, <1>5

(* A client uses or closes the connection it has. *)
LEMMA ClientMoves ==
  ASSUME Held, NEW c \in Clients, NEW k, GoodConn(k), end[c] = "open", Holds(c, k),
         UNCHANGED <<proxyVars, tinyVars, ring, ask>>,
         todo' = [todo EXCEPT ![c] = todo'[c]], got' = [got EXCEPT ![c] = got'[c]], end' = [end EXCEPT ![c] = end'[c]],
         todo'[c] \in Seq(AskByte), got'[c] \in Seq(AnsByte), end'[c] \in EndType \ {"new"},
         k.shut = Link(c).shut \cup (IF end'[c] = "open" THEN {} ELSE {"near"})
  PROVE  Held'
<1>1. Functions /\ GoodTiny /\ GoodQueues /\ GoodAt(c) /\ Holding(c) /\ GoodConn(front[c]) /\ GoodConn(back[c]) /\ GoodThread(px[c])
  BY DEF Held, GoodAt
<1>2. calls' = calls /\ proxy' = proxy /\ px' = px /\ tiny' = tiny /\ cgi' = cgi /\ ask' = ask /\ ring' = ring
  BY DEF proxyVars, tinyVars
<1>3. /\ ask[c].to = "proxy" => front' = [front EXCEPT ![c] = k] /\ back' = back /\ front'[c] = k /\ back'[c] = back[c]
      /\ ask[c].to # "proxy" => back' = [back EXCEPT ![c] = k] /\ front' = front /\ front'[c] = front[c] /\ back'[c] = k
  BY <1>1 DEF Holds, Functions
<1>4. GoodTiny' /\ GoodQueues'
  BY <1>1, <1>2 DEF GoodTiny, GoodQueues
<1>5. Holding(c)'
  <2>1. CASE ask[c].to = "proxy"
    BY <1>1, <1>2, <1>3, <2>1 DEF Holding, Link
  <2>2. CASE ask[c].to # "proxy"
    BY <1>1, <1>2, <1>3, <2>2 DEF Holding, Link
  <2>3. QED
    BY <2>1, <2>2
<1>6. GoodAt(c)'
  BY <1>1, <1>2, <1>3, <1>5 DEF GoodAt
<1>7. Only(c)
  <2>1. front' = [front EXCEPT ![c] = front'[c]] /\ back' = [back EXCEPT ![c] = back'[c]] /\ px' = [px EXCEPT ![c] = px'[c]]
    BY <1>1, <1>2, <1>3 DEF Functions
  <2>2. QED
    BY <1>2, <2>1 DEF Only
<1>8. QED
  BY <1>4, <1>6, <1>7, OneAtATime

LEMMA LinkGood == ASSUME Held, NEW c \in Clients PROVE GoodConn(Link(c))
BY DEF Held, GoodAt, Link

(* The three things a connected client does. *)
LEMMA ClientSendsHeld ==
  ASSUME Held, NEW c \in Clients, ClientSends(c)
  PROVE  Held'
<1>1. PICK n : n = Fits(Link(c), "near", todo[c]) /\ n > 0 /\ Holds(c, Put(Link(c), "near", SubSeq(todo[c], 1, n)))
               /\ todo' = [todo EXCEPT ![c] = SubSeq(todo[c], n + 1, Len(todo[c]))]
  BY DEF ClientSends
<1>2. Functions /\ GoodConn(Link(c)) /\ todo[c] \in Seq(AskByte)
  BY LinkGood DEF Held, Functions
<1>3. "near" \in Ends /\ Flow(Other("near")) = AskByte
  BY EndsAre DEF Flow
<1>4. PICK k, s, l : k = Link(c) /\ s = todo[c] /\ l = Put(k, "near", SubSeq(s, 1, n))
  OBVIOUS
<1>5. GoodConn(l) /\ l.shut = k.shut /\ SubSeq(s, n + 1, Len(s)) \in Seq(AskByte)
  BY <1>1, <1>2, <1>3, <1>4, WriteIs
<1>6. todo'[c] = SubSeq(s, n + 1, Len(s)) /\ got' = got /\ end' = end /\ end[c] = "open"
  BY <1>1, <1>2, <1>4 DEF ClientSends, Functions
<1>7. todo' = [todo EXCEPT ![c] = todo'[c]] /\ got' = [got EXCEPT ![c] = got'[c]] /\ end' = [end EXCEPT ![c] = end'[c]]
  BY <1>1, <1>2, <1>4, <1>6 DEF Functions
<1>8. todo'[c] \in Seq(AskByte) /\ got'[c] \in Seq(AnsByte) /\ end'[c] \in EndType \ {"new"} /\ end'[c] = "open"
  BY <1>2, <1>5, <1>6 DEF Functions, EndType
<1>9. Holds(c, l) /\ UNCHANGED <<proxyVars, tinyVars, ring, ask>>
  BY <1>1, <1>4 DEF ClientSends
<1>10. l.shut = Link(c).shut \cup (IF end'[c] = "open" THEN {} ELSE {"near"})
  BY <1>4, <1>5, <1>8
<1>11. QED
  BY <1>5, <1>6, <1>7, <1>8, <1>9, <1>10, ClientMoves

LEMMA ClientReceivesHeld ==
  ASSUME Held, NEW c \in Clients, ClientReceives(c)
  PROVE  Held'
<1>1. PICK k : k = Link(c) /\ GoodConn(k)
  BY LinkGood
<1>2. Functions /\ end[c] = "open" /\ "near" \in Ends /\ Flow("near") = AnsByte
      /\ UNCHANGED <<proxyVars, tinyVars, ring, ask>> /\ todo' = todo
  BY EndsAre DEF Held, ClientReceives, Flow
<1>3. ASSUME got' = [got EXCEPT ![c] = @ \o Link(c).data["near"]],
             Holds(c, Taken(Link(c), "near", SockBuf)), UNCHANGED end
      PROVE  Held'
  <2>1. PICK s, t, l : s = got[c] /\ t = k.data["near"] /\ l = Taken(k, "near", SockBuf)
    OBVIOUS
  <2>2. SockBuf \in Nat
    OBVIOUS
  <2>3. GoodConn(l) /\ l.shut = k.shut /\ t \in Seq(AnsByte)
    BY <1>1, <1>2, <2>1, <2>2, TakenIs, ConnData
  <2>4. s ++ t \in Seq(AnsByte)
    BY <1>2, <2>1, <2>3, Joined DEF Functions
  <2>5. got' = [got EXCEPT ![c] = s ++ t]
    BY <1>1, <1>3, <2>1 DEF ++
  <2>6. got'[c] = s ++ t /\ end' = end
    BY <1>2, <1>3, <2>5 DEF Functions
  <2>7. todo' = [todo EXCEPT ![c] = todo'[c]] /\ got' = [got EXCEPT ![c] = got'[c]] /\ end' = [end EXCEPT ![c] = end'[c]]
    BY <1>2, <1>3, <2>5, <2>6 DEF Functions
  <2>8. todo'[c] \in Seq(AskByte) /\ got'[c] \in Seq(AnsByte) /\ end'[c] \in EndType \ {"new"} /\ end'[c] = "open"
    BY <1>2, <2>4, <2>6 DEF Functions, EndType
  <2>9. Holds(c, l) /\ l.shut = Link(c).shut \cup (IF end'[c] = "open" THEN {} ELSE {"near"})
    BY <1>1, <1>3, <2>1, <2>3, <2>8
  <2>10. QED
    BY <1>2, <2>3, <2>7, <2>8, <2>9, ClientMoves
<1>4. ASSUME end' = [end EXCEPT ![c] = IF AtError(Link(c), "near") THEN "failed" ELSE "eof"],
             NEW l \in Shut(Link(c), "near"), Holds(c, l), UNCHANGED got
      PROVE  Held'
  <2>1. GoodConn(l) /\ l.shut = k.shut \cup {"near"}
    BY <1>1, <1>2, <1>4, ShutIs
  <2>2. end'[c] \in EndType \ {"new"} /\ end'[c] # "open" /\ todo'[c] \in Seq(AskByte) /\ got'[c] \in Seq(AnsByte)
    BY <1>2, <1>4 DEF Functions, EndType
  <2>3. todo' = [todo EXCEPT ![c] = todo'[c]] /\ got' = [got EXCEPT ![c] = got'[c]] /\ end' = [end EXCEPT ![c] = end'[c]]
    BY <1>2, <1>4 DEF Functions
  <2>4. l.shut = Link(c).shut \cup (IF end'[c] = "open" THEN {} ELSE {"near"})
    BY <1>1, <2>1, <2>2
  <2>5. QED
    BY <1>2, <1>4, <2>1, <2>2, <2>3, <2>4, ClientMoves
<1>5. QED
  BY <1>3, <1>4 DEF ClientReceives

LEMMA ClientLeavesHeld ==
  ASSUME Held, NEW c \in Clients, ClientLeaves(c)
  PROVE  Held'
<1>1. PICK l \in Shut(Link(c), "near") : Holds(c, l)
  BY DEF ClientLeaves
<1>2. PICK k : k = Link(c) /\ GoodConn(k)
  BY LinkGood
<1>3. Functions /\ end[c] = "open" /\ end' = [end EXCEPT ![c] = "left"] /\ got' = got /\ todo' = todo
      /\ UNCHANGED <<proxyVars, tinyVars, ring, ask>>
  BY DEF Held, ClientLeaves
<1>4. GoodConn(l) /\ l.shut = k.shut \cup {"near"}
  BY <1>1, <1>2, ShutIs, EndsAre
<1>5. end'[c] = "left" /\ end'[c] \in EndType \ {"new"} /\ todo'[c] \in Seq(AskByte) /\ got'[c] \in Seq(AnsByte)
  BY <1>3 DEF Functions, EndType
<1>6. todo' = [todo EXCEPT ![c] = todo'[c]] /\ got' = [got EXCEPT ![c] = got'[c]] /\ end' = [end EXCEPT ![c] = end'[c]]
  BY <1>3 DEF Functions
<1>7. l.shut = Link(c).shut \cup (IF end'[c] = "open" THEN {} ELSE {"near"})
  BY <1>2, <1>4, <1>5
<1>8. QED
  BY <1>1, <1>3, <1>4, <1>5, <1>6, <1>7, ClientMoves

-----------------------------------------------------------------------------
(* Tiny and the program it forks.                                            *)

TinyFrame == UNCHANGED <<proxyVars, front, ring, clientVars>>

(* Tiny or its child works for the client of the connection tiny holds. *)
LEMMA TinyMoves ==
  ASSUME Held, NEW c \in Clients, tiny.conn = c, NEW b, GoodConn(b), b.shut = back[c].shut,
         back' = [back EXCEPT ![c] = b], TinyFrame, GoodTiny',
         tiny'.conn = c, tiny'.pc # "down", tiny.pc # "down", tiny'.pc # "starting"
  PROVE  Held'
<1>1. Functions /\ GoodTiny /\ GoodQueues /\ GoodAt(c) /\ Holding(c) /\ GoodConn(front[c]) /\ GoodConn(back[c]) /\ GoodThread(px[c])
  BY DEF Held, GoodAt
<1>2. calls' = calls /\ proxy' = proxy /\ px' = px /\ ask' = ask /\ ring' = ring /\ front' = front
      /\ todo' = todo /\ got' = got /\ end' = end /\ back'[c] = b
  BY <1>1 DEF TinyFrame, proxyVars, clientVars, Functions
<1>3. Only(c)
  <2>1. front' = [front EXCEPT ![c] = front'[c]] /\ back' = [back EXCEPT ![c] = back'[c]] /\ px' = [px EXCEPT ![c] = px'[c]]
    BY <1>1, <1>2 DEF Functions
  <2>2. todo' = [todo EXCEPT ![c] = todo'[c]] /\ got' = [got EXCEPT ![c] = got'[c]] /\ end' = [end EXCEPT ![c] = end'[c]]
    BY <1>1, <1>2 DEF Functions
  <2>3. QED
    BY <1>2, <2>1, <2>2 DEF Only
<1>4. Holding(c)'
  BY <1>1, <1>2 DEF Holding, Link
<1>5. GoodAt(c)' /\ GoodQueues'
  BY <1>1, <1>2, <1>4 DEF GoodAt, GoodQueues
<1>6. QED
  BY <1>1, <1>2, <1>3, <1>5, OneAtATime DEF Functions

TinyType == [pc : TinyPcs, conn : Clients \cup {NoConn}, rio : Rio(AskByte), out : Seq(AnsByte), path : Text]

(* Tiny goes on without a call that touches a connection. *)
LEMMA TinyThinks ==
  ASSUME Held, NEW t \in TinyType, TinyGoes(t), UNCHANGED clientVars,
         tiny.pc \notin {"starting", "accept", "down"}, t.conn = tiny.conn, t.pc \notin {"starting", "accept", "down"},
         Len(t.rio.buf) <= RioBuf, Len(t.rio.usr) < MaxLine, t.pc \in Reading => Len(t.rio.usr) < MaxLine - 1,
         cgi.up => t.pc = "wait"
  PROVE  Held'
<1>1. Functions /\ GoodTiny
  BY DEF Held
<1>2. PICK c \in Clients : tiny.conn = c
  BY <1>1 DEF GoodTiny
<1>3. GoodConn(back[c]) /\ back' = [back EXCEPT ![c] = back[c]]
  BY <1>1 DEF Held, GoodAt, Functions, TinyGoes, netVars
<1>4. tiny' = t /\ cgi' = cgi
  BY DEF TinyGoes
<1>5. c # NoConn
  BY WebAssumption
<1>6. GoodTiny'
  BY <1>1, <1>2, <1>4, <1>5 DEF GoodTiny, TinyType
<1>7. TinyFrame
  BY DEF TinyGoes, TinyFrame, netVars
<1>8. QED
  BY <1>2, <1>3, <1>4, <1>6, <1>7, TinyMoves

(* The steps of tiny, one lemma each. *)
LEMMA TinyListensHeld ==
  ASSUME Held, TinyListens, UNCHANGED clientVars
  PROVE  Held'
<1>1. Functions /\ GoodTiny /\ GoodQueues
  BY DEF Held
<1>2. PICK o, t : o = tiny /\ t = tiny' /\ o \in TinyType /\ t = [o EXCEPT !.pc = "accept"] /\ o.pc = "starting"
  BY <1>1 DEF TinyListens, GoodTiny, TinyType
<1>3. t \in TinyType /\ t.pc = "accept" /\ t.conn = o.conn /\ t.rio = o.rio
  BY <1>2 DEF TinyType, TinyPcs
<1>4. /\ calls' = calls /\ proxy' = proxy /\ px' = px /\ ask' = ask /\ ring' = ring /\ front' = front /\ back' = back
      /\ todo' = todo /\ got' = got /\ end' = end /\ cgi' = cgi
  BY DEF TinyListens, proxyVars, clientVars, netVars
<1>5. GoodTiny'
  BY <1>1, <1>2, <1>3, <1>4 DEF GoodTiny, TinyType, Reading
<1>6. Functions' /\ GoodQueues'
  BY <1>1, <1>2, <1>3, <1>4 DEF Functions, GoodQueues
<1>7. ASSUME NEW c \in Clients PROVE GoodAt(c)'
  <2>1. GoodAt(c)
    BY DEF Held
  <2>2. Still(c)
    BY <1>2, <1>3, <1>4 DEF Still
  <2>3. QED
    BY <1>2, <1>3, <1>4, <2>1, <2>2, StillGood
<1>8. QED
  BY <1>5, <1>6, <1>7 DEF Held

LEMMA TinyAcceptHeld ==
  ASSUME Held, TinyAccept, UNCHANGED clientVars
  PROVE  Held'
<1>1. Functions /\ GoodTiny /\ GoodQueues
  BY DEF Held
<1>2. PICK c \in Clients : c = Head(ring) /\ c \in Queued(ring) /\ OnceOnly(ring') /\ Queued(ring') = Queued(ring) \ {c}
  BY <1>1, Queues DEF GoodQueues, TinyAccept
<1>3. PICK o, t, r : /\ o = tiny /\ t = tiny' /\ r = rio_readinitb /\ o \in TinyType /\ o.pc = "accept"
                     /\ t = [o EXCEPT !.pc = "line", !.conn = c, !.rio = r]
  BY <1>1, <1>2, ZenonT(40) DEF TinyAccept, GoodTiny, TinyType
<1>4. r \in Rio(AskByte) /\ Len(r.buf) = 0 /\ Len(r.usr) = 0
  BY <1>3, RioInit, EmptySeq
<1>5. t \in TinyType /\ t.pc = "line" /\ t.conn = c /\ t.rio = r /\ c # NoConn /\ o.conn = NoConn
  BY <1>1, <1>3, <1>4, WebAssumption DEF TinyType, TinyPcs, GoodTiny
<1>6. /\ calls' = calls /\ proxy' = proxy /\ px' = px /\ ask' = ask /\ front' = front /\ back' = back
      /\ todo' = todo /\ got' = got /\ end' = end /\ cgi' = cgi
  BY DEF TinyAccept, proxyVars, clientVars
<1>7. GoodTiny'
  BY <1>1, <1>3, <1>4, <1>5, <1>6 DEF GoodTiny, TinyType
<1>8. GoodQueues'
  BY <1>1, <1>2, <1>3, <1>5, <1>6 DEF GoodQueues
<1>9. Only(c)
  <2>1. front' = [front EXCEPT ![c] = front'[c]] /\ back' = [back EXCEPT ![c] = back'[c]] /\ px' = [px EXCEPT ![c] = px'[c]]
    BY <1>1, <1>6 DEF Functions
  <2>2. todo' = [todo EXCEPT ![c] = todo'[c]] /\ got' = [got EXCEPT ![c] = got'[c]] /\ end' = [end EXCEPT ![c] = end'[c]]
    BY <1>1, <1>6 DEF Functions
  <2>3. \A d \in Clients \ {c} : d # NoConn /\ (d \in Queued(ring') <=> d \in Queued(ring))
    BY <1>2, WebAssumption
  <2>4. QED
    BY <1>3, <1>5, <1>6, <2>1, <2>2, <2>3 DEF Only
<1>10. GoodAt(c)'
  <2>1. GoodAt(c) /\ Holding(c)
    BY DEF Held, GoodAt
  <2>2. Holding(c)'
    BY <1>2, <1>3, <1>5, <1>6, <2>1 DEF Holding, Link
  <2>3. QED
    BY <1>6, <2>1, <2>2 DEF GoodAt
<1>11. QED
  BY <1>1, <1>6, <1>7, <1>8, <1>9, <1>10, OneAtATime DEF Functions

LEMMA TinyDiesHeld ==
  ASSUME Held, TinyDies, UNCHANGED clientVars, tiny.pc # "starting", tiny.pc # "wait"
  PROVE  Held'
<1>1. Functions /\ GoodTiny /\ GoodQueues
  BY DEF Held
<1>2. PICK o, t, r, s, n : o = tiny /\ t = tiny' /\ r = rio_readinitb /\ s = <<>> /\ n = NoConn /\ o \in TinyType
  BY <1>1 DEF GoodTiny, TinyType
<1>3. r \in Rio(AskByte) /\ Len(r.buf) = 0 /\ Len(r.usr) = 0 /\ s \in Seq(AnsByte)
  BY <1>2, RioInit, EmptySeq
<1>4. t \in TinyType /\ t.pc = "down" /\ t.conn = n /\ t.rio = r
  <2>1. t = [o EXCEPT !.pc = "down", !.conn = n, !.rio = r, !.out = s]
    BY <1>2 DEF TinyDies
  <2>2. QED
    BY <1>2, <1>3, <2>1 DEF TinyType, TinyPcs
<1>5. /\ calls' = calls /\ proxy' = proxy /\ px' = px /\ ask' = ask /\ front' = front /\ ring' = ring
      /\ todo' = todo /\ got' = got /\ end' = end /\ cgi' = cgi
  BY DEF TinyDies, proxyVars, clientVars
<1>6. GoodTiny'
  BY <1>1, <1>2, <1>3, <1>4, <1>5 DEF GoodTiny, TinyType, Reading
<1>7. GoodQueues'
  <2>1. n \notin Queued(ring)
    BY <1>1, <1>2, Queues, WebAssumption DEF GoodQueues
  <2>2. QED
    BY <1>1, <1>2, <1>4, <1>5, <2>1 DEF GoodQueues
<1>8. ASSUME NEW c \in Clients PROVE GoodAt(c)' /\ back'[c] \in ConnType
  <2>1. GoodConn(front[c]) /\ GoodConn(back[c]) /\ GoodThread(px[c]) /\ Holding(c)
    BY DEF Held, GoodAt
  <2>2. PICK b : b = Abandoned(back[c], "far")
    OBVIOUS
  <2>3. GoodConn(b) /\ b.shut = back[c].shut \cup {"far"}
    BY <2>1, <2>2, AbandonedIs, EndsAre
  <2>4. back'[c] = IF c = o.conn \/ c \in Queued(ring) THEN b ELSE back[c]
    BY <1>2, <2>2 DEF TinyDies, Queued
  <2>5. c # n
    BY <1>2, WebAssumption
  <2>6. Holding(c)'
    BY <1>2, <1>4, <1>5, <2>1, <2>3, <2>4, <2>5 DEF Holding, Link
  <2>7. GoodConn(back'[c])
    BY <2>1, <2>3, <2>4
  <2>8. QED
    BY <1>5, <2>1, <2>6, <2>7 DEF GoodAt, GoodConn, ConnType
<1>9. Functions'
  <2>1. back' \in [Clients -> ConnType]
    BY <1>8 DEF TinyDies
  <2>2. QED
    BY <1>1, <1>5, <2>1 DEF Functions
<1>10. QED
  BY <1>6, <1>7, <1>8, <1>9 DEF Held

(* Tiny at work has a connection. *)
LEMMA TinyServes ==
  ASSUME Held, tiny.pc \notin {"starting", "accept", "down"}
  PROVE  /\ tiny.conn \in Clients /\ GoodConn(back[tiny.conn])
         /\ tiny \in TinyType /\ Len(tiny.rio.buf) <= RioBuf /\ Len(tiny.rio.usr) < MaxLine
         /\ tiny.pc \in Reading => Len(tiny.rio.usr) < MaxLine - 1
         /\ tiny.pc # "wait" => ~cgi.up
<1>1. tiny.conn \in Clients
  BY DEF Held, GoodTiny
<1>2. GoodConn(back[tiny.conn])
  BY <1>1 DEF Held, GoodAt
<1>3. QED
  BY <1>1, <1>2 DEF Held, GoodTiny, TinyType

LEMMA TinyReadsHeld ==
  ASSUME Held, tiny.pc \in Reading, TinyReads, UNCHANGED clientVars
  PROVE  Held'
<1>1c. PICK c \in Clients : c = tiny.conn
  BY TinyServes DEF Reading
<1>1. PICK k, o : /\ c = tiny.conn /\ c \in Clients /\ k = back[c] /\ GoodConn(k) /\ o = tiny /\ o \in TinyType
                  /\ Len(o.rio.usr) < MaxLine - 1 /\ ~cgi.up
  BY <1>1c, TinyServes DEF Reading
<1>2. PICK n \in ReadSizes(k, "far") :
        /\ tiny' = [o EXCEPT !.rio = Refill(o.rio, SubSeq(k.data["far"], 1, n))]
        /\ back' = [back EXCEPT ![c] = Taken(k, "far", n)]
  BY <1>1 DEF TinyReads
<1>3. "far" \in Ends /\ Flow("far") = AskByte
  BY EndsAre DEF Flow
<1>4. n \in 1..RioBuf /\ SubSeq(k.data["far"], 1, n) \in Seq(AskByte) /\ Len(SubSeq(k.data["far"], 1, n)) = n
  BY <1>1, <1>2, <1>3, ReadSizesAre
<1>5. PICK s, b, q, t : /\ s = SubSeq(k.data["far"], 1, n) /\ b = Taken(k, "far", n)
                        /\ q = Refill(o.rio, s) /\ t = tiny'
  OBVIOUS
<1>6. s \in Seq(AskByte) /\ Len(s) = n /\ n \in Nat /\ n <= RioBuf
  BY <1>4, <1>5
<1>7. GoodConn(b) /\ b.shut = k.shut
  BY <1>1, <1>3, <1>5, <1>6, TakenIs
<1>8. o.rio \in Rio(AskByte) /\ LineBytes(o.rio) = 0
  BY <1>1 DEF TinyReads, TinyType
<1>9. q \in Rio(AskByte) /\ q.buf = s /\ Len(q.usr) < MaxLine - 1 /\ Len(q.usr) \in Nat
  <2>1. q \in Rio(AskByte) /\ q.buf = s /\ Len(q.usr) < MaxLine - 1
    <3>1. PICK old : old = o.rio /\ old \in Rio(AskByte) /\ LineBytes(old) = 0 /\ Len(old.usr) < MaxLine - 1
      BY <1>1, <1>8
    <3>2. q = Refill(old, s)
      BY <1>5, <3>1
    <3>3. QED
      BY <1>6, <3>1, <3>2, RefillIs
  <2>2. QED
    BY <2>1, RioParts
<1>10. t = [o EXCEPT !.rio = q]
  BY <1>2, <1>5
<1>11. t \in TinyType /\ t.pc = o.pc /\ t.conn = o.conn /\ t.rio = q
  BY <1>1, <1>9, <1>10 DEF TinyType
<1>12. cgi' = cgi /\ c # NoConn
  BY WebAssumption DEF TinyReads
<1>13. GoodTiny'
  BY <1>1, <1>5, <1>6, <1>9, <1>11, <1>12 DEF GoodTiny, TinyType, Reading, Held
<1>14. tiny'.conn = c /\ tiny'.pc = tiny.pc
  BY <1>1, <1>5, <1>11
<1>15. TinyFrame /\ back' = [back EXCEPT ![c] = b]
  BY <1>2, <1>5 DEF TinyFrame, TinyReads
<1>16. QED
  BY <1>1, <1>7, <1>13, <1>14, <1>15, TinyMoves DEF Reading

LEMMA DoitHeld ==
  ASSUME Held, Doit, UNCHANGED clientVars
  PROVE  Held'
<1>1. PICK o : /\ o = tiny /\ o \in TinyType /\ o.pc = "line" /\ Len(o.rio.buf) <= RioBuf /\ Len(o.rio.usr) < MaxLine - 1
               /\ o.rio \in Rio(AskByte) /\ Len(o.rio.usr) < MaxLine /\ ~cgi.up
  BY TinyServes DEF Doit, Reading, TinyType
<1>2. CASE TinyReads
  BY <1>1, <1>2, TinyReadsHeld DEF Reading
<1>3. CASE TinyReset
  BY <1>1, <1>3, TinyDiesHeld DEF TinyReset
<1>4. CASE TinyNoLine /\ TinyGoes([tiny EXCEPT !.pc = "close"])
  <2>1. PICK t : t = [o EXCEPT !.pc = "close"]
    OBVIOUS
  <2>2. t \in TinyType /\ t.pc = "close" /\ t.conn = o.conn /\ t.rio = o.rio
    BY <1>1, <2>1 DEF TinyType, TinyPcs
  <2>3. TinyGoes(t)
    BY <1>1, <1>4, <2>1
  <2>4. QED
    BY <1>1, <2>2, <2>3, TinyThinks DEF Reading
<1>5. ASSUME NEW g \in TinyLines,
             TinyGoes(IF g.line[1][1] = "GET"
                      THEN [tiny EXCEPT !.pc = "hdr1", !.path = PathOf(g.line[1]), !.rio = g.rio]
                      ELSE [tiny EXCEPT !.pc = "page", !.out = clienterror("501")])
      PROVE  Held'
  <2>1. /\ g.line \in Seq(AskByte) /\ g.line # <<>>
        /\ g.rio \in Rio(AskByte) /\ g.rio.usr = <<>> /\ Len(g.rio.buf) <= Len(o.rio.buf)
    BY <1>1, <1>5, LinesAre DEF TinyLines
  <2>2. PICK byte, rio : byte = g.line[1] /\ rio = g.rio
    OBVIOUS
  <2>3. byte[1] = "GET" => byte \in GetLine
    BY <2>1, <2>2, LineHead
  <2>4. Len(rio.usr) = 0 /\ Len(rio.buf) <= RioBuf
    BY <1>1, <2>1, <2>2, EmptySeq, RioParts
  <2>5. CASE byte[1] = "GET"
    <3>1. PICK path : path = PathOf(byte) /\ path \in Text
      BY <2>3, <2>5 DEF GetLine, PathOf
    <3>2. PICK t : t = [o EXCEPT !.pc = "hdr1", !.path = path, !.rio = rio]
      OBVIOUS
    <3>3. t \in TinyType /\ t.pc = "hdr1" /\ t.conn = o.conn /\ t.rio = rio
      BY <1>1, <2>1, <2>2, <3>1, <3>2 DEF TinyType, TinyPcs
    <3>4. TinyGoes(t)
      BY <1>1, <1>5, <2>2, <2>5, <3>1, <3>2
    <3>5. QED
      BY <1>1, <2>4, <3>3, <3>4, TinyThinks DEF Reading
  <2>6. CASE byte[1] # "GET"
    <3>1. PICK page : page = clienterror("501") /\ page \in Seq(AnsByte)
      BY ErrorPages
    <3>2. PICK t : t = [o EXCEPT !.pc = "page", !.out = page]
      OBVIOUS
    <3>3. t \in TinyType /\ t.pc = "page" /\ t.conn = o.conn /\ t.rio = o.rio
      BY <1>1, <3>1, <3>2 DEF TinyType, TinyPcs
    <3>4. TinyGoes(t)
      BY <1>1, <1>5, <2>2, <2>6, <3>1, <3>2
    <3>5. QED
      BY <1>1, <3>3, <3>4, TinyThinks DEF Reading
  <2>7. QED
    BY <2>5, <2>6
<1>6. QED
  BY <1>2, <1>3, <1>4, <1>5 DEF Doit

LEMMA TinyHeadersHeld ==
  ASSUME Held, TinyHeaders, UNCHANGED clientVars
  PROVE  Held'
<1>1. PICK o : /\ o = tiny /\ o \in TinyType /\ o.pc \in {"hdr1", "hdrs"} /\ Len(o.rio.buf) <= RioBuf
               /\ o.rio \in Rio(AskByte) /\ Len(o.rio.usr) < MaxLine /\ ~cgi.up
  BY TinyServes DEF TinyHeaders, TinyType
<1>2. CASE TinyReads
  BY <1>1, <1>2, TinyReadsHeld DEF Reading
<1>3. CASE TinyReset
  BY <1>1, <1>3, TinyDiesHeld DEF TinyReset
<1>4. ASSUME NEW to \in {"spin", "serve"}, TinyGoes([tiny EXCEPT !.pc = to]) PROVE Held'
  <2>1. PICK t : t = [o EXCEPT !.pc = to]
    OBVIOUS
  <2>2. t \in TinyType /\ t.pc = to /\ t.conn = o.conn /\ t.rio = o.rio
    BY <1>1, <2>1 DEF TinyType, TinyPcs
  <2>3. TinyGoes(t)
    BY <1>1, <1>4, <2>1
  <2>4. QED
    BY <1>1, <2>2, <2>3, TinyThinks DEF Reading
<1>5. ASSUME NEW g \in TinyLines,
             TinyGoes([tiny EXCEPT !.rio = g.rio, !.pc = IF g.line = Blank THEN "serve" ELSE "hdrs"])
      PROVE  Held'
  <2>1. g.rio \in Rio(AskByte) /\ g.rio.usr = <<>> /\ Len(g.rio.buf) <= Len(o.rio.buf)
    BY <1>1, <1>5, LinesAre DEF TinyLines
  <2>2. PICK rio, to : rio = g.rio /\ to = IF g.line = Blank THEN "serve" ELSE "hdrs"
    OBVIOUS
  <2>3. Len(rio.usr) = 0 /\ Len(rio.buf) <= RioBuf
    BY <1>1, <2>1, <2>2, EmptySeq, RioParts
  <2>4. PICK t : t = [o EXCEPT !.rio = rio, !.pc = to]
    OBVIOUS
  <2>5. t \in TinyType /\ t.pc = to /\ t.conn = o.conn /\ t.rio = rio /\ to \in {"serve", "hdrs"}
    BY <1>1, <2>1, <2>2, <2>4 DEF TinyType, TinyPcs
  <2>6. TinyGoes(t)
    BY <1>1, <1>5, <2>2, <2>4
  <2>7. QED
    BY <1>1, <2>3, <2>5, <2>6, TinyThinks DEF Reading
<1>6. QED
  BY <1>2, <1>3, <1>4, <1>5 DEF TinyHeaders

(* Whatever tiny and the program it forks write. *)
LEMMA AnswerBytes ==
  ASSUME NEW path \in Text
  PROVE  /\ <<<<path, "head">>>> \in Seq(AnsByte)
         /\ <<<<path, "status">>, <<path, "server">>>> \in Seq(AnsByte)
         /\ Body(path) \in Seq(AnsByte) /\ adder(path) \in Seq(AnsByte)
<1>1. PICK a, b, d, e : /\ a = <<path, "head">> /\ b = <<path, "status">> /\ d = <<path, "server">> /\ e = <<path, "sum">>
                        /\ a \in AnsByte /\ b \in AnsByte /\ d \in AnsByte /\ e \in AnsByte
  <2>1. <<path, "head">> \in AnsByte /\ <<path, "status">> \in AnsByte /\ <<path, "server">> \in AnsByte /\ <<path, "sum">> \in AnsByte
    BY DEF AnsByte, Text
  <2>2. QED
    BY <2>1
<1>2. <<a>> \in Seq(AnsByte) /\ <<b, d>> \in Seq(AnsByte) /\ <<e>> \in Seq(AnsByte) /\ <<>> \in Seq(AnsByte)
  <2>1. a \in AnsByte /\ b \in AnsByte /\ d \in AnsByte /\ e \in AnsByte
    BY <1>1
  <2>2. QED
    BY <2>1, EmptySeq
<1>3. Body(path) \in Seq(AnsByte)
  <2>1. PICK n : n = Stat(path).size /\ n \in Nat
    BY DEF Stat
  <2>2. \A i \in 1..n : <<path, i>> \in AnsByte
    BY <2>1 DEF AnsByte
  <2>3. QED
    BY <2>1, <2>2 DEF Body
<1>4. QED
  BY <1>1, <1>2, <1>3 DEF adder

LEMMA ServeHeld ==
  ASSUME Held, Serve, UNCHANGED clientVars
  PROVE  Held'
<1>1. PICK o : /\ o = tiny /\ o \in TinyType /\ o.pc = "serve" /\ Len(o.rio.buf) <= RioBuf /\ Len(o.rio.usr) < MaxLine
               /\ o.path \in Text /\ ~cgi.up
  BY TinyServes DEF Serve, TinyType
<1>2. PICK path : path = o.path /\ path \in Text
  BY <1>1
<1>3. ASSUME NEW to \in {"page", "head", "cgi"}, NEW out \in Seq(AnsByte), TinyGoes([tiny EXCEPT !.pc = to, !.out = out])
      PROVE  Held'
  <2>1. PICK t : t = [o EXCEPT !.pc = to, !.out = out]
    OBVIOUS
  <2>2. t \in TinyType /\ t.pc = to /\ t.conn = o.conn /\ t.rio = o.rio
    BY <1>1, <1>3, <2>1 DEF TinyType, TinyPcs
  <2>3. TinyGoes(t)
    BY <1>1, <1>3, <2>1
  <2>4. QED
    BY <1>1, <2>2, <2>3, TinyThinks DEF Reading
<1>4. \/ TinyGoes([tiny EXCEPT !.pc = "page", !.out = clienterror("404")])
      \/ TinyGoes([tiny EXCEPT !.pc = "page", !.out = clienterror("403")])
      \/ TinyGoes([tiny EXCEPT !.pc = "head", !.out = <<<<path, "head">>>>])
      \/ TinyGoes([tiny EXCEPT !.pc = "cgi", !.out = <<<<path, "status">>, <<path, "server">>>>])
  BY <1>1, <1>2 DEF Serve
<1>5. /\ clienterror("404") \in Seq(AnsByte) /\ clienterror("403") \in Seq(AnsByte)
      /\ <<<<path, "head">>>> \in Seq(AnsByte) /\ <<<<path, "status">>, <<path, "server">>>> \in Seq(AnsByte)
  BY <1>2, ErrorPages, AnswerBytes
<1>6. PICK a, b, d, e : /\ a = clienterror("404") /\ b = clienterror("403") /\ d = <<<<path, "head">>>>
                        /\ e = <<<<path, "status">>, <<path, "server">>>>
  OBVIOUS
<1>7. /\ a \in Seq(AnsByte) /\ b \in Seq(AnsByte) /\ d \in Seq(AnsByte) /\ e \in Seq(AnsByte)
  BY <1>5, <1>6
<1>8. \/ TinyGoes([tiny EXCEPT !.pc = "page", !.out = a]) \/ TinyGoes([tiny EXCEPT !.pc = "page", !.out = b])
      \/ TinyGoes([tiny EXCEPT !.pc = "head", !.out = d]) \/ TinyGoes([tiny EXCEPT !.pc = "cgi", !.out = e])
  BY <1>4, <1>6
<1>9. QED
  BY <1>3, <1>7, <1>8

LEMMA TinyWritesHeld ==
  ASSUME Held, TinyWrites, UNCHANGED clientVars
  PROVE  Held'
<1>1. tiny.pc \in {"page", "head", "body", "cgi"}
  BY DEF TinyWrites, AfterWrite
<1>2c. PICK c \in Clients : c = tiny.conn
  BY <1>1, TinyServes
<1>2. PICK k, o, s : /\ c = tiny.conn /\ c \in Clients /\ k = back[c] /\ GoodConn(k) /\ o = tiny /\ o \in TinyType /\ ~cgi.up
                     /\ s = o.out /\ Len(o.rio.buf) <= RioBuf /\ Len(o.rio.usr) < MaxLine
  BY <1>2c, <1>1, TinyServes
<1>3. CASE TinyDies
  BY <1>1, <1>3, TinyDiesHeld
<1>4. ASSUME NEW n \in {Fits(back[tiny.conn], "far", tiny.out)}, n > 0,
             back' = [back EXCEPT ![tiny.conn] = Put(@, "far", SubSeq(tiny.out, 1, n))],
             tiny' = [tiny EXCEPT !.out = SubSeq(@, n + 1, Len(@)),
                                  !.pc = IF n = Len(tiny.out) THEN AfterWrite[@] ELSE @],
             UNCHANGED <<cgi, front, ring, proxyVars>>
      PROVE  Held'
  <2>1. "far" \in Ends /\ Flow(Other("far")) = AnsByte /\ s \in Seq(AnsByte) /\ n = Fits(k, "far", s)
    BY <1>2, <1>4, EndsAre DEF Flow, TinyType
  <2>2. PICK b, rest, to, t : /\ b = Put(k, "far", SubSeq(s, 1, n)) /\ rest = SubSeq(s, n + 1, Len(s))
                              /\ to = (IF n = Len(s) THEN AfterWrite[o.pc] ELSE o.pc) /\ t = tiny'
    OBVIOUS
  <2>3. GoodConn(b) /\ b.shut = k.shut /\ rest \in Seq(AnsByte)
    BY <1>2, <1>4, <2>1, <2>2, WriteIs, SMTT(40)
  <2>4. to \in {"page", "head", "body", "cgi", "close", "map", "fork"}
    BY <1>1, <1>2, <2>2 DEF AfterWrite
  <2>5. t = [o EXCEPT !.out = rest, !.pc = to]
    BY <1>2, <1>4, <2>2
  <2>6. t \in TinyType /\ t.pc = to /\ t.conn = c /\ t.rio = o.rio
    BY <1>2, <2>3, <2>4, <2>5 DEF TinyType, TinyPcs
  <2>7. GoodTiny'
    <3>1. c # NoConn /\ GoodTiny
      BY WebAssumption DEF Held
    <3>2. QED
      BY <1>2, <1>4, <2>2, <2>4, <2>6, <3>1 DEF GoodTiny, TinyType, Reading
  <2>8. back' = [back EXCEPT ![c] = b]
    BY <1>2, <1>4, <2>2
  <2>9. tiny'.conn = c /\ tiny'.pc \notin {"down", "starting"} /\ tiny.pc # "down" /\ TinyFrame
    BY <1>1, <1>4, <2>2, <2>4, <2>6 DEF TinyFrame
  <2>10. QED
    BY <1>2, <2>3, <2>7, <2>8, <2>9, TinyMoves
<1>5. QED
  BY <1>3, <1>4 DEF TinyWrites

LEMMA MapFileHeld ==
  ASSUME Held, MapFile, UNCHANGED clientVars
  PROVE  Held'
<1>1. PICK o : /\ o = tiny /\ o \in TinyType /\ o.pc = "map" /\ Len(o.rio.buf) <= RioBuf /\ Len(o.rio.usr) < MaxLine
               /\ o.path \in Text /\ ~cgi.up
  BY TinyServes DEF MapFile, TinyType
<1>2. CASE TinyDies
  BY <1>1, <1>2, TinyDiesHeld
<1>3. CASE TinyGoes([tiny EXCEPT !.pc = "body", !.out = Body(tiny.path)])
  <2>1. PICK out : out = Body(o.path) /\ out \in Seq(AnsByte)
    BY <1>1, AnswerBytes
  <2>2. PICK t : t = [o EXCEPT !.pc = "body", !.out = out]
    OBVIOUS
  <2>3. t \in TinyType /\ t.pc = "body" /\ t.conn = o.conn /\ t.rio = o.rio
    BY <1>1, <2>1, <2>2 DEF TinyType, TinyPcs
  <2>4. TinyGoes(t)
    BY <1>1, <1>3, <2>1, <2>2
  <2>5. QED
    BY <1>1, <2>3, <2>4, TinyThinks DEF Reading
<1>4. QED
  BY <1>2, <1>3 DEF MapFile

LEMMA ForkCgiHeld ==
  ASSUME Held, ForkCgi, UNCHANGED clientVars
  PROVE  Held'
<1>1c. PICK c \in Clients : c = tiny.conn
  BY TinyServes DEF ForkCgi, TinyType
<1>1. PICK o : /\ c = tiny.conn /\ c \in Clients /\ GoodConn(back[c]) /\ o = tiny /\ o \in TinyType /\ o.pc = "fork"
               /\ Len(o.rio.buf) <= RioBuf /\ Len(o.rio.usr) < MaxLine /\ o.path \in Text
  BY <1>1c, TinyServes DEF ForkCgi, TinyType
<1>2. PICK t, out : t = tiny' /\ out = adder(o.path) /\ out \in Seq(AnsByte)
  BY <1>1, AnswerBytes
<1>3. t = [o EXCEPT !.pc = "wait"] /\ cgi' = [up |-> TRUE, out |-> out]
  BY <1>1, <1>2 DEF ForkCgi
<1>4. t \in TinyType /\ t.pc = "wait" /\ t.conn = c /\ t.rio = o.rio
  BY <1>1, <1>3 DEF TinyType, TinyPcs
<1>5. cgi' \in [up : BOOLEAN, out : Seq(AnsByte)] /\ c # NoConn
  BY <1>2, <1>3, WebAssumption
<1>6. GoodTiny'
  BY <1>1, <1>2, <1>4, <1>5 DEF GoodTiny, TinyType, Reading
<1>7. back' = [back EXCEPT ![c] = back[c]] /\ TinyFrame
  BY DEF ForkCgi, netVars, TinyFrame, Held, Functions
<1>8. tiny'.conn = c /\ tiny'.pc \notin {"down", "starting"} /\ tiny.pc # "down"
  BY <1>1, <1>2, <1>4
<1>9. QED
  BY <1>1, <1>6, <1>7, <1>8, TinyMoves

LEMMA CgiRunsHeld ==
  ASSUME Held, CgiRuns, UNCHANGED clientVars
  PROVE  Held'
<1>1. tiny.pc = "wait" /\ GoodTiny
  BY DEF Held, GoodTiny, CgiRuns
<1>2c. PICK c \in Clients : c = tiny.conn
  BY <1>1 DEF GoodTiny, CgiRuns
<1>2. PICK k, s : /\ c = tiny.conn /\ c \in Clients /\ k = back[c] /\ GoodConn(k) /\ tiny \in TinyType /\ s = cgi.out
                  /\ s \in Seq(AnsByte) /\ cgi = [up |-> TRUE, out |-> s]
  <2>1. cgi \in [up : BOOLEAN, out : Seq(AnsByte)] /\ cgi.up = TRUE
    BY <1>1 DEF GoodTiny, CgiRuns
  <2>2. PICK s : s = cgi.out /\ s \in Seq(AnsByte) /\ cgi = [up |-> TRUE, out |-> s]
    BY <2>1
  <2>3. tiny.conn \in Clients /\ GoodConn(back[tiny.conn]) /\ tiny \in TinyType
    BY <1>1, TinyServes
  <2>4. QED
    BY <1>2c, <2>2, <2>3
<1>3. ASSUME NEW b, GoodConn(b), b.shut = k.shut, back' = [back EXCEPT ![c] = b], cgi' \in [up : BOOLEAN, out : Seq(AnsByte)]
      PROVE  Held'
  <2>1. TinyFrame /\ tiny' = tiny
    BY DEF CgiRuns, TinyFrame
  <2>2. GoodTiny'
    BY <1>1, <1>3, <2>1 DEF GoodTiny, Reading
  <2>3. QED
    BY <1>1, <1>2, <1>3, <2>1, <2>2, TinyMoves
<1>4. CASE UNCHANGED back /\ cgi' \in [up : BOOLEAN, out : Seq(AnsByte)]
  <2>1. back' = [back EXCEPT ![c] = k]
    BY <1>2, <1>4 DEF Held, Functions
  <2>2. QED
    BY <1>2, <1>3, <1>4, <2>1
<1>5. ASSUME NEW n \in {Fits(back[tiny.conn], "far", cgi.out)}, n > 0,
             back' = [back EXCEPT ![tiny.conn] = Put(@, "far", SubSeq(cgi.out, 1, n))],
             cgi' = [cgi EXCEPT !.out = SubSeq(@, n + 1, Len(@))]
      PROVE  Held'
  <2>1. "far" \in Ends /\ Flow(Other("far")) = AnsByte /\ n = Fits(k, "far", s)
    BY <1>2, <1>5, EndsAre DEF Flow
  <2>2. PICK b, rest : b = Put(k, "far", SubSeq(s, 1, n)) /\ rest = SubSeq(s, n + 1, Len(s))
    OBVIOUS
  <2>3. GoodConn(b) /\ b.shut = k.shut /\ rest \in Seq(AnsByte)
    BY <1>2, <1>5, <2>1, <2>2, WriteIs
  <2>4. cgi' = [cgi EXCEPT !.out = rest] /\ back' = [back EXCEPT ![c] = b]
    BY <1>2, <1>5, <2>2
  <2>5. cgi' \in [up : BOOLEAN, out : Seq(AnsByte)]
    BY <1>1, <2>3, <2>4 DEF GoodTiny
  <2>6. QED
    BY <1>3, <2>3, <2>4, <2>5
<1>6. cgi' = [cgi EXCEPT !.up = FALSE] => cgi' \in [up : BOOLEAN, out : Seq(AnsByte)]
  BY <1>2
<1>7. cgi' = [up |-> FALSE, out |-> <<>>] => cgi' \in [up : BOOLEAN, out : Seq(AnsByte)]
  BY EmptySeq
<1>8. QED
  BY <1>4, <1>5, <1>6, <1>7 DEF CgiRuns

LEMMA WaitCgiHeld ==
  ASSUME Held, WaitCgi, UNCHANGED clientVars
  PROVE  Held'
<1>1. PICK o : /\ o = tiny /\ o \in TinyType /\ o.pc = "wait" /\ Len(o.rio.buf) <= RioBuf /\ Len(o.rio.usr) < MaxLine
               /\ ~cgi.up
  BY TinyServes DEF WaitCgi
<1>2. PICK t : t = [o EXCEPT !.pc = "close"]
  OBVIOUS
<1>3. t \in TinyType /\ t.pc = "close" /\ t.conn = o.conn /\ t.rio = o.rio
  BY <1>1, <1>2 DEF TinyType, TinyPcs
<1>4. TinyGoes(t)
  BY <1>1, <1>2 DEF WaitCgi
<1>5. QED
  BY <1>1, <1>3, <1>4, TinyThinks DEF Reading

LEMMA TinyClosesHeld ==
  ASSUME Held, TinyCloses, UNCHANGED clientVars
  PROVE  Held'
<1>1. Functions /\ GoodTiny /\ GoodQueues /\ tiny.pc = "close"
  BY DEF Held, TinyCloses
<1>2c. PICK c \in Clients : c = tiny.conn
  BY <1>1, TinyServes
<1>2. PICK o : c = tiny.conn /\ c \in Clients /\ GoodConn(back[c]) /\ o = tiny /\ o \in TinyType /\ ~cgi.up
  BY <1>2c, <1>1, TinyServes
<1>3. PICK b \in Shut(back[c], "far") : back' = [back EXCEPT ![c] = b]
  BY <1>2 DEF TinyCloses
<1>4. GoodConn(b) /\ b.shut = back[c].shut \cup {"far"}
  BY <1>2, <1>3, ShutIs, EndsAre
<1>5. PICK t, r, n, p : t = tiny' /\ r = rio_readinitb /\ n = NoConn /\ p = ""
  OBVIOUS
<1>6. t = [o EXCEPT !.pc = "accept", !.conn = n, !.path = p, !.rio = r]
  BY <1>2, <1>5 DEF TinyCloses
<1>7. r \in Rio(AskByte) /\ Len(r.buf) = 0 /\ Len(r.usr) = 0 /\ p \in Text /\ n \in Clients \cup {NoConn} /\ n \notin Clients
  BY <1>5, RioInit, EmptySeq, WebAssumption DEF Text
<1>8. t \in TinyType /\ t.pc = "accept" /\ t.conn = n /\ t.rio = r
  BY <1>2, <1>6, <1>7 DEF TinyType, TinyPcs
<1>9. /\ calls' = calls /\ proxy' = proxy /\ px' = px /\ ask' = ask /\ front' = front /\ ring' = ring
      /\ todo' = todo /\ got' = got /\ end' = end /\ cgi' = cgi /\ back'[c] = b
  BY <1>1, <1>3 DEF TinyCloses, proxyVars, clientVars, Functions
<1>10. GoodTiny'
  <2>1. tiny' \in TinyType /\ tiny'.conn = NoConn /\ tiny'.pc = "accept" /\ Len(tiny'.rio.buf) = 0 /\ Len(tiny'.rio.usr) = 0
    BY <1>5, <1>7, <1>8
  <2>2. cgi' \in [up : BOOLEAN, out : Seq(AnsByte)] /\ ~cgi'.up
    BY <1>1, <1>2, <1>9 DEF GoodTiny
  <2>3. QED
    BY <2>1, <2>2 DEF GoodTiny, TinyType, Reading
<1>11. GoodQueues'
  <2>1. n \notin Queued(ring)
    BY <1>1, <1>7, Queues DEF GoodQueues
  <2>2. QED
    BY <1>1, <1>5, <1>8, <1>9, <2>1 DEF GoodQueues
<1>12. Only(c)
  <2>1. front' = [front EXCEPT ![c] = front'[c]] /\ back' = [back EXCEPT ![c] = back'[c]] /\ px' = [px EXCEPT ![c] = px'[c]]
    BY <1>1, <1>3, <1>9 DEF Functions
  <2>2. todo' = [todo EXCEPT ![c] = todo'[c]] /\ got' = [got EXCEPT ![c] = got'[c]] /\ end' = [end EXCEPT ![c] = end'[c]]
    BY <1>1, <1>9 DEF Functions
  <2>3. QED
    <3>1. \A d \in Clients \ {c} : d # tiny'.conn /\ d # tiny.conn
      BY <1>2, <1>5, <1>7, <1>8
    <3>2. tiny'.pc # "down" /\ tiny.pc # "down"
      BY <1>1, <1>5, <1>8
    <3>3. QED
      BY <1>9, <2>1, <2>2, <3>1, <3>2 DEF Only
<1>13. GoodAt(c)'
  <2>1. GoodAt(c) /\ Holding(c)
    BY DEF Held, GoodAt
  <2>2. c \notin Queued(ring) /\ tiny'.conn # c /\ tiny'.pc = "accept"
    BY <1>1, <1>2, <1>5, <1>7, <1>8 DEF GoodQueues
  <2>3. Holding(c)'
    BY <1>1, <1>2, <1>4, <1>9, <2>1, <2>2 DEF Holding, Link
  <2>4. QED
    BY <1>4, <1>9, <2>1, <2>3 DEF GoodAt
<1>14. QED
  BY <1>1, <1>9, <1>10, <1>11, <1>12, <1>13, OneAtATime DEF Functions

-----------------------------------------------------------------------------
(* The first layer, in every state.                                          *)

(* Every step keeps the invariant. *)
LEMMA HeldStep == Held /\ [Next]_vars => Held'
<1> SUFFICES ASSUME Held, [Next]_vars PROVE Held'
  OBVIOUS
<1>1. CASE WebProxy
  BY <1>1, ProxyListensHeld, ProxyAcceptHeld DEF WebProxy
<1>2. CASE WebTiny
  <2>1. CASE TinyListens \/ TinyAccept \/ Doit \/ TinyHeaders \/ Serve
    BY <1>2, <2>1, TinyListensHeld, TinyAcceptHeld, DoitHeld, TinyHeadersHeld, ServeHeld DEF WebTiny
  <2>2. CASE TinyWrites \/ MapFile \/ ForkCgi \/ WaitCgi \/ TinyCloses
    BY <1>2, <2>2, TinyWritesHeld, MapFileHeld, ForkCgiHeld, WaitCgiHeld, TinyClosesHeld DEF WebTiny
  <2>3. QED
    BY <1>2, <2>1, <2>2 DEF WebTiny, TinyStep
<1>3. CASE WebCgi
  BY <1>3, CgiRunsHeld DEF WebCgi
<1>4. ASSUME NEW c \in Clients, WebThread(c) PROVE Held'
  <2>1. ThreadFrame /\ Thread(c, Listening)
    BY <1>4 DEF WebThread, ThreadFrame
  <2>2. QED
    BY <1>4, <2>1, RequestLineHeld, HeadersHeld, OpensServerHeld, WritesServerHeld, ReadsServerHeld, WritesClientHeld DEF Thread
<1>5. ASSUME NEW c \in Clients, ClientConnects(c) \/ ClientSends(c) \/ ClientReceives(c) \/ ClientLeaves(c) PROVE Held'
  BY <1>5, ClientConnectsHeld, ClientSendsHeld, ClientReceivesHeld, ClientLeavesHeld
<1>6. CASE UNCHANGED vars
  <2>1. /\ ask' = ask /\ todo' = todo /\ got' = got /\ end' = end /\ front' = front /\ back' = back /\ ring' = ring
        /\ calls' = calls /\ proxy' = proxy /\ px' = px /\ tiny' = tiny /\ cgi' = cgi
    BY <1>6 DEF vars, clientVars, netVars, proxyVars, tinyVars
  <2>2. Functions' /\ GoodTiny' /\ GoodQueues'
    BY <2>1 DEF Held, Functions, GoodTiny, GoodQueues
  <2>3. ASSUME NEW c \in Clients PROVE GoodAt(c)'
    <3>1. Still(c)
      BY <2>1 DEF Still
    <3>2. QED
      BY <2>1, <3>1, StillGood DEF Held
  <2>4. QED
    BY <2>2, <2>3 DEF Held
<1>7. QED
  BY <1>1, <1>2, <1>3, <1>4, <1>5, <1>6 DEF Next

(* Whatever the clients do and the threads' order: the types and sizes of
   Functions, GoodTiny and GoodThread, and every descriptor of the proxy and of
   tiny is open exactly where Holding says. *)
THEOREM AlwaysHeld == Spec => []Held
<1>1. QED
  BY StartsHeld, HeldStep, PTL DEF Spec

(* Every state of proxy.c, tiny.c and their clients is well-typed: no socket
   buffer, no rio_buf and no line buffer ever holds more than its size. *)
THEOREM WebTypeCorrect == Spec => []TypeOK
<1>1. Held => TypeOK
  <2> SUFFICES ASSUME Held PROVE TypeOK
    OBVIOUS
  <2>1. Functions /\ GoodTiny
    BY DEF Held
  <2>2. ASSUME NEW c \in Clients
        PROVE  /\ px[c].pc \in Busy \cup {"none", "leaked", "done"}
               /\ \A e \in Ends : Len(front[c].data[e]) <= SockBuf /\ Len(back[c].data[e]) <= SockBuf
               /\ Len(px[c].rio.buf) <= RioBuf /\ Len(px[c].rio.usr) <= MaxLine
               /\ end[c] \in {"new", "open", "eof", "failed", "left"}
    <3>1. GoodConn(front[c]) /\ GoodConn(back[c]) /\ GoodThread(px[c])
      BY DEF Held, GoodAt
    <3>2. px[c].pc \in Busy \cup {"none", "leaked", "done"} /\ end[c] \in {"new", "open", "eof", "failed", "left"}
      BY <2>1, <3>1 DEF GoodThread, PxType, Functions, EndType
    <3>3. QED
      BY <3>1, <3>2 DEF GoodConn, GoodThread
  <2>3. proxy \in {"starting", "up", "down"} /\ tiny.conn \in Clients \cup {NoConn}
        /\ Len(tiny.rio.buf) <= RioBuf /\ Len(tiny.rio.usr) < MaxLine
    BY <2>1 DEF Functions, GoodTiny
  <2>4. QED
    BY <2>2, <2>3 DEF TypeOK
<1>2. QED
  BY AlwaysHeld, <1>1, PTL

-----------------------------------------------------------------------------
(* The request of a client of the proxy, on its way through the connection    *)
(* and the buffer of its thread.                                             *)

Incoming(c) == (px[c].rio.usr ++ px[c].rio.buf) ++ (front[c].data["far"] ++ todo[c])
After(s, w) == \E z \in Seq(AskByte) : z ++ s = w
Target(r) == <<"GET", r.scheme, r.path>>

Asked(c) ==
  /\ end[c] = "new" => todo[c] = Wire(ask[c]) /\ got[c] = <<>>
  /\ ask[c].to = "proxy" =>
       /\ end[c] \notin {"new", "open"} /\ "far" \notin front[c].shut => end[c] = "left" /\ todo[c] = <<>>
       /\ proxy = "up" =>
            /\ px[c].pc = "none" /\ end[c] # "new" => c \in Queued(calls)
            /\ px[c].pc \in {"none", "line"} => Incoming(c) = Wire(ask[c])
            /\ px[c].pc \in {"none", "line", "hdr1", "hdrs", "connect", "send", "spin"} =>
                 got[c] = <<>> /\ front[c].data["near"] = <<>>
            /\ px[c].pc \in {"hdr1", "hdrs"} => After(Incoming(c), Wire(ask[c]))
            /\ px[c].pc \in {"connect"} \cup Serving => front[c].data["far"] = <<>> /\ todo[c] = <<>>
            /\ px[c].pc \in {"hdr1", "hdrs", "connect"} \cup Serving => ask[c].form \notin {"post", "silent"}
            /\ px[c].pc \in {"hdr1", "hdrs", "connect", "send"} => px[c].uri = Target(ask[c])
            /\ px[c].pc = "error" => ask[c].form = "post"
            /\ px[c].pc = "leaked" => ask[c].form \in {"post", "silent"}

(* Where the elements of a concatenation come from. *)
LEMMA First ==
  ASSUME NEW S, NEW s \in Seq(S), NEW t \in Seq(S)
  PROVE  /\ s # <<>> => s ++ t # <<>> /\ (s ++ t)[1] = s[1]
         /\ \A i \in 1..Len(t) : (s ++ t)[Len(s) + i] = t[i]
<1>1. Len(s) \in Nat /\ Len(t) \in Nat /\ (s # <<>> => Len(s) > 0)
  BY LenProperties, EmptySeq
<1>2. /\ Len(s ++ t) = Len(s) + Len(t)
      /\ \A i \in 1..Len(s) + Len(t) : (s ++ t)[i] = IF i <= Len(s) THEN s[i] ELSE t[i - Len(s)]
  BY <1>1, ConcatProperties DEF ++
<1>3. \A i \in 1..Len(t) : Len(s) + i \in 1..Len(s) + Len(t) /\ ~ (Len(s) + i <= Len(s)) /\ (Len(s) + i) - Len(s) = i
  BY <1>1
<1>4. \A i \in 1..Len(t) : (s ++ t)[Len(s) + i] = t[i]
  BY <1>2, <1>3
<1>5. ASSUME s # <<>> PROVE s ++ t # <<>> /\ (s ++ t)[1] = s[1]
  <2>1. 1 \in 1..Len(s) + Len(t) /\ 1 <= Len(s)
    BY <1>1, <1>5
  <2>2. Len(s ++ t) # 0
    BY <1>1, <1>2, <1>5
  <2>3. QED
    BY <1>2, <2>1, <2>2, EmptySeq
<1>6. QED
  BY <1>4, <1>5

(* The requests, and where their blank line is. *)
LEMMA WireIs ==
  ASSUME NEW r \in Requests
  PROVE  /\ Wire(r) \in Seq(AskByte)
         /\ Wire(r) = <<>> => r.form = "silent"
         /\ Wire(r) # <<>> => Wire(r)[1] = IF r.form = "post" THEN <<"POST">> ELSE Target(r)
         /\ r.form = "silent" => Wire(r) = <<>>
         /\ \A i \in 1..Len(Wire(r)) : Wire(r)[i] = <<"CR">> => i = Len(Wire(r)) - 1
<1>1. r.form \in {"whole", "post", "cut", "stub", "silent"} /\ Target(r)[1] = "GET"
  BY DEF Requests, Target
<1>2. PICK a, p, l, h, e : a = Target(r) /\ p = <<"POST">> /\ l = <<"LF">> /\ h = <<"hdr">> /\ e = <<"CR">>
  OBVIOUS
<1>3. a # e /\ p # e /\ l # e /\ h # e
  BY <1>2 DEF Target
<1>4. Wire(r) = CASE r.form = "whole" -> <<a, l, h, e, l>>
                  [] r.form = "post"  -> <<p, l, e, l>>
                  [] r.form = "cut"   -> <<a, l, h>>
                  [] r.form = "stub"  -> <<a, l>>
                  [] OTHER            -> <<>>
  BY <1>2 DEF Wire, Target
<1>5. Wire(r) \in Seq(AskByte)
  BY Wires
<1>6. CASE r.form = "whole"
  BY <1>2, <1>3, <1>4, <1>5, <1>6
<1>7. CASE r.form = "post"
  BY <1>2, <1>3, <1>4, <1>5, <1>7
<1>8. CASE r.form = "cut"
  BY <1>2, <1>3, <1>4, <1>5, <1>8
<1>9. CASE r.form = "stub"
  BY <1>2, <1>3, <1>4, <1>5, <1>9
<1>10. CASE r.form = "silent"
  BY <1>4, <1>5, <1>10, EmptySeq
<1>11. QED
  BY <1>1, <1>6, <1>7, <1>8, <1>9, <1>10

(* Nothing follows a blank line in what has its only CR just before its end. *)
LEMMA BlankEnds ==
  ASSUME NEW w \in Seq(AskByte), \A i \in 1..Len(w) : w[i] = <<"CR">> => i = Len(w) - 1,
         NEW x \in Seq(AskByte), After(Blank ++ x, w)
  PROVE  x = <<>>
<1>1. PICK z \in Seq(AskByte) : z ++ (Blank ++ x) = w
  BY DEF After
<1>2. PICK b : b = Blank /\ b \in Seq(AskByte) /\ Len(b) = 2 /\ b[1] = <<"CR">>
  <2>1. PICK u, v : u = <<"CR">> /\ v = <<"LF">> /\ u \in AskByte /\ v \in AskByte
    BY DEF AskByte
  <2>2. Blank = <<u, v>> /\ u \in AskByte /\ v \in AskByte
    BY <2>1 DEF Blank
  <2>3. <<u, v>> \in Seq(AskByte) /\ Len(<<u, v>>) = 2 /\ <<u, v>>[1] = u
    BY <2>2
  <2>4. QED
    BY <2>1, <2>2, <2>3
<1>3. PICK t : t = b ++ x /\ t \in Seq(AskByte) /\ Len(t) = 2 + Len(x) /\ Len(x) \in Nat
  BY <1>2, Joined
<1>4. t[1] = <<"CR">>
  <2>1. b # <<>>
    <3>1. Len(<<>>) = 0
      OBVIOUS
    <3>2. QED
      BY <1>2, <3>1
  <2>2. (b ++ x)[1] = b[1]
    BY <1>2, <2>1, First
  <2>3. QED
    BY <1>2, <1>3, <2>2
<1>5. Len(z) \in Nat /\ Len(w) = Len(z) + Len(t) /\ w[Len(z) + 1] = t[1]
  <2>1. z ++ t = w /\ 1 \in 1..Len(t)
    BY <1>1, <1>2, <1>3
  <2>2. Len(z ++ t) = Len(z) + Len(t) /\ Len(z) \in Nat
    BY <1>3, Joined
  <2>3. (z ++ t)[Len(z) + 1] = t[1]
    BY <1>3, <2>1, First
  <2>4. QED
    BY <2>1, <2>2, <2>3
<1>6. Len(z) + 1 = Len(w) - 1
  <2>1. Len(z) + 1 \in 1..Len(w)
    BY <1>3, <1>5
  <2>2. QED
    BY <1>4, <1>5, <2>1
<1>7. Len(x) = 0
  BY <1>3, <1>5, <1>6
<1>8. QED
  BY <1>7, EmptySeq

(* Nothing follows the blank line of a request. *)
LEMMA BlankIsLast ==
  ASSUME NEW r \in Requests, NEW x \in Seq(AskByte), After(Blank ++ x, Wire(r))
  PROVE  x = <<>>
BY WireIs, BlankEnds

(* What concerns the request of c does not change. *)
Same(c) ==
  /\ front'[c] = front[c] /\ px'[c] = px[c] /\ todo'[c] = todo[c] /\ got'[c] = got[c] /\ end'[c] = end[c]
  /\ ask' = ask /\ proxy' = proxy /\ (c \in Queued(calls') <=> c \in Queued(calls))

(* Then neither does what is known of the request. *)
LEMMA SameAsked == ASSUME NEW c \in Clients, Asked(c), Same(c) PROVE Asked(c)'
<1>1. Incoming(c)' = Incoming(c)
  BY DEF Same, Incoming
<1>2. After(Incoming(c), Wire(ask[c])) <=> After(Incoming(c), Wire(ask[c]))'
  BY <1>1 DEF After, Same
<1>3. QED
  BY <1>1, <1>2 DEF Asked, Same

LEMMA StartsAsked == Init => \A c \in Clients : Asked(c)
BY DEF Init, ProxyInit, Asked

(* Bytes that move from one part of a stream to the next. *)
LEMMA AppendedIs ==
  ASSUME NEW S, NEW a \in Seq(S), NEW b \in Seq(S), NEW r \in Seq(S), NEW x \in Seq(S)
  PROVE  (a ++ x) ++ (b ++ r) = a ++ ((x ++ b) ++ r)
<1>1. x ++ b \in Seq(S) /\ b ++ r \in Seq(S)
  BY Joined
<1>2. (a ++ x) ++ (b ++ r) = a ++ (x ++ (b ++ r))
  BY <1>1, Assoc
<1>3. (x ++ b) ++ r = x ++ (b ++ r)
  BY Assoc
<1>4. QED
  BY <1>2, <1>3

(* The parts of the stream of c. *)
LEMMA StreamIs ==
  ASSUME Held, NEW c \in Clients, px[c].pc \in Reading \/ px[c].pc = "none"
  PROVE  /\ px[c].rio \in Rio(AskByte) /\ px[c].rio.usr ++ px[c].rio.buf \in Seq(AskByte)
         /\ front[c].data["far"] \in Seq(AskByte) /\ todo[c] \in Seq(AskByte)
         /\ front[c].data["far"] ++ todo[c] \in Seq(AskByte) /\ Incoming(c) \in Seq(AskByte)
<1>1. px[c].rio \in Rio(AskByte)
  <2>1. GoodThread(px[c]) /\ px[c] \in PxType
    BY DEF Held, GoodAt, GoodThread
  <2>2. CASE px[c].pc = "none"
    <3>1. px[c] = [Idle EXCEPT !.pc = "none"] /\ Idle \in PxType
      BY <2>1, <2>2, IdleIs DEF GoodThread
    <3>2. px[c].rio = rio_readinitb
      BY <3>1, IdleIs DEF PxType
    <3>3. QED
      BY <3>2, RioInit
  <2>3. CASE px[c].pc \in Reading
    BY <2>1, <2>3 DEF GoodThread
  <2>4. QED
    BY <2>2, <2>3
<1>2. front[c].data["far"] \in Seq(AskByte) /\ todo[c] \in Seq(AskByte)
  BY DEF Held, GoodAt, GoodConn, Functions
<1>3. px[c].rio.usr \in Seq(AskByte) /\ px[c].rio.buf \in Seq(AskByte)
  BY <1>1, RioParts
<1>4. px[c].rio.usr ++ px[c].rio.buf \in Seq(AskByte) /\ front[c].data["far"] ++ todo[c] \in Seq(AskByte)
  BY <1>2, <1>3, Joined
<1>5. QED
  BY <1>1, <1>2, <1>4, Joined DEF Incoming

(* A read moves bytes along the stream. *)
LEMMA ReadsClientAsked ==
  ASSUME Held, NEW c \in Clients, proxy = "up", px[c].pc \in Reading, ReadsClient(c), ThreadFrame, Asked(c)
  PROVE  Asked(c)'
<1>1. PICK n \in ReadSizes(front[c], "far") :
        /\ px' = [px EXCEPT ![c].rio = Refill(@, SubSeq(front[c].data["far"], 1, n))]
        /\ front' = [front EXCEPT ![c] = Taken(@, "far", n)]
  BY DEF ReadsClient
<1>2. PICK old, data, k, rest : old = px[c].rio /\ data = front[c].data["far"] /\ k = front[c] /\ rest = todo[c]
  OBVIOUS
<1>3. GoodConn(k) /\ Functions /\ old \in Rio(AskByte) /\ data \in Seq(AskByte) /\ rest \in Seq(AskByte)
      /\ old.usr \in Seq(AskByte) /\ old.buf \in Seq(AskByte)
  BY <1>2, StreamIs, RioParts DEF Held, GoodAt
<1>4. "far" \in Ends /\ "near" \in Ends /\ Other("far") = "near"
  BY EndsAre
<1>5. n \in Nat /\ n <= Len(data)
  BY <1>1, <1>2, <1>3, <1>4, ReadSizesAre
<1>6. PICK s, left : s = SubSeq(data, 1, n) /\ left = SubSeq(data, n + 1, Len(data))
  OBVIOUS
<1>7. s \in Seq(AskByte) /\ left \in Seq(AskByte) /\ s ++ left = data
  BY <1>3, <1>5, <1>6, Cut
<1>8. PICK q, f : q = Refill(old, s) /\ f = Taken(k, "far", n)
  OBVIOUS
<1>9. q \in Rio(AskByte) /\ q.buf = s /\ q.usr = old.usr ++ old.buf
  <2>1. q = Refill(old, s) /\ old \in Rio(AskByte) /\ s \in Seq(AskByte)
    BY <1>3, <1>7, <1>8
  <2>2. QED
    BY <2>1, RefillIs
<1>10. f.data["far"] = left /\ f.data["near"] = k.data["near"] /\ f.shut = k.shut
  <2>1. /\ f.data["far"] = SubSeq(k.data["far"], n + 1, Len(k.data["far"]))
        /\ f.data["near"] = k.data["near"] /\ f.shut = k.shut
    <3>1. GoodConn(k) /\ n \in Nat
      BY <1>3, <1>5
    <3>2. /\ Taken(k, "far", n).data["far"] = SubSeq(k.data["far"], n + 1, Len(k.data["far"]))
          /\ Taken(k, "far", n).data[Other("far")] = k.data[Other("far")] /\ Taken(k, "far", n).shut = k.shut
      BY <3>1, <1>4, TakenIs
    <3>3. QED
      BY <3>2, <1>4, <1>8
  <2>2. QED
    BY <1>2, <1>6, <2>1
<1>11. px'[c] = [px[c] EXCEPT !.rio = q] /\ front'[c] = f
  BY <1>1, <1>2, <1>3, <1>6, <1>8 DEF Functions
<1>12. px'[c].rio = q /\ px'[c].pc = px[c].pc /\ px'[c].uri = px[c].uri
  BY <1>3, <1>11 DEF Functions, PxType
<1>13. Incoming(c)' = ((old.usr ++ old.buf) ++ s) ++ (left ++ rest)
  BY <1>2, <1>9, <1>10, <1>11, <1>12 DEF Incoming, ThreadFrame, clientVars
<1>14. Incoming(c) = (old.usr ++ old.buf) ++ ((s ++ left) ++ rest)
  BY <1>2, <1>7 DEF Incoming
<1>15. Incoming(c)' = Incoming(c)
  <2>1. old.usr ++ old.buf \in Seq(AskByte)
    BY <1>3, Joined
  <2>2. QED
    BY <1>3, <1>7, <1>13, <1>14, <2>1, AppendedIs
<1>16. ask' = ask /\ end' = end /\ got' = got /\ todo' = todo /\ proxy' = proxy
  BY DEF ThreadFrame, clientVars, ReadsClient
<1>17. After(Incoming(c), Wire(ask[c])) <=> After(Incoming(c), Wire(ask[c]))'
  BY <1>15, <1>16 DEF After
<1>18. QED
  BY <1>2, <1>10, <1>11, <1>12, <1>15, <1>16, <1>17 DEF Asked, Reading, Serving

(* The end of file a thread finds: its client has left, all said. *)
LEMMA NoMore ==
  ASSUME Held, NEW c \in Clients, Asked(c), proxy = "up", px[c].pc \in Reading, "near" \in front[c].shut
  PROVE  end[c] = "left" /\ todo[c] = <<>>
<1>1. Holding(c) /\ px[c] # Idle /\ px[c].pc \notin {"none", "done"}
  BY IdleIs DEF Held, GoodAt, Reading
<1>2. ask[c].to = "proxy" /\ end[c] \notin {"new", "open"} /\ "far" \notin front[c].shut
  BY <1>1 DEF Holding, Link
<1>3. QED
  BY <1>2 DEF Asked

(* What is left of the stream of c when its thread took the line of g. *)
Later(c, g) == (g.rio.usr ++ g.rio.buf) ++ (front[c].data["far"] ++ todo[c])

(* A line is taken from the front of the stream. *)
LEMMA LineTaken ==
  ASSUME Held, NEW c \in Clients, px[c].pc \in Reading, NEW g \in GotLines(c)
  PROVE  /\ g.line \in Seq(AskByte) /\ g.line # <<>> /\ g.rio \in Rio(AskByte)
         /\ Later(c, g) \in Seq(AskByte) /\ g.line ++ Later(c, g) = Incoming(c)
<1>1. PICK old, line, rio, rest : /\ old = px[c].rio /\ line = g.line /\ rio = g.rio
                                  /\ rest = front[c].data["far"] ++ todo[c]
  OBVIOUS
<1>2. old \in Rio(AskByte) /\ rest \in Seq(AskByte)
  BY <1>1, StreamIs
<1>3. /\ line \in Seq(AskByte) /\ line # <<>> /\ rio \in Rio(AskByte) /\ rio.usr = <<>>
      /\ line ++ rio.buf = old.usr ++ old.buf
  BY <1>1, <1>2, LinesAre DEF GotLines
<1>4. rio.buf \in Seq(AskByte) /\ rio.usr ++ rio.buf = rio.buf
  BY <1>3, RioParts, Unit
<1>5. Later(c, g) = rio.buf ++ rest /\ rio.buf ++ rest \in Seq(AskByte)
  BY <1>1, <1>2, <1>4, Joined DEF Later
<1>6. Incoming(c) = (line ++ rio.buf) ++ rest
  BY <1>1, <1>3 DEF Incoming
<1>7. line ++ (rio.buf ++ rest) = (line ++ rio.buf) ++ rest
  BY <1>2, <1>3, <1>4, Assoc
<1>8. QED
  BY <1>1, <1>3, <1>5, <1>6, <1>7

(* process_request knows the request by its first line. *)
LEMMA RequestLineAsked ==
  ASSUME Held, NEW c \in Clients, RequestLine(c), ThreadFrame, ~ProxyDies, Asked(c)
  PROVE  Asked(c)'
<1>1. proxy = "up" /\ px[c].pc = "line" /\ Functions /\ Holding(c) /\ px[c] # Idle /\ px[c] \in PxType
  BY IdleIs DEF RequestLine, Held, GoodAt, GoodThread
<1>2. ask[c].to = "proxy" /\ end[c] # "new" /\ ask[c] \in Requests
  BY <1>1 DEF Holding, Functions
<1>3. /\ Incoming(c) = Wire(ask[c]) /\ got[c] = <<>> /\ front[c].data["near"] = <<>>
      /\ end[c] \notin {"new", "open"} /\ "far" \notin front[c].shut => end[c] = "left" /\ todo[c] = <<>>
  BY <1>1, <1>2 DEF Asked
<1>4. CASE ReadsClient(c)
  BY <1>1, <1>4, ReadsClientAsked DEF Reading
<1>5. CASE NoLine(c) /\ Goes(c, "leaked")
  <2>1. "near" \in front[c].shut /\ front[c].data["far"] = <<>> /\ px[c].rio = rio_readinitb
    BY <1>5, EndsAre DEF NoLine, AtEof
  <2>2. todo[c] = <<>>
    BY <1>1, <2>1, NoMore DEF Reading
  <2>3. px[c].rio.usr = <<>> /\ px[c].rio.buf = <<>>
    BY <2>1, RioInit
  <2>4. Incoming(c) = <<>>
    <3>1. <<>> \in Seq(AskByte)
      BY EmptySeq
    <3>2. <<>> ++ <<>> = <<>>
      BY <3>1, Unit
    <3>3. QED
      BY <2>1, <2>2, <2>3, <3>2 DEF Incoming
  <2>5. ask[c].form = "silent"
    BY <1>2, <1>3, <2>4, WireIs
  <2>6. px'[c].pc = "leaked" /\ front' = front /\ proxy' = proxy /\ ask' = ask /\ todo' = todo /\ got' = got /\ end' = end
    BY <1>1, <1>5 DEF Goes, netVars, ThreadFrame, clientVars, Functions, PxType
  <2>7. QED
    BY <1>1, <1>2, <1>3, <2>5, <2>6 DEF Asked, Serving
<1>6. ASSUME NEW g \in GotLines(c),
             px' = [px EXCEPT ![c] =
               IF g.line[1][1] = "GET"
               THEN [@ EXCEPT !.pc = "hdr1", !.uri = g.line[1], !.rio = g.rio]
               ELSE [@ EXCEPT !.pc = "error", !.out = clienterror("501")]],
             UNCHANGED <<calls, proxy, netVars>>
      PROVE  Asked(c)'
  <2>1. PICK line, rest : line = g.line /\ rest = Later(c, g)
    OBVIOUS
  <2>2. line \in Seq(AskByte) /\ line # <<>> /\ rest \in Seq(AskByte) /\ line ++ rest = Wire(ask[c])
    BY <1>1, <1>3, <2>1, LineTaken DEF Reading
  <2>3. PICK byte, rio : byte = line[1] /\ rio = g.rio
    OBVIOUS
  <2>4. byte = IF ask[c].form = "post" THEN <<"POST">> ELSE Target(ask[c])
    BY <1>2, <2>2, <2>3, First, WireIs
  <2>5. byte[1] = (IF ask[c].form = "post" THEN "POST" ELSE "GET") /\ (byte[1] = "GET" <=> ask[c].form # "post")
    BY <2>4 DEF Target
  <2>6. ask[c].form # "silent"
    BY <1>2, <2>2, First, WireIs
  <2>7. front' = front /\ proxy' = proxy /\ ask' = ask /\ todo' = todo /\ got' = got /\ end' = end
    BY <1>6 DEF netVars, ThreadFrame, clientVars
  <2>8. CASE byte[1] = "GET"
    <3>1. px'[c] = [px[c] EXCEPT !.pc = "hdr1", !.uri = byte, !.rio = rio]
      BY <1>1, <1>6, <2>1, <2>3, <2>8 DEF Functions
    <3>2. px'[c].pc = "hdr1" /\ px'[c].uri = byte /\ px'[c].rio = rio
      BY <1>1, <3>1 DEF PxType
    <3>3. Incoming(c)' = rest
      BY <2>1, <2>3, <2>7, <3>2 DEF Incoming, Later
    <3>4. After(Incoming(c), Wire(ask[c]))'
      BY <2>2, <2>7, <3>3 DEF After
    <3>5. byte = Target(ask[c]) /\ ask[c].form # "post"
      BY <2>4, <2>5, <2>8
    <3>6. QED
      BY <1>1, <1>2, <1>3, <2>6, <2>7, <3>2, <3>4, <3>5 DEF Asked, Serving
  <2>9. CASE byte[1] # "GET"
    <3>1. px'[c] = [px[c] EXCEPT !.pc = "error", !.out = clienterror("501")]
      BY <1>1, <1>6, <2>1, <2>3, <2>9 DEF Functions
    <3>2. px'[c].pc = "error"
      BY <1>1, <3>1 DEF PxType
    <3>3. QED
      BY <1>1, <1>2, <1>3, <2>5, <2>7, <2>9, <3>2 DEF Asked, Serving
  <2>10. QED
    BY <2>8, <2>9
<1>7. QED
  BY <1>4, <1>5, <1>6 DEF RequestLine, ClientReset

(* read_requesthdrs stops at the blank line, which is the last. *)
LEMMA HeadersAsked ==
  ASSUME Held, NEW c \in Clients, Headers(c), ThreadFrame, ~ProxyDies, Asked(c)
  PROVE  Asked(c)'
<1>1. proxy = "up" /\ px[c].pc \in {"hdr1", "hdrs"} /\ Functions /\ Holding(c) /\ px[c] # Idle /\ px[c] \in PxType
  BY IdleIs DEF Headers, Held, GoodAt, GoodThread
<1>2. ask[c].to = "proxy" /\ end[c] # "new" /\ ask[c] \in Requests
  BY <1>1 DEF Holding, Functions
<1>3. /\ After(Incoming(c), Wire(ask[c])) /\ got[c] = <<>> /\ front[c].data["near"] = <<>>
      /\ ask[c].form \notin {"post", "silent"} /\ px[c].uri = Target(ask[c])
      /\ end[c] \notin {"new", "open"} /\ "far" \notin front[c].shut => end[c] = "left" /\ todo[c] = <<>>
  BY <1>1, <1>2 DEF Asked
<1>4. CASE ReadsClient(c)
  BY <1>1, <1>4, ReadsClientAsked DEF Reading
<1>5. ASSUME NEW to \in {"spin", "connect"}, NoLine(c), Goes(c, to)
      PROVE  Asked(c)'
  <2>1. "near" \in front[c].shut /\ front[c].data["far"] = <<>>
    BY <1>5, EndsAre DEF NoLine, AtEof
  <2>2. todo[c] = <<>>
    BY <1>1, <2>1, NoMore DEF Reading
  <2>3. px'[c] = [px[c] EXCEPT !.pc = to]
    BY <1>1, <1>5 DEF Goes, Functions
  <2>4. px'[c].pc = to /\ px'[c].uri = px[c].uri
    BY <1>1, <2>3 DEF PxType
  <2>5. front' = front /\ proxy' = proxy /\ ask' = ask /\ todo' = todo /\ got' = got /\ end' = end
    BY <1>5 DEF Goes, netVars, ThreadFrame, clientVars
  <2>6. QED
    BY <1>1, <1>2, <1>3, <2>1, <2>2, <2>4, <2>5 DEF Asked, Serving
<1>6. ASSUME NEW g \in GotLines(c),
             px' = [px EXCEPT ![c].rio = g.rio,
                              ![c].pc = IF g.line = Blank THEN "connect" ELSE "hdrs"],
             UNCHANGED <<calls, proxy, netVars>>
      PROVE  Asked(c)'
  <2>1. PICK line, rest, rio, to : line = g.line /\ rest = Later(c, g) /\ rio = g.rio /\ to = IF g.line = Blank THEN "connect" ELSE "hdrs"
    OBVIOUS
  <2>2. line \in Seq(AskByte) /\ line # <<>> /\ rest \in Seq(AskByte) /\ line ++ rest = Incoming(c) /\ rio \in Rio(AskByte)
    BY <1>1, <2>1, LineTaken DEF Reading
  <2>3. front' = front /\ proxy' = proxy /\ ask' = ask /\ todo' = todo /\ got' = got /\ end' = end
    BY <1>6 DEF netVars, ThreadFrame, clientVars
  <2>4. px'[c] = [px[c] EXCEPT !.rio = rio, !.pc = to]
    BY <1>1, <1>6, <2>1 DEF Functions
  <2>5. px'[c].pc = to /\ px'[c].uri = px[c].uri /\ px'[c].rio = rio
    BY <1>1, <2>4 DEF PxType
  <2>6. Incoming(c)' = rest
    BY <2>1, <2>3, <2>5 DEF Incoming, Later
  <2>7. After(rest, Wire(ask[c]))
    <3>1. PICK z \in Seq(AskByte) : z ++ (line ++ rest) = Wire(ask[c])
      BY <1>3, <2>2 DEF After
    <3>2. (z ++ line) ++ rest = Wire(ask[c]) /\ z ++ line \in Seq(AskByte)
      BY <2>2, <3>1, Assoc, Joined
    <3>3. QED
      BY <3>2 DEF After
  <2>8. CASE line # Blank
    BY <1>1, <1>2, <1>3, <2>1, <2>3, <2>5, <2>6, <2>7, <2>8 DEF Asked, Serving, After
  <2>9. CASE line = Blank
    <3>1. rest = <<>>
      BY <1>2, <1>3, <2>2, <2>9, BlankIsLast
    <3>2. /\ rio.usr ++ rio.buf \in Seq(AskByte)
          /\ front[c].data["far"] \in Seq(AskByte) /\ todo[c] \in Seq(AskByte)
          /\ front[c].data["far"] ++ todo[c] \in Seq(AskByte)
      BY <1>1, <2>2, StreamIs, RioParts, Joined DEF Reading
    <3>3. (rio.usr ++ rio.buf) ++ (front[c].data["far"] ++ todo[c]) = <<>>
      BY <2>1, <3>1 DEF Later
    <3>4. front[c].data["far"] = <<>> /\ todo[c] = <<>>
      BY <3>2, <3>3, NoneJoined
    <3>5. QED
      BY <1>1, <1>2, <1>3, <2>1, <2>3, <2>5, <2>9, <3>4 DEF Asked, Serving
  <2>10. QED
    BY <2>8, <2>9
<1>7. QED
  BY <1>4, <1>5, <1>6 DEF Headers, ClientReset

(* After a block the thread writes or reads on. *)
LEMMA BlockPc ==
  ASSUME NEW c, px[c] \in PxType, NEW r, NEW p, p = Block(c, r)
  PROVE  p.pc \in {"write", "relay"}
BY DEF Block, PxType

(* What a thread that works with the server does is no concern of the request. *)
LEMMA ServingAsked ==
  ASSUME Held, NEW c \in Clients, ThreadFrame, ~ProxyDies, Asked(c),
         OpensServer(c, Listening) \/ WritesServer(c) \/ ReadsServer(c) \/ WritesClient(c)
  PROVE  Asked(c)'
<1>1. PICK o : o = px[c] /\ o \in PxType /\ o.pc \in {"connect", "error"} \cup Serving /\ proxy = "up" /\ proxy' = proxy
               /\ Functions /\ Holding(c) /\ GoodConn(front[c])
  <2>1. px[c].pc \in {"connect", "error"} \cup Serving /\ proxy = "up" /\ proxy' = proxy
    BY DEF OpensServer, WritesServer, ReadsServer, WritesClient, Serving
  <2>2. QED
    BY <2>1 DEF Held, GoodAt, GoodThread
<1>2. ask' = ask /\ todo' = todo /\ got' = got /\ end' = end
  BY DEF ThreadFrame, clientVars
<1>3. ask[c].to = "proxy" /\ end[c] # "new" /\ o # Idle /\ o.pc \notin {"none", "done"}
  BY <1>1, IdleIs DEF Holding, Serving
<1>4. /\ end[c] \notin {"new", "open"} /\ "far" \notin front[c].shut => end[c] = "left" /\ todo[c] = <<>>
      /\ o.pc \in {"connect", "send"} => got[c] = <<>> /\ front[c].data["near"] = <<>> /\ o.uri = Target(ask[c])
      /\ o.pc # "error" => front[c].data["far"] = <<>> /\ todo[c] = <<>> /\ ask[c].form \notin {"post", "silent"}
      /\ o.pc = "error" => ask[c].form = "post"
  BY <1>1, <1>3 DEF Asked, Serving
<1>5. CASE OpensServer(c, Listening)
  <2>1. PICK s : px' = [px EXCEPT ![c].pc = "send", ![c].out = s] /\ front' = front /\ o.pc = "connect"
    BY <1>1, <1>5 DEF OpensServer
  <2>2. px'[c] = [o EXCEPT !.pc = "send", !.out = s]
    BY <1>1, <2>1 DEF Functions
  <2>3. px'[c].pc = "send" /\ px'[c].uri = o.uri
    BY <1>1, <2>2 DEF PxType
  <2>4. QED
    BY <1>1, <1>2, <1>3, <1>4, <2>1, <2>3 DEF Asked, Serving
<1>6. CASE WritesServer(c)
  <2>1. o.pc = "send" /\ front' = front
    BY <1>1, <1>6 DEF WritesServer
  <2>2. PICK s, to, r : px' = [px EXCEPT ![c].out = s, ![c].pc = to, ![c].rio = r] /\ to \in {"send", "relay"}
    BY <1>1, <1>6, <2>1 DEF WritesServer
  <2>3. px'[c] = [o EXCEPT !.out = s, !.pc = to, !.rio = r]
    BY <1>1, <2>2 DEF Functions
  <2>4. px'[c].pc = to /\ px'[c].uri = o.uri
    BY <1>1, <2>3 DEF PxType
  <2>5. QED
    BY <1>1, <1>2, <1>3, <1>4, <2>1, <2>2, <2>4 DEF Asked, Serving
<1>7. CASE ReadsServer(c)
  <2>1. o.pc = "relay"
    BY <1>1, <1>7 DEF ReadsServer
  <2>2. CASE front' = front /\ px'[c].pc \in {"write", "relay"}
    BY <1>1, <1>2, <1>3, <1>4, <2>1, <2>2 DEF Asked, Serving
  <2>3. CASE "far" \in front'[c].shut /\ px'[c].pc = "done"
    BY <1>1, <1>2, <1>3, <1>4, <2>1, <2>3 DEF Asked, Serving
  <2>4. ASSUME NEW n \in ReadSizes(back[c], "near"),
               px' = [px EXCEPT ![c] = Block(c, Copied(Refill(@.rio, SubSeq(back[c].data["near"], 1, n))))],
               front' = front
        PROVE  Asked(c)'
    <3>1. PICK r : px' = [px EXCEPT ![c] = Block(c, r)]
      BY <2>4
    <3>2. px'[c] = Block(c, r)
      BY <1>1, <3>1 DEF Functions
    <3>3. QED
      BY <1>1, <2>2, <2>4, <3>2, BlockPc
  <2>5. ASSUME px' = [px EXCEPT ![c].pc = "write", ![c].out = px[c].rio.usr, ![c].rio.usr = <<>>],
               UNCHANGED <<calls, proxy, netVars>>
        PROVE  Asked(c)'
    <3>1. PICK r : r = [o.rio EXCEPT !.usr = <<>>]
      OBVIOUS
    <3>2. px'[c] = [o EXCEPT !.pc = "write", !.out = o.rio.usr, !.rio = r]
      BY <1>1, <2>5, <3>1 DEF Functions
    <3>3. px'[c].pc = "write"
      BY <1>1, <3>2 DEF PxType
    <3>4. QED
      BY <2>2, <2>5, <3>3 DEF netVars
  <2>6. ASSUME NEW f \in Shut(front[c], "far"), front' = [front EXCEPT ![c] = f],
               px' = [px EXCEPT ![c] = [Idle EXCEPT !.pc = "done"]]
        PROVE  Asked(c)'
    <3>1. f.shut = front[c].shut \cup {"far"}
      BY <1>1, <2>6, ShutIs, EndsAre
    <3>2. "far" \in front'[c].shut
      BY <1>1, <2>6, <3>1 DEF Functions
    <3>3. px'[c] = [Idle EXCEPT !.pc = "done"] /\ Idle \in PxType
      BY <1>1, <2>6, IdleIs DEF Functions, GoodThread
    <3>4. px'[c].pc = "done"
      BY <3>3 DEF PxType
    <3>5. QED
      BY <2>3, <3>2, <3>4
  <2>7. QED
    BY <1>7, <2>4, <2>5, <2>6 DEF ReadsServer
<1>8. CASE WritesClient(c)
  <2>1. PICK n : /\ n = Fits(front[c], "far", px[c].out) /\ n > 0
                 /\ front' = [front EXCEPT ![c] = Put(@, "far", SubSeq(px[c].out, 1, n))]
                 /\ px' = [px EXCEPT ![c] =
                      IF n < Len(@.out) THEN [px[c] EXCEPT !.out = SubSeq(@, n + 1, Len(@))]
                      ELSE IF @.pc = "error" THEN [Idle EXCEPT !.pc = "leaked"]
                      ELSE Block(c, Copied(@.rio))]
    BY <1>8 DEF WritesClient
  <2>2. o.pc \in {"write", "error"}
    BY <1>1, <1>8 DEF WritesClient
  <2>3. front'[c].data["far"] = front[c].data["far"] /\ front'[c].shut = front[c].shut
    <3>1. PICK k, s : k = front[c] /\ s = o.out /\ GoodConn(k) /\ s \in Seq(AnsByte)
      BY <1>1, <2>2 DEF Held, GoodAt, GoodThread
    <3>2. "far" \in Ends /\ Flow(Other("far")) = AnsByte /\ n = Fits(k, "far", s) /\ front'[c] = Put(k, "far", SubSeq(s, 1, n))
      BY <1>1, <2>1, <3>1, EndsAre DEF Flow, Functions
    <3>3. /\ Put(k, "far", SubSeq(s, 1, n)).data["far"] = k.data["far"]
          /\ Put(k, "far", SubSeq(s, 1, n)).shut = k.shut
      BY <2>1, <3>1, <3>2, WriteIs
    <3>4. QED
      BY <3>1, <3>2, <3>3
  <2>4. px'[c].pc \in (IF o.pc = "error" THEN {"error", "leaked"} ELSE {"write", "relay"})
    <3>1. PICK p, s, r : /\ px'[c] = p
                         /\ \/ p = [o EXCEPT !.out = s]
                            \/ o.pc = "error" /\ p = [Idle EXCEPT !.pc = "leaked"]
                            \/ o.pc # "error" /\ p = Block(c, r)
      <4>1. PICK s, r : s = SubSeq(o.out, n + 1, Len(o.out)) /\ r = Copied(o.rio)
        OBVIOUS
      <4>2. px'[c] = IF n < Len(o.out) THEN [o EXCEPT !.out = s]
                     ELSE IF o.pc = "error" THEN [Idle EXCEPT !.pc = "leaked"] ELSE Block(c, r)
        BY <1>1, <2>1, <4>1 DEF Functions
      <4>3. QED
        BY <4>2
    <3>2. CASE p = [o EXCEPT !.out = s]
      BY <1>1, <2>2, <3>1, <3>2 DEF PxType
    <3>3. CASE o.pc = "error" /\ p = [Idle EXCEPT !.pc = "leaked"]
      BY <3>1, <3>3, IdleIs DEF PxType, GoodThread
    <3>4. CASE o.pc # "error" /\ p = Block(c, r)
      BY <1>1, <3>1, <3>4, BlockPc
    <3>5. QED
      BY <3>1, <3>2, <3>3, <3>4
  <2>5. QED
    BY <1>1, <1>2, <1>3, <1>4, <2>2, <2>3, <2>4 DEF Asked, Serving
<1>9. QED
  BY <1>5, <1>6, <1>7, <1>8

(* A thread leaves the other clients alone. *)
LEMMA ThreadElse ==
  ASSUME Held, NEW c \in Clients, Thread(c, Listening), ThreadFrame, ~ProxyDies, NEW d \in Clients, d # c
  PROVE  Same(d) /\ back'[d] = back[d]
<1>1. Functions /\ ask' = ask /\ todo' = todo /\ got' = got /\ end' = end
  BY DEF Held, ThreadFrame, clientVars
<1>2. SUFFICES px'[d] = px[d] /\ front'[d] = front[d] /\ back'[d] = back[d] /\ proxy' = proxy /\ calls' = calls
  BY <1>1 DEF Same
<1>3. CASE ReadsClient(c)
  BY <1>1, <1>3 DEF ReadsClient, Functions
<1>4. CASE RequestLine(c)
  BY <1>1, <1>3, <1>4 DEF RequestLine, ClientReset, Goes, netVars, Functions
<1>5. CASE Headers(c)
  BY <1>1, <1>3, <1>5 DEF Headers, ClientReset, Goes, netVars, Functions
<1>6. CASE OpensServer(c, Listening)
  BY <1>1, <1>6 DEF OpensServer, Functions
<1>7. CASE WritesServer(c)
  BY <1>1, <1>7 DEF WritesServer, Functions
<1>8. CASE ReadsServer(c)
  BY <1>1, <1>8 DEF ReadsServer, netVars, Functions
<1>9. CASE WritesClient(c)
  BY <1>1, <1>9 DEF WritesClient, Functions
<1>10. QED
  BY <1>4, <1>5, <1>6, <1>7, <1>8, <1>9 DEF Thread

(* So every step of a thread that does not end the process keeps Asked. *)
LEMMA ThreadAsked ==
  ASSUME Held, NEW c \in Clients, Thread(c, Listening), ThreadFrame, ~ProxyDies, \A d \in Clients : Asked(d)
  PROVE  \A d \in Clients : Asked(d)'
<1>1. ASSUME NEW d \in Clients, d # c PROVE Asked(d)'
  BY <1>1, ThreadElse, SameAsked
<1>2. Asked(c)'
  BY RequestLineAsked, HeadersAsked, ServingAsked DEF Thread
<1>3. QED
  BY <1>1, <1>2

(* The end of the proxy, its start, and its main loop. *)
LEMMA ProxyDiesAsked ==
  ASSUME Held, ProxyDies, UNCHANGED clientVars, NEW c \in Clients, Asked(c)
  PROVE  Asked(c)'
<1>1. ask' = ask /\ todo' = todo /\ got' = got /\ end' = end /\ proxy' = "down" /\ GoodConn(front[c])
  BY DEF ProxyDies, clientVars, Held, GoodAt
<1>2. "far" \in front'[c].shut
  <2>1. PICK f : f = Abandoned(front[c], "far") /\ f.shut = front[c].shut \cup {"far"}
    BY <1>1, AbandonedIs, EndsAre
  <2>2. QED
    BY <2>1 DEF ProxyDies
<1>3. QED
  BY <1>1, <1>2 DEF Asked

LEMMA ProxyListensAsked ==
  ASSUME Held, ProxyListens, UNCHANGED clientVars, NEW c \in Clients, Asked(c)
  PROVE  Asked(c)'
<1>1. /\ ask' = ask /\ todo' = todo /\ got' = got /\ end' = end /\ front' = front /\ px' = px /\ proxy = "starting"
      /\ Functions /\ Holding(c)
  BY DEF ProxyListens, netVars, clientVars, Held, GoodAt
<1>2. CASE ask[c].to # "proxy"
  BY <1>1, <1>2 DEF Asked
<1>3. CASE ask[c].to = "proxy"
  <2>1. end[c] = "new" /\ px[c] = Idle /\ front[c] = Absent
    BY <1>1, <1>3 DEF Holding
  <2>2. todo[c] = Wire(ask[c]) /\ got[c] = <<>>
    BY <2>1 DEF Asked
  <2>3. Incoming(c)' = (<<>> ++ <<>>) ++ (<<>> ++ todo[c])
    BY <1>1, <2>1, IdleIs, RioInit, AbsentIs, EndsAre DEF Incoming
  <2>4. <<>> ++ todo[c] = todo[c] /\ <<>> ++ <<>> = <<>>
    <3>1. todo[c] \in Seq(AskByte) /\ <<>> \in Seq(AskByte)
      BY <1>1, EmptySeq DEF Functions
    <3>2. QED
      BY <3>1, Unit
  <2>5. Incoming(c)' = Wire(ask[c])
    BY <2>2, <2>3, <2>4
  <2>6. front[c].data["near"] = <<>> /\ px[c].pc = "none"
    BY <2>1, IdleIs, AbsentIs, EndsAre
  <2>7. QED
    BY <1>1, <2>1, <2>2, <2>5, <2>6 DEF Asked, Serving
<1>4. QED
  BY <1>2, <1>3

LEMMA ProxyAcceptAsked ==
  ASSUME Held, ProxyAccept, UNCHANGED clientVars, \A d \in Clients : Asked(d)
  PROVE  \A d \in Clients : Asked(d)'
<1>1. PICK c \in Clients : c = Head(calls) /\ c \in Queued(calls) /\ Queued(calls') = Queued(calls) \ {c}
  BY Queues DEF GoodQueues, ProxyAccept, Held
<1>2. PICK p : p = [Idle EXCEPT !.pc = "line"]
  OBVIOUS
<1>3. p.pc = "line" /\ p.rio = rio_readinitb
  <2>1. Idle \in PxType
    BY IdleIs DEF GoodThread
  <2>2. QED
    BY <1>2, <2>1, IdleIs DEF PxType
<1>4. px' = [px EXCEPT ![c] = p] /\ Functions
  BY <1>1, <1>2 DEF ProxyAccept, Held
<1>5. px'[c] = p /\ ask' = ask /\ end' = end /\ todo' = todo /\ got' = got /\ proxy' = proxy /\ proxy = "up" /\ front' = front
  BY <1>4 DEF Functions, ProxyAccept, netVars, clientVars
<1>6. ASSUME NEW d \in Clients, d # c PROVE Asked(d)'
  <2>1. Same(d)
    BY <1>1, <1>4, <1>5, <1>6 DEF Same, Functions
  <2>2. QED
    BY <2>1, SameAsked
<1>7. Asked(c)'
  <2>1. Holding(c) /\ Asked(c)
    BY DEF Held, GoodAt
  <2>2. px[c] = Idle /\ ask[c].to = "proxy" /\ end[c] # "new"
    BY <1>1, <2>1 DEF Holding
  <2>3. Incoming(c)' = Incoming(c)
    BY <1>3, <1>5, <2>2, IdleIs DEF Incoming
  <2>4. QED
    BY <1>3, <1>5, <2>1, <2>2, <2>3, IdleIs DEF Asked, Serving
<1>8. QED
  BY <1>6, <1>7

(* A client changes only what is its own. *)
ClientStep(c) == ClientConnects(c) \/ ClientSends(c) \/ ClientReceives(c) \/ ClientLeaves(c)

(* The others do not notice. *)
LEMMA ClientElse ==
  ASSUME Held, NEW c \in Clients, ClientStep(c), NEW d \in Clients, d # c
  PROVE  Same(d) /\ back'[d] = back[d]
<1>1. Functions /\ GoodQueues
  BY DEF Held
<1>2. front'[d] = front[d] /\ back'[d] = back[d]
  <2>1. PICK k : Holds(c, k)
    BY DEF ClientStep, ClientConnects, ClientSends, ClientReceives, ClientLeaves
  <2>2. QED
    BY <1>1, <2>1 DEF Holds, Functions
<1>3. px' = px /\ proxy' = proxy /\ ask' = ask
  BY DEF ClientStep, ClientConnects, ClientSends, ClientReceives, ClientLeaves, proxyVars
<1>4. todo'[d] = todo[d] /\ got'[d] = got[d] /\ end'[d] = end[d]
  BY <1>1 DEF ClientStep, ClientConnects, ClientSends, ClientReceives, ClientLeaves, Functions
<1>5. d \in Queued(calls') <=> d \in Queued(calls)
  <2>1. calls' = calls \/ (calls' = Append(calls, c) /\ end[c] = "new")
    BY DEF ClientStep, ClientConnects, ClientSends, ClientReceives, ClientLeaves, proxyVars
  <2>2. CASE calls' = Append(calls, c) /\ end[c] = "new"
    <3>1. c \notin Queued(calls)
      BY <2>2 DEF Held, GoodAt, Holding
    <3>2. Queued(calls') = Queued(calls) \cup {c}
      BY <1>1, <2>2, <3>1, Queues DEF GoodQueues
    <3>3. QED
      BY <3>2
  <2>3. QED
    BY <2>1, <2>2
<1>6. QED
  BY <1>2, <1>3, <1>4, <1>5 DEF Same

(* Where the thread of a client that has connected may be. *)
LEMMA Whereabouts ==
  ASSUME Held, NEW c \in Clients, Asked(c), ask[c].to = "proxy", end[c] # "new", proxy = "up"
  PROVE  "far" \in front[c].shut => px[c].pc = "done"
<1>1. Holding(c)
  BY DEF Held, GoodAt
<1>2. QED
  BY <1>1 DEF Holding, Asked

(* The steps of a client, one lemma each. *)
LEMMA ClientConnectsAsked ==
  ASSUME Held, NEW c \in Clients, ClientConnects(c), Asked(c)
  PROVE  Asked(c)'
<1>1. Functions /\ Holding(c) /\ GoodQueues
  BY DEF Held, GoodAt
<1>2. end[c] = "new" /\ end'[c] = "open" /\ px' = px /\ proxy' = proxy /\ ask' = ask /\ todo' = todo /\ got' = got
  BY <1>1 DEF ClientConnects, Functions
<1>3. CASE ask[c].to # "proxy"
  BY <1>2, <1>3 DEF Asked
<1>4. CASE ask[c].to = "proxy"
  <2>1. front'[c] = Fresh /\ proxy = "up" /\ calls' = Append(calls, c)
    BY <1>1, <1>4 DEF ClientConnects, Holds, Functions
  <2>2. front[c] = Absent /\ px[c] = Idle /\ c \notin Queued(calls)
    BY <1>1, <1>2 DEF Holding
  <2>3. c \in Queued(calls')
    BY <1>1, <2>1, <2>2, Queues DEF GoodQueues
  <2>4. front'[c].data["far"] = front[c].data["far"] /\ front'[c].data["near"] = <<>>
    BY <2>1, <2>2, AbsentIs, FreshIs, EndsAre
  <2>5. Incoming(c)' = Incoming(c)
    BY <1>2, <2>4 DEF Incoming
  <2>6. QED
    BY <1>2, <1>4, <2>1, <2>2, <2>3, <2>4, <2>5, IdleIs DEF Asked, Serving
<1>5. QED
  BY <1>3, <1>4

LEMMA ClientSendsAsked ==
  ASSUME Held, NEW c \in Clients, ClientSends(c), Asked(c)
  PROVE  Asked(c)'
<1>1. Functions /\ Holding(c) /\ GoodConn(front[c]) /\ todo[c] \in Seq(AskByte)
  BY DEF Held, GoodAt, Functions
<1>2. /\ end[c] = "open" /\ end' = end /\ px' = px /\ proxy' = proxy /\ ask' = ask /\ got' = got /\ calls' = calls
      /\ todo[c] # <<>>
  BY DEF ClientSends, proxyVars
<1>3. CASE ask[c].to # "proxy"
  BY <1>2, <1>3 DEF Asked
<1>4. CASE ask[c].to = "proxy"
  <2>1. PICK n : n = Fits(front[c], "near", todo[c]) /\ n > 0 /\ front' = [front EXCEPT ![c] = Put(front[c], "near", SubSeq(todo[c], 1, n))]
                 /\ todo' = [todo EXCEPT ![c] = SubSeq(todo[c], n + 1, Len(todo[c]))]
    BY <1>4 DEF ClientSends, Holds, Link
  <2>2. PICK k, s, t, l : k = front[c] /\ s = SubSeq(todo[c], 1, n) /\ t = SubSeq(todo[c], n + 1, Len(todo[c])) /\ l = Put(k, "near", s)
    OBVIOUS
  <2>3. front'[c] = l /\ todo'[c] = t
    BY <1>1, <2>1, <2>2 DEF Functions
  <2>4. "near" \in Ends /\ "far" \in Ends /\ Other("near") = "far" /\ Flow("far") = AskByte
    BY EndsAre DEF Flow
  <2>5. /\ n \in 0..Len(todo[c]) /\ Len(todo[c]) \in Nat
        /\ "far" \notin k.shut => Len(k.data["far"]) + n <= SockBuf
    BY <1>1, <2>1, <2>2, <2>4, FitsIs
  <2>6. s \in Seq(AskByte) /\ t \in Seq(AskByte) /\ s ++ t = todo[c] /\ Len(s) = n
    BY <1>1, <2>2, <2>5, Cut
  <2>7. /\ Put(k, "near", s).data["near"] = k.data["near"] /\ Put(k, "near", s).shut = k.shut
        /\ "far" \notin k.shut => Put(k, "near", s).data["far"] = k.data["far"] ++ s
    <3>1. GoodConn(k) /\ s \in Seq(Flow(Other("near"))) /\ (Other("near") \notin k.shut => Len(k.data[Other("near")]) + Len(s) <= SockBuf)
      BY <1>1, <2>2, <2>4, <2>5, <2>6
    <3>2. QED
      BY <3>1, <2>4, PutIs
  <2>8. l.data["near"] = k.data["near"] /\ l.shut = k.shut
        /\ ("far" \notin k.shut => l.data["far"] = k.data["far"] ++ s)
    BY <2>2, <2>7
  <2>9. CASE proxy = "up" /\ "far" \notin k.shut
    <3>1. px[c].pc \notin {"connect"} \cup Serving
      BY <1>2, <1>4, <2>9 DEF Asked
    <3>2. k.data["far"] \in Seq(AskByte)
      BY <1>1, <2>2 DEF GoodConn
    <3>3. l.data["far"] ++ t = k.data["far"] ++ todo[c]
      BY <2>6, <2>8, <2>9, <3>2, Assoc
    <3>4. Incoming(c)' = Incoming(c)
      BY <1>2, <2>2, <2>3, <3>3 DEF Incoming
    <3>5. After(Incoming(c), Wire(ask[c])) <=> After(Incoming(c), Wire(ask[c]))'
      BY <1>2, <3>4 DEF After
    <3>6. QED
      BY <1>2, <1>4, <2>2, <2>3, <2>8, <3>1, <3>4, <3>5 DEF Asked, Serving
  <2>10. CASE proxy = "up" /\ "far" \in k.shut
    <3>1. px[c].pc = "done"
      BY <1>2, <1>4, <2>2, <2>10, Whereabouts
    <3>2. QED
      BY <1>2, <2>3, <3>1 DEF Asked, Serving
  <2>11. CASE proxy # "up"
    BY <1>2, <2>11 DEF Asked
  <2>12. QED
    BY <2>9, <2>10, <2>11
<1>5. QED
  BY <1>3, <1>4

(* The client of the proxy takes its answer, or closes its end. *)
LEMMA ClientTakesAsked ==
  ASSUME Held, NEW c \in Clients, Asked(c), ask[c].to = "proxy", end[c] = "open",
         UNCHANGED <<proxyVars, ask, todo>>, end'[c] \in EndType \ {"new"},
         end'[c] \notin {"new", "open"} /\ "far" \notin front'[c].shut => end'[c] = "left" /\ todo[c] = <<>>,
         front'[c].shut \ {"near"} = front[c].shut \ {"near"},
         \/ front'[c].data["near"] = <<>> /\ front'[c].data["far"] = front[c].data["far"] /\ got'[c] = got[c]
         \/ front[c].data["near"] # <<>> /\ (front[c].data["far"] = <<>> => front'[c].data["far"] = <<>>)
         \/ "far" \in front[c].shut
  PROVE  Asked(c)'
<1>1. px' = px /\ proxy' = proxy /\ calls' = calls /\ ask' = ask /\ todo' = todo
  BY DEF proxyVars
<1>2. CASE proxy # "up"
  BY <1>1, <1>2 DEF Asked
<1>3. CASE proxy = "up" /\ "far" \in front[c].shut
  <2>1. px[c].pc = "done"
    BY <1>3, Whereabouts
  <2>2. QED
    BY <1>1, <2>1 DEF Asked, Serving
<1>4. CASE proxy = "up" /\ front[c].data["near"] # <<>> /\ (front[c].data["far"] = <<>> => front'[c].data["far"] = <<>>)
  BY <1>1, <1>4 DEF Asked, Serving
<1>5. CASE proxy = "up" /\ front'[c].data["near"] = <<>> /\ front'[c].data["far"] = front[c].data["far"] /\ got'[c] = got[c]
  <2>1. Incoming(c)' = Incoming(c)
    BY <1>1, <1>5 DEF Incoming
  <2>2. After(Incoming(c), Wire(ask[c])) <=> After(Incoming(c), Wire(ask[c]))'
    BY <1>1, <2>1 DEF After
  <2>3. QED
    BY <1>1, <1>5, <2>1, <2>2 DEF Asked, Serving
<1>6. QED
  BY <1>2, <1>3, <1>4, <1>5

(* What closing the near end leaves. *)
LEMMA NearShut ==
  ASSUME NEW k, GoodConn(k), NEW j \in Shut(k, "near")
  PROVE  /\ j.shut = k.shut \cup {"near"} /\ j.data["near"] = <<>>
         /\ k.data["near"] = <<>> \/ "far" \in k.shut => j.data["far"] = k.data["far"]
         /\ k.data["far"] = <<>> => j.data["far"] = <<>>
<1>1. "near" \in Ends /\ Other("near") = "far" /\ "far" \in Ends
  BY EndsAre
<1>2. /\ j.shut = k.shut \cup {"near"} /\ j.data["near"] = <<>>
      /\ \E n \in 0..Len(k.data["far"]) : j.data["far"] = SubSeq(k.data["far"], 1, n)
      /\ k.data["near"] = <<>> \/ "far" \in k.shut => j.data["far"] = k.data["far"]
  BY <1>1, ShutIs
<1>3. ASSUME k.data["far"] = <<>> PROVE j.data["far"] = <<>>
  <2>1. PICK n \in 0..0 : j.data["far"] = SubSeq(<<>>, 1, n)
    BY <1>2, <1>3, EmptySeq
  <2>2. <<>> \in Seq(AskByte) /\ Len(<<>>) = 0
    BY EmptySeq
  <2>3. SubSeq(<<>>, 1, 0) \in Seq(AskByte) /\ Len(SubSeq(<<>>, 1, 0)) = 0
    BY <2>2, Cut
  <2>4. QED
    BY <2>1, <2>3, EmptySeq
<1>4. QED
  BY <1>2, <1>3

(* Bytes come, or the end of file, or an error. *)
LEMMA ClientReceivesAsked ==
  ASSUME Held, NEW c \in Clients, ClientReceives(c), Asked(c)
  PROVE  Asked(c)'
<1>1. Functions /\ GoodConn(front[c]) /\ end[c] = "open" /\ UNCHANGED <<proxyVars, ask, todo>>
  BY DEF Held, GoodAt, ClientReceives
<1>2. end'[c] \in EndType \ {"new"}
  BY <1>1 DEF ClientReceives, Functions, EndType
<1>3. CASE ask[c].to # "proxy"
  BY <1>1, <1>2, <1>3 DEF Asked
<1>4. CASE ask[c].to = "proxy"
  <2>1. ASSUME front[c].data["near"] # <<>>, front' = [front EXCEPT ![c] = Taken(front[c], "near", SockBuf)], end' = end
        PROVE  Asked(c)'
    <3>1. "near" \in Ends /\ Other("near") = "far" /\ SockBuf \in Nat
      BY EndsAre
    <3>2. Taken(front[c], "near", SockBuf).shut = front[c].shut /\ Taken(front[c], "near", SockBuf).data["far"] = front[c].data["far"]
      BY <1>1, <3>1, TakenIs
    <3>3. front'[c] = Taken(front[c], "near", SockBuf)
      BY <1>1, <2>1 DEF Functions
    <3>4. QED
      BY <1>1, <1>2, <1>4, <2>1, <3>2, <3>3, ClientTakesAsked
  <2>2. ASSUME AtEof(front[c], "near") \/ AtError(front[c], "near"), NEW k \in Shut(front[c], "near"),
               front' = [front EXCEPT ![c] = k]
        PROVE  Asked(c)'
    <3>1. "far" \in front[c].shut
      BY <1>1, <2>2, EndsAre DEF AtEof, AtError, GoodConn
    <3>2. front'[c] = k /\ k.shut = front[c].shut \cup {"near"}
      BY <1>1, <2>2, NearShut DEF Functions
    <3>3. QED
      BY <1>1, <1>2, <1>4, <3>1, <3>2, ClientTakesAsked
  <2>3. QED
    BY <1>4, <2>1, <2>2 DEF ClientReceives, Holds, Link
<1>5. QED
  BY <1>3, <1>4

(* A client that does not wait leaves with all said. *)
LEMMA ClientLeavesAsked ==
  ASSUME Held, NEW c \in Clients, ClientLeaves(c), Asked(c)
  PROVE  Asked(c)'
<1>1. Functions /\ GoodConn(front[c]) /\ end[c] = "open" /\ UNCHANGED <<proxyVars, ask, todo>> /\ got' = got
  BY DEF Held, GoodAt, ClientLeaves
<1>2. end'[c] = "left" /\ todo[c] = <<>>
  BY <1>1 DEF ClientLeaves, Functions
<1>3. CASE ask[c].to # "proxy"
  BY <1>1, <1>2, <1>3 DEF Asked
<1>4. CASE ask[c].to = "proxy"
  <2>1. PICK k \in Shut(front[c], "near") : front' = [front EXCEPT ![c] = k]
    BY <1>4 DEF ClientLeaves, Holds, Link
  <2>2. front'[c] = k
    BY <1>1, <2>1 DEF Functions
  <2>3. QED
    BY <1>1, <1>2, <1>4, <2>1, <2>2, NearShut, ClientTakesAsked DEF EndType
<1>5. QED
  BY <1>3, <1>4

(* Every step keeps what is known of every request. *)
AllAsked == Held /\ \A c \in Clients : Asked(c)

(* Tiny has no business with the connections to the proxy. *)
LEMMA TinyApart == ASSUME TinyStep PROVE UNCHANGED <<proxyVars, front>>
<1>1. CASE TinyListens \/ TinyAccept
  BY <1>1 DEF TinyListens, TinyAccept, netVars
<1>2. CASE Doit
  BY <1>2 DEF Doit, TinyReads, TinyReset, TinyDies, TinyGoes, netVars
<1>3. CASE TinyHeaders
  BY <1>3 DEF TinyHeaders, TinyReads, TinyReset, TinyDies, TinyGoes, netVars
<1>4. CASE Serve
  BY <1>4 DEF Serve, TinyGoes, netVars
<1>5. CASE TinyWrites
  BY <1>5 DEF TinyWrites, TinyDies
<1>6. CASE MapFile \/ ForkCgi \/ WaitCgi \/ TinyCloses
  BY <1>6 DEF MapFile, ForkCgi, WaitCgi, TinyCloses, TinyGoes, TinyDies, netVars
<1>7. QED
  BY <1>1, <1>2, <1>3, <1>4, <1>5, <1>6 DEF TinyStep

(* Any step. *)
LEMMA AskedStep == AllAsked /\ [Next]_vars => (\A c \in Clients : Asked(c))'
<1> SUFFICES ASSUME AllAsked, [Next]_vars, NEW d \in Clients PROVE Asked(d)'
  OBVIOUS
<1>1. Held /\ Asked(d) /\ \A c \in Clients : Asked(c)
  BY DEF AllAsked
<1>2. CASE WebProxy
  BY <1>1, <1>2, ProxyListensAsked, ProxyAcceptAsked DEF WebProxy
<1>3. CASE WebTiny \/ WebCgi \/ UNCHANGED vars
  <2>1. UNCHANGED <<proxyVars, front, clientVars>>
    <3>1. CASE WebTiny
      BY <3>1, TinyApart DEF WebTiny
    <3>2. CASE WebCgi
      BY <3>2 DEF WebCgi, CgiRuns
    <3>3. CASE UNCHANGED vars
      BY <3>3 DEF vars, netVars
    <3>4. QED
      BY <1>3, <3>1, <3>2, <3>3
  <2>2. Same(d)
    BY <2>1 DEF Same, proxyVars, clientVars
  <2>3. QED
    BY <1>1, <2>2, SameAsked
<1>4. ASSUME NEW c \in Clients, WebThread(c) PROVE Asked(d)'
  <2>1. ThreadFrame /\ Thread(c, Listening)
    BY <1>4 DEF WebThread, ThreadFrame
  <2>2. CASE ProxyDies
    BY <1>1, <2>1, <2>2, ProxyDiesAsked DEF ThreadFrame
  <2>3. CASE ~ProxyDies
    BY <1>1, <2>1, <2>3, ThreadAsked
  <2>4. QED
    BY <2>2, <2>3
<1>5. ASSUME NEW c \in Clients, ClientStep(c) PROVE Asked(d)'
  <2>1. CASE d = c
    BY <1>1, <1>5, <2>1, ClientConnectsAsked, ClientSendsAsked, ClientReceivesAsked, ClientLeavesAsked DEF ClientStep
  <2>2. CASE d # c
    BY <1>1, <1>5, <2>2, ClientElse, SameAsked
  <2>3. QED
    BY <2>1, <2>2
<1>6. QED
  BY <1>2, <1>3, <1>4, <1>5 DEF Next, ClientStep

(* So the invariant holds in every state. *)
LEMMA AlwaysAsked == Spec => []AllAsked
<1>1. Init => AllAsked
  BY StartsHeld, StartsAsked DEF AllAsked
<1>2. AllAsked /\ [Next]_vars => AllAsked'
  BY HeldStep, AskedStep DEF AllAsked
<1>3. QED
  BY <1>1, <1>2, PTL DEF Spec

(* proxy.c and tiny.c close what they open: clientfd is open exactly while a
   thread works for its client, or for ever after an empty connection or a
   method other than GET; serverfd exactly while a request is with the server. *)
THEOREM DescriptorsAreGivenBack == Spec => []DescriptorsGivenBack
<1>1. AllAsked => DescriptorsGivenBack
  <2> SUFFICES ASSUME AllAsked, NEW c \in Clients
               PROVE  /\ proxy = "up" /\ ask[c].to = "proxy" =>
                           /\ "far" \notin front[c].shut <=> c \in Queued(calls) \/ px[c].pc \notin {"none", "done"}
                           /\ px[c].pc = "leaked" => ask[c].form \in {"post", "silent"}
                           /\ "near" \notin back[c].shut <=> px[c].pc \in {"send", "relay", "write"}
                      /\ "far" \notin back[c].shut <=> c = tiny.conn \/ (c \in Queued(ring) /\ tiny.pc # "down")
    BY DEF DescriptorsGivenBack
  <2>1. Holding(c) /\ Asked(c)
    BY DEF AllAsked, Held, GoodAt
  <2>2. QED
    BY <2>1 DEF Holding, Asked, Serving
<1>2. QED
  BY AlwaysAsked, <1>1, PTL
=============================================================================
