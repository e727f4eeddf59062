-------------------------- MODULE WebDeliveryProofs --------------------------
(***************************************************************************)
(* More about Web, for any clients, any scenarios of requests and any      *)
(* sizes of the buffers: clients in good order harm nobody, and every      *)
(* client receives what Delivery promises it.                              *)
(*                                                                         *)
(* Two layers are added to the invariant of WebProofs.                     *)
(*   Heard, Answered   follow the request on to tiny, and the answer back  *)
(*            through tiny, its child, two connections and the thread: all *)
(*            the parts, in their order, make up the answer that is owed.  *)
(*   Calm     among clients that stay for their answer: no end is closed   *)
(*            while its peer still has something to say, so that no reset, *)
(*            no broken pipe and no early end of file meets anybody.       *)
(* Of every action there is a lemma for each layer.                        *)
(***************************************************************************)
EXTENDS WebProofs

USE SockBufAssumption, RioAssumption

-----------------------------------------------------------------------------
(* The request on its way to tiny, and the answer on its way back.           *)

(* What tiny reads from the connection of c, and the part that is still to be
   sent, by c itself or by its thread. *)
Sent(c) == IF ask[c].to = "proxy" THEN rebuild_request(Target(ask[c])) ELSE Wire(ask[c])
Coming(c) == IF ask[c].to # "proxy" THEN todo[c] ELSE IF px[c].pc = "send" THEN px[c].out ELSE <<>>
AtTiny(c) == IF tiny.conn = c THEN tiny.rio.usr ++ tiny.rio.buf ELSE <<>>
Stream(c) == AtTiny(c) ++ (back[c].data["far"] ++ Coming(c))

(* Nobody on the way from tiny to c has hung up. *)
Alive(c) == "near" \notin Link(c).shut /\ "near" \notin back[c].shut

(* While tiny has the connection: what it has yet to read, and what it knows. *)
Heard(c) ==
  /\ px[c].pc = "send" => px[c].out # <<>>
  /\ Alive(c) /\ "far" \notin back[c].shut =>
       /\ tiny.conn # c \/ tiny.pc = "line" => Stream(c) = Sent(c)
       /\ tiny.conn = c =>
            /\ tiny.pc # "spin"
            /\ tiny.pc \in {"hdr1", "hdrs"} => After(Stream(c), Sent(c))
            /\ tiny.pc \notin {"line", "page", "close"} => tiny.path = ask[c].path /\ ask[c].form \notin {"post", "silent"}
            /\ tiny.pc \notin {"line", "hdr1", "hdrs"} =>
                 \/ back[c].data["far"] = <<>> /\ Coming(c) = <<>>
                 \/ ask[c].form = "post" /\ ask[c].to # "proxy" /\ tiny.pc \in {"page", "close"}

(* What c received or finds in its socket, and all that is on its way to c. *)
Begins(s, w) == \E z \in Seq(AnsByte) : s ++ z = w
Seen(c) == got[c] ++ Link(c).data["near"]
Carried(c) == IF px[c].pc \in {"relay", "write"} THEN px[c].out ++ (px[c].rio.usr ++ px[c].rio.buf) ELSE <<>>
Up(c) == (got[c] ++ front[c].data["near"]) ++ (Carried(c) ++ back[c].data["near"])

(* What tiny and its child have still to write; what a sum without an '&' lacks. *)
Missing(c) == IF ask[c].path = "adder?1" /\ ask[c].form # "post" THEN <<<<ask[c].path, "sum">>>> ELSE <<>>
InHand == IF tiny.pc \in {"page", "head", "body", "cgi"} THEN tiny.out ELSE IF tiny.pc = "wait" THEN cgi.out ELSE <<>>
ToFollow == IF tiny.pc \in {"head", "map"} THEN Body(tiny.path)
            ELSE IF tiny.pc \in {"cgi", "fork"} THEN adder(tiny.path) ELSE <<>>
Waits(c) == tiny.conn = c => tiny.pc \in {"line", "hdr1", "hdrs", "serve"}
Rest(c) == IF Waits(c) THEN Owed(c) ELSE InHand ++ (ToFollow ++ Missing(c))

(* What c received begins its answer; what is on its way completes it. *)
Answered(c) ==
  /\ Begins(Seen(c), Owed(c))
  /\ px[c].pc = "error" /\ "near" \notin front[c].shut => (got[c] ++ front[c].data["near"]) ++ px[c].out = Owed(c)
  /\ Alive(c) => Begins(Up(c), Owed(c)) /\ ("far" \notin back[c].shut => Up(c) ++ Rest(c) = Owed(c))

Reaped == ~cgi.up => cgi.out = <<>>
AllAnswered == AllAsked /\ Reaped /\ \A c \in Clients : Heard(c) /\ Answered(c)
-----------------------------------------------------------------------------

(* A beginning of a beginning. *)
LEMMA BeginsIs ==
  ASSUME NEW s \in Seq(AnsByte), NEW t \in Seq(AnsByte), NEW w
  PROVE  /\ s ++ t = w => Begins(s, w)
         /\ Begins(s ++ t, w) => Begins(s, w)
         /\ Begins(s, s) /\ Begins(<<>>, s)
<1>1. s ++ t = w => Begins(s, w)
  BY DEF Begins
<1>2. ASSUME Begins(s ++ t, w) PROVE Begins(s, w)
  <2>1. PICK z \in Seq(AnsByte) : (s ++ t) ++ z = w
    BY <1>2 DEF Begins
  <2>2. s ++ (t ++ z) = w /\ t ++ z \in Seq(AnsByte)
    BY <2>1, Assoc, Joined
  <2>3. QED
    BY <2>2 DEF Begins
<1>3. Begins(s, s) /\ Begins(<<>>, s)
  <2>1. s ++ <<>> = s /\ <<>> ++ s = s /\ <<>> \in Seq(AnsByte)
    BY Unit
  <2>2. QED
    BY <2>1 DEF Begins
<1>4. QED
  BY <1>1, <1>2, <1>3

(* What is left of a flow after one that was cut short. *)
LEMMA CutShort ==
  ASSUME NEW a \in Seq(AnsByte), NEW b \in Seq(AnsByte), NEW n \in 0..Len(b), NEW w, Begins(a ++ b, w)
  PROVE  Begins(a ++ SubSeq(b, 1, n), w) /\ SubSeq(b, 1, n) \in Seq(AnsByte)
<1>1. n \in Nat /\ n <= Len(b) /\ Len(b) \in Nat
  BY LenProperties
<1>2. PICK s, t : s = SubSeq(b, 1, n) /\ t = SubSeq(b, n + 1, Len(b))
  OBVIOUS
<1>3. s \in Seq(AnsByte) /\ t \in Seq(AnsByte) /\ s ++ t = b
  BY <1>1, <1>2, Cut
<1>4. (a ++ s) ++ t = a ++ b /\ a ++ s \in Seq(AnsByte)
  BY <1>3, Assoc, Joined
<1>5. QED
  BY <1>2, <1>3, <1>4, BeginsIs
-----------------------------------------------------------------------------
(* What reading leaves of a connection, for either end. *)
LEMMA TakenNear ==
  ASSUME NEW k, GoodConn(k), NEW n \in Nat
  PROVE  /\ Taken(k, "near", n).data["near"] = SubSeq(k.data["near"], n + 1, Len(k.data["near"]))
         /\ Taken(k, "near", n).data["far"] = k.data["far"] /\ Taken(k, "near", n).shut = k.shut
<1>1. "near" \in Ends /\ Other("near") = "far"
  BY EndsAre
<1>2. QED
  BY <1>1, TakenIs

LEMMA TakenFar ==
  ASSUME NEW k, GoodConn(k), NEW n \in Nat
  PROVE  /\ Taken(k, "far", n).data["far"] = SubSeq(k.data["far"], n + 1, Len(k.data["far"]))
         /\ Taken(k, "far", n).data["near"] = k.data["near"] /\ Taken(k, "far", n).shut = k.shut
<1>1. "far" \in Ends /\ Other("far") = "near"
  BY EndsAre
<1>2. QED
  BY <1>1, TakenIs

(* The flows are sequences of bytes. *)
LEMMA ArrowsAre ==
  ASSUME Held, NEW c \in Clients
  PROVE  /\ got[c] \in Seq(AnsByte) /\ front[c].data["near"] \in Seq(AnsByte) /\ back[c].data["near"] \in Seq(AnsByte)
         /\ got[c] ++ front[c].data["near"] \in Seq(AnsByte) /\ Seen(c) \in Seq(AnsByte)
         /\ Carried(c) \in Seq(AnsByte) /\ Carried(c) ++ back[c].data["near"] \in Seq(AnsByte) /\ Up(c) \in Seq(AnsByte)
<1>1. got[c] \in Seq(AnsByte) /\ front[c].data["near"] \in Seq(AnsByte) /\ back[c].data["near"] \in Seq(AnsByte)
      /\ GoodThread(px[c])
  BY DEF Held, Functions, GoodAt, GoodConn
<1>2. got[c] ++ front[c].data["near"] \in Seq(AnsByte) /\ Seen(c) \in Seq(AnsByte)
  BY <1>1, Joined DEF Seen, Link
<1>3. Carried(c) \in Seq(AnsByte)
  <2>1. <<>> \in Seq(AnsByte)
    BY EmptySeq
  <2>2. CASE px[c].pc \in {"relay", "write"}
    <3>1. px[c].out \in Seq(AnsByte) /\ px[c].rio \in Rio(AnsByte)
      BY <1>1, <2>1, <2>2 DEF GoodThread
    <3>2. px[c].rio.usr \in Seq(AnsByte) /\ px[c].rio.buf \in Seq(AnsByte)
      BY <3>1, RioParts
    <3>3. px[c].out ++ (px[c].rio.usr ++ px[c].rio.buf) \in Seq(AnsByte)
      BY <3>1, <3>2, Joined
    <3>4. QED
      BY <2>2, <3>3 DEF Carried
  <2>3. QED
    BY <2>1, <2>2 DEF Carried
<1>4. QED
  BY <1>1, <1>2, <1>3, Joined DEF Up

(* What tiny answers is bytes, and what it writes in parts is the answer. *)
LEMMA AnswersAre ==
  ASSUME Held, NEW c \in Clients
  PROVE  /\ ask[c] \in Requests /\ ask[c].path \in Text /\ Missing(c) \in Seq(AnsByte) /\ Owed(c) \in Seq(AnsByte)
         /\ ask[c].form = "post" => Owed(c) = clienterror("501") /\ Missing(c) = <<>>
         /\ ask[c].form \notin {"post", "silent"} => Owed(c) = AnswerTo(ask[c].path)
<1>1. ask[c] \in Requests
  BY DEF Held, Functions
<1>2. ask[c].path \in Text
  BY <1>1 DEF Requests, Text
<1>3. PICK path : path = ask[c].path /\ path \in Text
  BY <1>2
<1>4. PICK st, sv, sum, hd : st = <<path, "status">> /\ sv = <<path, "server">> /\ sum = <<path, "sum">> /\ hd = <<path, "head">>
  OBVIOUS
<1>5. st \in AnsByte /\ sv \in AnsByte /\ sum \in AnsByte /\ hd \in AnsByte
  BY <1>3, <1>4 DEF AnsByte, Text
<1>6. <<sum>> \in Seq(AnsByte) /\ <<st, sv, sum>> \in Seq(AnsByte) /\ <<hd>> \in Seq(AnsByte) /\ <<>> \in Seq(AnsByte)
  BY <1>5, EmptySeq
<1>7. Missing(c) \in Seq(AnsByte)
  BY <1>3, <1>4, <1>6 DEF Missing
<1>8. AnswerTo(path) \in Seq(AnsByte)
  <2>1. clienterror("404") \in Seq(AnsByte) /\ clienterror("403") \in Seq(AnsByte)
    BY ErrorPages
  <2>2. <<hd>> ++ Body(path) \in Seq(AnsByte)
    BY <1>3, <1>6, AnswerBytes, Joined
  <2>3. <<<<path, "head">>>> \o Body(path) \in Seq(AnsByte)
    BY <1>4, <2>2 DEF ++
  <2>4. <<<<path, "status">>, <<path, "server">>, <<path, "sum">>>> \in Seq(AnsByte)
    BY <1>4, <1>6
  <2>5. QED
    BY <2>1, <2>3, <2>4 DEF AnswerTo
<1>9. clienterror("501") \in Seq(AnsByte)
  BY ErrorPages
<1>10. Owed(c) \in Seq(AnsByte)
  BY <1>3, <1>6, <1>8, <1>9 DEF Owed
<1>11. ask[c].form = "post" => Owed(c) = clienterror("501") /\ Missing(c) = <<>>
  BY DEF Owed, Missing
<1>12. ask[c].form \notin {"post", "silent"} => Owed(c) = AnswerTo(ask[c].path)
  BY DEF Owed
<1>13. QED
  BY <1>1, <1>2, <1>7, <1>10, <1>11, <1>12

(* The parts tiny writes of a page, and of a sum, whose end may be missing. *)
LEMMA PartsAre ==
  ASSUME Held, NEW c \in Clients, ask[c].form # "post"
  PROVE  LET path == ask[c].path IN
         Stat(path).found /\ Stat(path).readable =>
           AnswerTo(path) = IF is_static(path) THEN <<<<path, "head">>>> ++ (Body(path) ++ Missing(c))
                            ELSE <<<<path, "status">>, <<path, "server">>>> ++ (adder(path) ++ Missing(c))
<1>1. PICK path : path = ask[c].path /\ path \in Text
  BY AnswersAre
<1>2. PICK st, sv, sum, hd : st = <<path, "status">> /\ sv = <<path, "server">> /\ sum = <<path, "sum">> /\ hd = <<path, "head">>
  OBVIOUS
<1>3. st \in AnsByte /\ sv \in AnsByte /\ sum \in AnsByte /\ hd \in AnsByte
  BY <1>1, <1>2 DEF AnsByte, Text
<1>4. <<sum>> \in Seq(AnsByte) /\ <<>> \in Seq(AnsByte)
  BY <1>3, EmptySeq
<1>5. ASSUME Stat(path).found, Stat(path).readable, is_static(path)
      PROVE  AnswerTo(path) = <<hd>> ++ (Body(path) ++ Missing(c))
  <2>1. Missing(c) = <<>>
    BY <1>1, <1>5 DEF Missing, is_static
  <2>2. Body(path) ++ <<>> = Body(path)
    BY <1>1, AnswerBytes, Unit
  <2>3. QED
    BY <1>2, <1>5, <2>1, <2>2 DEF AnswerTo, ++
<1>6. ASSUME Stat(path).found, Stat(path).readable, ~is_static(path)
      PROVE  AnswerTo(path) = <<st, sv>> ++ (adder(path) ++ Missing(c))
  <2>1. adder(path) ++ Missing(c) = <<sum>>
    <3>1. CASE path = "adder?1&2"
      <4>1. adder(path) = <<sum>> /\ Missing(c) = <<>>
        BY <1>1, <1>2, <3>1 DEF adder, Missing
      <4>2. QED
        BY <1>4, <4>1, Unit
    <3>2. CASE path = "adder?1"
      <4>1. adder(path) = <<>> /\ Missing(c) = <<sum>>
        BY <1>1, <1>2, <3>2 DEF adder, Missing
      <4>2. QED
        BY <1>4, <4>1, Unit
    <3>3. QED
      BY <1>6, <3>1, <3>2 DEF is_static
  <2>2. <<st, sv>> \o <<sum>> = <<st, sv, sum>>
    <3>1. <<st, sv>> \in Seq(AnsByte)
      BY <1>3
    <3>2. Append(<<st, sv>>, sum) = <<st, sv>> \o <<sum>>
      BY <1>3, <3>1, AppendIsConcat
    <3>3. Append(<<st, sv>>, sum) = <<st, sv, sum>>
      <4>1. PICK s, t, w : s = <<st, sv>> /\ t = Append(s, sum) /\ w = <<st, sv, sum>>
        OBVIOUS
      <4>2. s \in Seq(AnsByte) /\ Len(s) = 2 /\ s[1] = st /\ s[2] = sv
        BY <3>1, <4>1
      <4>3. w \in Seq(AnsByte) /\ Len(w) = 3 /\ w[1] = st /\ w[2] = sv /\ w[3] = sum
        BY <1>3, <4>1
      <4>4. t \in Seq(AnsByte) /\ Len(t) = 3 /\ t[1] = st /\ t[2] = sv /\ t[3] = sum
        BY <1>3, <4>1, <4>2, AppendProperties
      <4>5. \A i \in 1..3 : t[i] = w[i]
        <5>1. \A i \in 1..3 : i = 1 \/ i = 2 \/ i = 3
          OBVIOUS
        <5>2. QED
          BY <4>3, <4>4, <5>1
      <4>6. QED
        BY <4>1, <4>3, <4>4, <4>5, SeqEqual
    <3>4. QED
      BY <3>2, <3>3
  <2>3. AnswerTo(path) = <<st, sv, sum>>
    BY <1>2, <1>6 DEF AnswerTo
  <2>4. QED
    BY <2>1, <2>2, <2>3 DEF ++
<1>7. QED
  BY <1>1, <1>2, <1>5, <1>6
-----------------------------------------------------------------------------
(* At the start no request is under way. *)
LEMMA StartsAnswered == Init => Reaped /\ \A c \in Clients : Heard(c) /\ Answered(c)
<1> SUFFICES ASSUME Init PROVE Reaped /\ \A c \in Clients : Heard(c) /\ Answered(c)
  OBVIOUS
<1>1. Reaped
  BY DEF Init, TinyInit, Reaped
<1>2. ASSUME NEW c \in Clients PROVE Heard(c) /\ Answered(c)
  <2>1. Held
    BY StartsHeld
  <2>2. front[c] = Absent /\ back[c] = Absent /\ px[c] = Idle /\ got[c] = <<>>
    BY DEF Init, ProxyInit
  <2>3. "near" \in Link(c).shut /\ Link(c).data["near"] = <<>>
    BY <2>2, AbsentIs, EndsAre DEF Link
  <2>4. Seen(c) = <<>>
    <3>1. <<>> \in Seq(AnsByte)
      BY EmptySeq
    <3>2. QED
      BY <2>2, <2>3, <3>1, Unit DEF Seen
  <2>5. Begins(Seen(c), Owed(c))
    BY <2>1, <2>4, AnswersAre, BeginsIs
  <2>6. QED
    BY <2>2, <2>3, <2>5, IdleIs DEF Heard, Answered, Alive
<1>3. QED
  BY <1>1, <1>2

(* A step that is none of d's business. *)
Apart(d) ==
  /\ front'[d] = front[d] /\ back'[d] = back[d] /\ px'[d] = px[d] /\ todo'[d] = todo[d] /\ got'[d] = got[d]
  /\ end'[d] = end[d] /\ ask' = ask
  /\ UNCHANGED tinyVars \/ (d # tiny.conn /\ d # tiny'.conn)

(* What does not concern d changes neither its request nor its answer. *)
LEMMA ApartKept ==
  ASSUME NEW d \in Clients, Apart(d), Heard(d), Answered(d)
  PROVE  Heard(d)' /\ Answered(d)'
<1>1. /\ front'[d] = front[d] /\ back'[d] = back[d] /\ px'[d] = px[d] /\ todo'[d] = todo[d] /\ got'[d] = got[d]
      /\ end'[d] = end[d] /\ ask' = ask
  BY DEF Apart
<1>2. /\ Link(d)' = Link(d) /\ Sent(d)' = Sent(d) /\ Coming(d)' = Coming(d) /\ Seen(d)' = Seen(d)
      /\ Owed(d)' = Owed(d) /\ Missing(d)' = Missing(d) /\ Carried(d)' = Carried(d)
  BY <1>1 DEF Link, Sent, Coming, Seen, Owed, Missing, Carried
<1>3. (Alive(d)' <=> Alive(d)) /\ Up(d)' = Up(d)
  BY <1>1, <1>2 DEF Alive, Up
<1>4. CASE UNCHANGED tinyVars
  <2>1. tiny' = tiny /\ cgi' = cgi
    BY <1>4 DEF tinyVars
  <2>2. Stream(d)' = Stream(d) /\ Rest(d)' = Rest(d)
    BY <1>1, <1>2, <2>1 DEF Stream, AtTiny, Rest, Waits, InHand, ToFollow
  <2>3. After(Stream(d), Sent(d)) <=> After(Stream(d), Sent(d))'
    BY <1>2, <2>2 DEF After
  <2>4. Heard(d)'
    BY <1>1, <1>2, <1>3, <2>1, <2>2, <2>3 DEF Heard
  <2>5. QED
    BY <1>1, <1>2, <1>3, <2>2, <2>4 DEF Answered, Begins
<1>5. CASE d # tiny.conn /\ d # tiny'.conn
  <2>1. Stream(d)' = Stream(d)
    BY <1>1, <1>2, <1>5 DEF Stream, AtTiny
  <2>2. Rest(d) = Owed(d) /\ Rest(d)' = Owed(d)'
    BY <1>5 DEF Rest, Waits
  <2>3. Heard(d)'
    BY <1>1, <1>2, <1>3, <1>5, <2>1 DEF Heard
  <2>4. QED
    BY <1>1, <1>2, <1>3, <2>2, <2>3 DEF Answered, Begins
<1>6. QED
  BY <1>4, <1>5 DEF Apart

(* The proxy serves a client that is away or whose request it has not passed on:
   what is on its way back does not reach anybody, or does not exist. *)
LEMMA NotWithServer ==
  ASSUME Held, NEW c \in Clients, ask[c].to = "proxy", px[c].pc \notin Serving
  PROVE  ~Alive(c)
BY DEF Held, GoodAt, Holding, Alive

(* A connection on which nothing can arrive any more. *)
LEMMA Silenced ==
  ASSUME NEW c \in Clients, ~Alive(c)', px'[c].pc \notin {"send", "error"}, Begins(Seen(c), Owed(c))'
  PROVE  Heard(c)' /\ Answered(c)'
BY DEF Heard, Answered

(* A thread that has not yet asked tiny, or does not have to. *)
LEMMA ThreadQuiet ==
  ASSUME Held', NEW c \in Clients, ask[c].to = "proxy", ask' = ask, got' = got, px'[c].pc \notin Serving,
         front'[c].data["near"] = front[c].data["near"], Answered(c),
         px'[c].pc = "error" => (got[c] ++ front[c].data["near"]) ++ px'[c].out = Owed(c)
  PROVE  Heard(c)' /\ Answered(c)'
<1>1. ~Alive(c)'
  BY DEF Held, GoodAt, Holding, Alive
<1>2. Seen(c)' = Seen(c) /\ Owed(c)' = Owed(c)
  BY DEF Seen, Link, Owed
<1>3. QED
  BY <1>1, <1>2 DEF Heard, Answered, Serving, Begins

(* The thread of c works for a client of the proxy. *)
LEMMA Threads ==
  ASSUME Held, NEW c \in Clients, px[c].pc \in Busy
  PROVE  ask[c].to = "proxy" /\ end[c] # "new" /\ Functions /\ px[c] \in PxType /\ GoodThread(px[c])
         /\ GoodConn(front[c]) /\ GoodConn(back[c]) /\ Holding(c)
<1>1. px[c] # Idle /\ Holding(c)
  BY IdleIs DEF Held, GoodAt, Busy
<1>2. QED
  BY <1>1 DEF Held, GoodAt, Holding, GoodThread

(* Reading a line moves bytes of the request only. *)
LEMMA ReadsClientAnswered ==
  ASSUME Held, Held', NEW c \in Clients, px[c].pc \in Reading, ReadsClient(c), ThreadFrame, Answered(c)
  PROVE  Heard(c)' /\ Answered(c)'
<1>1. PICK n \in ReadSizes(front[c], "far") :
        /\ px' = [px EXCEPT ![c].rio = Refill(@, SubSeq(front[c].data["far"], 1, n))]
        /\ front' = [front EXCEPT ![c] = Taken(@, "far", n)]
  BY DEF ReadsClient
<1>2. /\ ask[c].to = "proxy" /\ Functions /\ px[c] \in PxType /\ GoodConn(front[c])
      /\ "far" \in Ends /\ "near" \in Ends /\ Other("far") = "near"
  BY Threads, EndsAre DEF Reading, Busy
<1>3. PICK q : px' = [px EXCEPT ![c].rio = q]
  BY <1>1
<1>4. px'[c] = [px[c] EXCEPT !.rio = q]
  BY <1>2, <1>3 DEF Functions
<1>5. px'[c].pc = px[c].pc
  BY <1>2, <1>4 DEF PxType
<1>6. n \in Nat
  BY <1>1, <1>2, ReadSizesAre
<1>7. front'[c].data["near"] = front[c].data["near"]
  <2>1. front'[c] = Taken(front[c], "far", n)
    BY <1>1, <1>2 DEF Functions
  <2>2. QED
    BY <1>2, <1>6, <2>1, TakenIs
<1>8. ask' = ask /\ got' = got
  BY DEF ThreadFrame, clientVars
<1>9. QED
  BY <1>2, <1>5, <1>7, <1>8, ThreadQuiet DEF Reading, Serving

(* Before the thread connects there is no answer but that to a method other
   than GET, which it owes. *)
LEMMA RequestLineAnswered ==
  ASSUME Held, Held', NEW c \in Clients, RequestLine(c), ThreadFrame, ~ProxyDies, Asked(c), Asked(c)', Answered(c)
  PROVE  Heard(c)' /\ Answered(c)'
<1>1. proxy = "up" /\ px[c].pc = "line"
  BY DEF RequestLine
<1>2. /\ ask[c].to = "proxy" /\ Functions /\ px[c] \in PxType
      /\ ask' = ask /\ got' = got
  BY <1>1, Threads DEF Busy, ThreadFrame, clientVars
<1>3. got[c] = <<>> /\ front[c].data["near"] = <<>>
  BY <1>1, <1>2 DEF Asked
<1>4. CASE ReadsClient(c)
  BY <1>1, <1>4, ReadsClientAnswered DEF Reading
<1>5. CASE NoLine(c) /\ Goes(c, "leaked")
  <2>1. px'[c] = [px[c] EXCEPT !.pc = "leaked"] /\ front' = front
    BY <1>2, <1>5 DEF Goes, netVars, Functions
  <2>2. px'[c].pc = "leaked"
    BY <1>2, <2>1 DEF PxType
  <2>3. QED
    BY <1>2, <2>1, <2>2, ThreadQuiet DEF Serving
<1>6. ASSUME NEW g \in GotLines(c),
             px' = [px EXCEPT ![c] =
               IF g.line[1][1] = "GET"
               THEN [@ EXCEPT !.pc = "hdr1", !.uri = g.line[1], !.rio = g.rio]
               ELSE [@ EXCEPT !.pc = "error", !.out = clienterror("501")]],
             UNCHANGED <<calls, proxy, netVars>>
      PROVE  Heard(c)' /\ Answered(c)'
  <2>1. PICK byte, rio, page : byte = g.line[1] /\ rio = g.rio /\ page = clienterror("501")
    OBVIOUS
  <2>2. px'[c] = IF byte[1] = "GET" THEN [px[c] EXCEPT !.pc = "hdr1", !.uri = byte, !.rio = rio]
                 ELSE [px[c] EXCEPT !.pc = "error", !.out = page]
    BY <1>2, <1>6, <2>1 DEF Functions
  <2>3. px'[c].pc = "hdr1" \/ (px'[c].pc = "error" /\ px'[c].out = page)
    BY <1>2, <2>2 DEF PxType
  <2>4. front' = front
    BY <1>6 DEF netVars
  <2>5. ASSUME px'[c].pc = "error" PROVE (got[c] ++ front[c].data["near"]) ++ px'[c].out = Owed(c)
    <3>1. proxy' = proxy
      BY <1>6
    <3>2. ask[c].form = "post"
      BY <1>1, <1>2, <2>5, <3>1 DEF Asked
    <3>3. Owed(c) = page /\ page \in Seq(AnsByte) /\ <<>> \in Seq(AnsByte)
      BY <2>1, <3>2, AnswersAre, EmptySeq
    <3>4. (<<>> ++ <<>>) ++ page = page
      BY <3>3, Unit
    <3>5. QED
      BY <1>3, <2>3, <2>5, <3>3, <3>4
  <2>6. px'[c].pc \notin Serving
    BY <2>3 DEF Serving
  <2>7. QED
    BY <1>2, <2>4, <2>5, <2>6, ThreadQuiet
<1>7. QED
  BY <1>4, <1>5, <1>6 DEF RequestLine, ClientReset

(* Nor has it while its thread reads the headers. *)
LEMMA HeadersAnswered ==
  ASSUME Held, Held', NEW c \in Clients, Headers(c), ThreadFrame, ~ProxyDies, Answered(c)
  PROVE  Heard(c)' /\ Answered(c)'
<1>1. px[c].pc \in {"hdr1", "hdrs"}
  BY DEF Headers
<1>2. /\ ask[c].to = "proxy" /\ Functions /\ px[c] \in PxType /\ ask' = ask /\ got' = got
  BY <1>1, Threads DEF Busy, ThreadFrame, clientVars
<1>3. CASE ReadsClient(c)
  BY <1>1, <1>3, ReadsClientAnswered DEF Reading
<1>4. ASSUME NEW to \in {"spin", "connect"}, Goes(c, to) PROVE Heard(c)' /\ Answered(c)'
  <2>1. px'[c] = [px[c] EXCEPT !.pc = to] /\ front' = front
    BY <1>2, <1>4 DEF Goes, netVars, Functions
  <2>2. px'[c].pc = to
    BY <1>2, <2>1 DEF PxType
  <2>3. QED
    BY <1>2, <1>4, <2>1, <2>2, ThreadQuiet DEF Serving
<1>5. ASSUME NEW g \in GotLines(c),
             px' = [px EXCEPT ![c].rio = g.rio, ![c].pc = IF g.line = Blank THEN "connect" ELSE "hdrs"],
             UNCHANGED <<calls, proxy, netVars>>
      PROVE  Heard(c)' /\ Answered(c)'
  <2>1. PICK rio, to : rio = g.rio /\ to = (IF g.line = Blank THEN "connect" ELSE "hdrs") /\ to \in {"connect", "hdrs"}
    OBVIOUS
  <2>2. px'[c] = [px[c] EXCEPT !.rio = rio, !.pc = to]
    BY <1>2, <1>5, <2>1 DEF Functions
  <2>3. px'[c].pc = to /\ front' = front
    BY <1>2, <1>5, <2>2 DEF PxType, netVars
  <2>4. QED
    BY <1>2, <2>1, <2>3, ThreadQuiet DEF Serving
<1>6. QED
  BY <1>3, <1>4, <1>5 DEF Headers, ClientReset

(* The connection that the thread opens is new, and so is the answer. *)
LEMMA OpensServerAnswered ==
  ASSUME Held, Held', NEW c \in Clients, OpensServer(c, Listening), ThreadFrame, ~ProxyDies, Asked(c), Answered(c)
  PROVE  Heard(c)' /\ Answered(c)'
<1>1. proxy = "up" /\ px[c].pc = "connect"
  BY DEF OpensServer
<1>2. /\ ask[c].to = "proxy" /\ Functions /\ px[c] \in PxType /\ Holding(c) /\ px[c].uri \in GetLine
      /\ ask' = ask /\ got' = got /\ todo' = todo /\ tiny' = tiny
  BY <1>1, Threads DEF Busy, ThreadFrame, clientVars, tinyVars, GoodThread
<1>3. got[c] = <<>> /\ front[c].data["near"] = <<>> /\ px[c].uri = Target(ask[c])
  BY <1>1, <1>2 DEF Asked
<1>4. PICK out : out = rebuild_request(Target(ask[c])) /\ out \in Seq(AskByte)
  BY <1>2, <1>3, RebuiltIs
<1>5. px' = [px EXCEPT ![c].pc = "send", ![c].out = out] /\ back' = [back EXCEPT ![c] = Fresh] /\ front' = front
  BY <1>3, <1>4 DEF OpensServer
<1>6. px'[c] = [px[c] EXCEPT !.pc = "send", !.out = out] /\ back'[c] = Fresh
  BY <1>2, <1>5 DEF Functions
<1>7. px'[c].pc = "send" /\ px'[c].out = out
  BY <1>2, <1>6 DEF PxType
<1>8. out # <<>>
  <2>1. Len(rebuild_request(Target(ask[c]))) = 5
    BY DEF rebuild_request
  <2>2. Len(out) = 5 /\ Len(<<>>) = 0
    BY <1>4, <2>1
  <2>3. QED
    BY <2>2
<1>9. tiny.conn # c
  BY <1>1, <1>2 DEF Holding, Serving
<1>10. Fresh.data["near"] = <<>> /\ Fresh.data["far"] = <<>> /\ <<>> \in Seq(AskByte) /\ <<>> \in Seq(AnsByte)
  BY FreshIs, EndsAre, EmptySeq
<1>11. Stream(c)' = Sent(c)'
  <2>1. Stream(c)' = <<>> ++ (<<>> ++ out)
    BY <1>2, <1>6, <1>7, <1>9, <1>10 DEF Stream, AtTiny, Coming
  <2>2. Sent(c)' = out
    BY <1>2, <1>4 DEF Sent
  <2>3. QED
    BY <1>4, <2>1, <2>2, Unit
<1>12. Heard(c)'
  BY <1>2, <1>7, <1>8, <1>9, <1>11 DEF Heard
<1>13. Up(c)' = <<>>
  <2>1. Carried(c)' = <<>>
    BY <1>7 DEF Carried
  <2>2. Up(c)' = (<<>> ++ <<>>) ++ (<<>> ++ <<>>)
    BY <1>2, <1>3, <1>5, <1>6, <1>10, <2>1 DEF Up
  <2>3. QED
    BY <1>10, <2>2, Unit
<1>14. Owed(c)' = Owed(c) /\ Owed(c) \in Seq(AnsByte) /\ Rest(c)' = Owed(c)' /\ Seen(c)' = Seen(c)
  BY <1>2, <1>5, <1>9, AnswersAre DEF Owed, Rest, Waits, Seen, Link
<1>15. <<>> ++ Owed(c) = Owed(c) /\ Begins(<<>>, Owed(c))
  BY <1>14, Unit, BeginsIs, <1>10
<1>16. Answered(c)'
  BY <1>7, <1>13, <1>14, <1>15 DEF Answered, Begins
<1>17. QED
  BY <1>12, <1>16

(* What the thread writes to tiny moves along the stream. *)
LEMMA WritesServerAnswered ==
  ASSUME Held, NEW c \in Clients, WritesServer(c), ThreadFrame, ~ProxyDies, Heard(c), Answered(c)
  PROVE  Heard(c)' /\ Answered(c)'
<1>1. proxy = "up" /\ px[c].pc = "send"
  BY DEF WritesServer
<1>2. /\ ask[c].to = "proxy" /\ Functions /\ px[c] \in PxType /\ px[c].out \in Seq(AskByte) /\ GoodConn(back[c])
      /\ ask' = ask /\ got' = got /\ todo' = todo /\ tiny' = tiny /\ cgi' = cgi
  BY <1>1, Threads DEF Busy, ThreadFrame, clientVars, tinyVars, GoodThread
<1>3. PICK n : /\ n = Fits(back[c], "near", px[c].out) /\ n > 0
               /\ back' = [back EXCEPT ![c] = Put(@, "near", SubSeq(px[c].out, 1, n))]
               /\ px' = [px EXCEPT ![c].out = SubSeq(@, n + 1, Len(@)),
                                   ![c].pc = IF n = Len(px[c].out) THEN "relay" ELSE @,
                                   ![c].rio = IF n = Len(px[c].out) THEN rio_readinitb ELSE @]
               /\ front' = front
  BY DEF WritesServer
<1>4. PICK k, o, s, t, l : k = back[c] /\ o = px[c].out /\ s = SubSeq(o, 1, n) /\ t = SubSeq(o, n + 1, Len(o)) /\ l = Put(k, "near", s)
  OBVIOUS
<1>5. PICK to, r : /\ to = (IF n = Len(o) THEN "relay" ELSE "send")
                   /\ r = (IF n = Len(o) THEN rio_readinitb ELSE px[c].rio)
  OBVIOUS
<1>6. px'[c] = [px[c] EXCEPT !.out = t, !.pc = to, !.rio = r] /\ back'[c] = l
  BY <1>1, <1>2, <1>3, <1>4, <1>5 DEF Functions
<1>7. px'[c].out = t /\ px'[c].pc = to /\ px'[c].rio = r
  BY <1>2, <1>6 DEF PxType
<1>8. "near" \in Ends /\ Other("near") = "far" /\ Flow("far") = AskByte
  BY EndsAre DEF Flow
<1>9. /\ n \in 1..Len(o) /\ n \in Nat /\ Len(o) \in Nat /\ l.shut = k.shut /\ l.data["near"] = k.data["near"]
      /\ "far" \notin k.shut => l.data["far"] = k.data["far"] ++ s
      /\ t \in Seq(AskByte) /\ (n = Len(o) => t = <<>>)
  BY <1>2, <1>3, <1>4, <1>8, WriteIs
<1>10. s \in Seq(AskByte) /\ s ++ t = o /\ Len(t) = Len(o) - n
  BY <1>2, <1>4, <1>9, Cut
<1>11. to = "send" => t # <<>>
  <2>1. Len(<<>>) = 0
    OBVIOUS
  <2>2. QED
    BY <1>5, <1>9, <1>10, <2>1
<1>12. Coming(c) = o /\ Coming(c)' = t
  BY <1>1, <1>2, <1>4, <1>5, <1>7, <1>9 DEF Coming
<1>13. Sent(c)' = Sent(c) /\ AtTiny(c)' = AtTiny(c) /\ Link(c)' = Link(c) /\ Seen(c)' = Seen(c) /\ Owed(c)' = Owed(c) /\ Rest(c)' = Rest(c)
  BY <1>2, <1>3 DEF Sent, AtTiny, Link, Seen, Owed, Rest, Waits, InHand, ToFollow, Missing
<1>14. Alive(c)' <=> Alive(c)
  BY <1>4, <1>6, <1>9, <1>13 DEF Alive
<1>15. "far" \notin k.shut => Stream(c)' = Stream(c)
  <2>1. k.data["far"] \in Seq(AskByte)
    BY <1>2, <1>4 DEF GoodConn
  <2>2. (k.data["far"] ++ s) ++ t = k.data["far"] ++ o
    BY <2>1, <1>9, <1>10, Assoc
  <2>3. QED
    BY <1>4, <1>6, <1>9, <1>12, <1>13, <2>2 DEF Stream
<1>16. Heard(c)'
  <2>1. After(Stream(c), Sent(c)) /\ "far" \notin k.shut => After(Stream(c), Sent(c))'
    BY <1>13, <1>15 DEF After
  <2>2. tiny.conn = c /\ Alive(c) /\ "far" \notin k.shut => tiny.pc \in {"line", "hdr1", "hdrs"}
    BY <1>1, <1>2, <1>4, <1>12 DEF Heard
  <2>3. QED
    BY <1>2, <1>4, <1>5, <1>6, <1>7, <1>9, <1>11, <1>13, <1>14, <1>15, <2>1, <2>2 DEF Heard
<1>17. Up(c)' = Up(c)
  <2>1. Carried(c) = <<>>
    BY <1>1 DEF Carried
  <2>2. Carried(c)' = <<>>
    <3>1. <<>> \in Seq(AnsByte) /\ rio_readinitb.usr = <<>> /\ rio_readinitb.buf = <<>>
      BY RioInit, EmptySeq
    <3>2. <<>> ++ (<<>> ++ <<>>) = <<>>
      BY <3>1, Unit
    <3>3. QED
      BY <1>5, <1>7, <1>9, <3>1, <3>2 DEF Carried
  <2>3. QED
    BY <1>2, <1>3, <1>4, <1>6, <1>9, <2>1, <2>2 DEF Up
<1>18. Answered(c)'
  BY <1>1, <1>4, <1>5, <1>6, <1>7, <1>9, <1>13, <1>14, <1>17 DEF Answered, Begins
<1>19. QED
  BY <1>16, <1>18

(* What the thread has of the answer after a block. *)
LEMMA BlockCarries ==
  ASSUME NEW c, px[c] \in PxType, NEW r \in Rio(AnsByte), NEW p, p = Block(c, r)
  PROVE  /\ p.pc \in {"relay", "write"}
         /\ p.out ++ (p.rio.usr ++ p.rio.buf) = r.usr ++ r.buf
<1>1. r.usr \in Seq(AnsByte) /\ r.buf \in Seq(AnsByte) /\ <<>> \in Seq(AnsByte) /\ r.usr ++ r.buf \in Seq(AnsByte)
  BY RioParts, Joined, EmptySeq
<1>2. CASE BlockFull(r)
  <2>1. PICK q : q = [r EXCEPT !.usr = <<>>]
    OBVIOUS
  <2>2. q.usr = <<>> /\ q.buf = r.buf
    BY <2>1 DEF Rio
  <2>3. p = [px[c] EXCEPT !.pc = "write", !.out = r.usr, !.rio = q]
    BY <1>2, <2>1 DEF Block
  <2>4. p.pc = "write" /\ p.out = r.usr /\ p.rio = q
    BY <2>3 DEF PxType
  <2>5. r.usr ++ (<<>> ++ r.buf) = r.usr ++ r.buf
    BY <1>1, Unit
  <2>6. QED
    BY <2>2, <2>4, <2>5
<1>3. CASE ~BlockFull(r)
  <2>1. p = [px[c] EXCEPT !.pc = "relay", !.out = <<>>, !.rio = r]
    BY <1>3 DEF Block
  <2>2. p.pc = "relay" /\ p.out = <<>> /\ p.rio = r
    BY <2>1 DEF PxType
  <2>3. <<>> ++ (r.usr ++ r.buf) = r.usr ++ r.buf
    BY <1>1, Unit
  <2>4. QED
    BY <2>2, <2>3
<1>4. QED
  BY <1>2, <1>3

(* A thread at work on the answer leaves the request alone; it loses no byte of
   the answer while its client is there. *)
LEMMA ServedKept ==
  ASSUME NEW c \in Clients, ask[c].to = "proxy", ask' = ask, todo' = todo, tiny' = tiny, cgi' = cgi,
         px[c].pc \in {"relay", "write"}, px'[c].pc \in {"relay", "write"},
         front'[c].shut = front[c].shut, back'[c].shut = back[c].shut, back'[c].data["far"] = back[c].data["far"],
         Alive(c) => Up(c)' = Up(c), Begins(Seen(c), Owed(c))', Heard(c), Answered(c)
  PROVE  Heard(c)' /\ Answered(c)'
<1>1. Coming(c) = <<>> /\ Coming(c)' = <<>> /\ Sent(c)' = Sent(c) /\ Owed(c)' = Owed(c) /\ Rest(c)' = Rest(c)
  BY DEF Coming, Sent, Owed, Rest, Waits, InHand, ToFollow, Missing
<1>2. (Alive(c)' <=> Alive(c)) /\ Stream(c)' = Stream(c)
  BY <1>1 DEF Alive, Link, Stream, AtTiny
<1>3. After(Stream(c), Sent(c)) <=> After(Stream(c), Sent(c))'
  BY <1>1, <1>2 DEF After
<1>4. Heard(c)'
  BY <1>1, <1>2, <1>3 DEF Heard
<1>5. Answered(c)'
  BY <1>1, <1>2 DEF Answered, Begins
<1>6. QED
  BY <1>4, <1>5

(* What a relaying thread reads moves from the connection into its buffers. *)
LEMMA RelayReads ==
  ASSUME Held, NEW c \in Clients, px[c].pc = "relay", NEW n \in ReadSizes(back[c], "near"),
         px' = [px EXCEPT ![c] = Block(c, Copied(Refill(@.rio, SubSeq(back[c].data["near"], 1, n))))],
         back' = [back EXCEPT ![c] = Taken(@, "near", n)], front' = front, ThreadFrame, Heard(c), Answered(c)
  PROVE  Heard(c)' /\ Answered(c)' /\ Up(c)' = Up(c)
<1>1. /\ ask[c].to = "proxy" /\ Functions /\ px[c] \in PxType /\ GoodConn(back[c])
      /\ ask' = ask /\ got' = got /\ todo' = todo /\ tiny' = tiny /\ cgi' = cgi
      /\ px[c].rio \in Rio(AnsByte) /\ px[c].out = <<>> /\ px[c].rio.buf = <<>> /\ Len(px[c].rio.usr) < MaxLine
  BY Threads DEF Busy, ThreadFrame, clientVars, tinyVars, GoodThread
<1>2. PICK k, s, t, l, r : /\ k = back[c] /\ s = SubSeq(k.data["near"], 1, n) /\ t = SubSeq(k.data["near"], n + 1, Len(k.data["near"]))
                           /\ l = Taken(k, "near", n) /\ r = px[c].rio
  OBVIOUS
<1>3. "near" \in Ends /\ Other("near") = "far" /\ Flow("near") = AnsByte
  BY EndsAre DEF Flow
<1>4. n \in Nat /\ n <= Len(k.data["near"]) /\ s \in Seq(AnsByte) /\ k.data["near"] \in Seq(AnsByte)
  <2>1. n \in 1..RioBuf /\ n <= Len(k.data["near"]) /\ SubSeq(k.data["near"], 1, n) \in Seq(Flow("near"))
    BY <1>1, <1>2, <1>3, ReadSizesAre
  <2>2. QED
    BY <1>1, <1>2, <1>3, <2>1 DEF GoodConn
<1>5. t \in Seq(AnsByte) /\ s ++ t = k.data["near"]
  BY <1>2, <1>4, Cut
<1>6. l.data["near"] = t /\ l.data["far"] = k.data["far"] /\ l.shut = k.shut
  <2>1. GoodConn(k)
    BY <1>1, <1>2
  <2>2. Taken(k, "near", n).data["near"] = t /\ Taken(k, "near", n).data["far"] = k.data["far"] /\ Taken(k, "near", n).shut = k.shut
    <3>1. /\ Taken(k, "near", n).data["near"] = SubSeq(k.data["near"], n + 1, Len(k.data["near"]))
          /\ Taken(k, "near", n).data["far"] = k.data["far"] /\ Taken(k, "near", n).shut = k.shut
      BY <1>4, <2>1, TakenNear
    <3>2. QED
      BY <1>2, <1>3, <3>1
  <2>3. QED
    BY <1>2, <2>2
<1>7. PICK q, w, p : q = Refill(r, s) /\ w = Copied(q) /\ p = Block(c, w)
  OBVIOUS
<1>8. r.usr \in Seq(AnsByte) /\ r.buf \in Seq(AnsByte) /\ r.usr ++ r.buf \in Seq(AnsByte) /\ r.usr ++ <<>> = r.usr
  BY <1>1, <1>2, RioParts, Joined, Unit
<1>9. q \in Rio(AnsByte) /\ q.buf = s /\ q.usr = r.usr ++ r.buf
  <2>1. r \in Rio(AnsByte)
    BY <1>1, <1>2
  <2>2. QED
    BY <1>4, <1>7, <2>1, RefillIs
<1>10. w \in Rio(AnsByte) /\ w.usr ++ w.buf = (r.usr ++ r.buf) ++ s
  <2>1. Len(q.usr) <= MaxLine
    BY <1>1, <1>2, <1>8, <1>9, RioAssumption, LenProperties
  <2>2. QED
    BY <1>7, <1>9, <2>1, CopiedIs
<1>11. p.pc \in {"relay", "write"} /\ p.out ++ (p.rio.usr ++ p.rio.buf) = w.usr ++ w.buf
  BY <1>1, <1>7, <1>10, BlockCarries
<1>12. px'[c] = p /\ back'[c] = l
  BY <1>1, <1>2, <1>7 DEF Functions
<1>13. Carried(c) = r.usr ++ r.buf /\ Carried(c)' = (r.usr ++ r.buf) ++ s
  <2>1. Carried(c) = <<>> ++ (r.usr ++ r.buf)
    BY <1>1, <1>2 DEF Carried
  <2>2. QED
    BY <1>8, <1>10, <1>11, <1>12, <2>1, Unit DEF Carried
<1>14. Up(c)' = Up(c)
  <2>1. got[c] ++ front[c].data["near"] \in Seq(AnsByte)
    BY ArrowsAre
  <2>2. PICK g, u : g = got[c] ++ front[c].data["near"] /\ u = r.usr ++ r.buf /\ g \in Seq(AnsByte) /\ u \in Seq(AnsByte)
    BY <1>8, <2>1
  <2>3. g ++ ((u ++ s) ++ t) = g ++ (u ++ (s ++ t))
    <3>1. (u ++ s) ++ t = u ++ (s ++ t)
      BY <1>4, <1>5, <2>2, Assoc
    <3>2. QED
      BY <3>1
  <2>4. Up(c) = g ++ (u ++ k.data["near"]) /\ Up(c)' = g ++ ((u ++ s) ++ t)
    BY <1>1, <1>2, <1>6, <1>12, <1>13, <2>2 DEF Up
  <2>5. QED
    BY <1>5, <2>3, <2>4
<1>15. Begins(Seen(c), Owed(c))'
  BY <1>1 DEF Answered, Seen, Link, Owed, Begins
<1>16. QED
  BY <1>1, <1>2, <1>6, <1>11, <1>12, <1>14, <1>15, ServedKept

(* A block that is read, what is left at the end of file, and the close of both ends. *)
LEMMA ReadsServerAnswered ==
  ASSUME Held, NEW c \in Clients, ReadsServer(c), ThreadFrame, ~ProxyDies, Heard(c), Answered(c)
  PROVE  Heard(c)' /\ Answered(c)' /\ (px'[c].pc # "done" => Up(c)' = Up(c))
<1>1. px[c].pc = "relay"
  BY DEF ReadsServer
<1>2. /\ ask[c].to = "proxy" /\ Functions /\ px[c] \in PxType /\ GoodConn(back[c]) /\ GoodConn(front[c])
      /\ ask' = ask /\ got' = got /\ todo' = todo /\ tiny' = tiny /\ cgi' = cgi
      /\ px[c].rio \in Rio(AnsByte) /\ px[c].out = <<>> /\ px[c].rio.buf = <<>>
  BY <1>1, Threads DEF Busy, ThreadFrame, clientVars, tinyVars, GoodThread
<1>3. ASSUME NEW n \in ReadSizes(back[c], "near"),
             px' = [px EXCEPT ![c] = Block(c, Copied(Refill(@.rio, SubSeq(back[c].data["near"], 1, n))))],
             back' = [back EXCEPT ![c] = Taken(@, "near", n)], UNCHANGED <<calls, proxy, front, ring>>
      PROVE  Heard(c)' /\ Answered(c)' /\ Up(c)' = Up(c)
  BY <1>1, <1>3, RelayReads
<1>4. ASSUME px' = [px EXCEPT ![c].pc = "write", ![c].out = px[c].rio.usr, ![c].rio.usr = <<>>],
             UNCHANGED <<calls, proxy, netVars>>
      PROVE  Heard(c)' /\ Answered(c)' /\ Up(c)' = Up(c)
  <2>1. PICK r, q : r = px[c].rio /\ q = [r EXCEPT !.usr = <<>>]
    OBVIOUS
  <2>2. r.usr \in Seq(AnsByte) /\ r.buf = <<>> /\ q.usr = <<>> /\ q.buf = <<>> /\ <<>> \in Seq(AnsByte)
    BY <1>2, <2>1, EmptySeq DEF Rio
  <2>3. px'[c] = [px[c] EXCEPT !.pc = "write", !.out = r.usr, !.rio = q]
    BY <1>2, <1>4, <2>1 DEF Functions
  <2>4. px'[c].pc = "write" /\ px'[c].out = r.usr /\ px'[c].rio = q
    BY <1>2, <2>3 DEF PxType
  <2>5. Carried(c) = <<>> ++ (r.usr ++ <<>>) /\ Carried(c)' = r.usr ++ (<<>> ++ <<>>)
    BY <1>1, <1>2, <2>1, <2>2, <2>4 DEF Carried
  <2>6. Carried(c)' = Carried(c)
    BY <2>2, <2>5, Unit
  <2>7. Up(c)' = Up(c) /\ Begins(Seen(c), Owed(c))'
    BY <1>2, <1>4, <2>6 DEF Up, netVars, Answered, Seen, Link, Owed, Begins
  <2>8. QED
    BY <1>1, <1>2, <1>4, <2>4, <2>7, ServedKept DEF netVars
<1>5. ASSUME NEW f \in Shut(front[c], "far"), NEW b \in Shut(back[c], "near"),
             front' = [front EXCEPT ![c] = f], back' = [back EXCEPT ![c] = b],
             px' = [px EXCEPT ![c] = [Idle EXCEPT !.pc = "done"]]
      PROVE  Heard(c)' /\ Answered(c)' /\ px'[c].pc = "done"
  <2>1. "near" \in Ends /\ "far" \in Ends /\ Other("far") = "near"
    BY EndsAre
  <2>2. b.shut = back[c].shut \cup {"near"}
    BY <1>2, <1>5, <2>1, ShutIs
  <2>3. px'[c] = [Idle EXCEPT !.pc = "done"] /\ front'[c] = f /\ back'[c] = b
    BY <1>2, <1>5 DEF Functions
  <2>4. px'[c].pc = "done"
    BY <2>3, IdleIs DEF GoodThread, PxType
  <2>5. PICK n \in 0..Len(front[c].data["near"]) : f.data["near"] = SubSeq(front[c].data["near"], 1, n)
    <3>1. PICK j : j = front[c] /\ GoodConn(j) /\ f \in Shut(j, "far")
      BY <1>2, <1>5
    <3>2. \E n \in 0..Len(j.data[Other("far")]) : f.data[Other("far")] = SubSeq(j.data[Other("far")], 1, n)
      BY <2>1, <3>1, ShutIs
    <3>3. QED
      BY <2>1, <3>1, <3>2
  <2>6. Begins(got[c] ++ SubSeq(front[c].data["near"], 1, n), Owed(c))
    <3>1. Begins(got[c] ++ front[c].data["near"], Owed(c))
      BY <1>2 DEF Answered, Seen, Link
    <3>2. QED
      BY <2>5, <3>1, ArrowsAre, CutShort
  <2>7. Begins(Seen(c), Owed(c))'
    BY <1>2, <2>3, <2>5, <2>6 DEF Seen, Link, Owed, Begins
  <2>8. QED
    BY <2>2, <2>3, <2>4, <2>7, Silenced DEF Alive
<1>6. QED
  BY <1>3, <1>4, <1>5 DEF ReadsServer

(* What the thread writes to its client moves along the answer, or nobody is
   there to receive it. *)
LEMMA WritesClientAnswered ==
  ASSUME Held, Held', NEW c \in Clients, WritesClient(c), ThreadFrame, ~ProxyDies, Heard(c), Answered(c)
  PROVE  Heard(c)' /\ Answered(c)' /\ (px[c].pc = "write" /\ "near" \notin front[c].shut => Up(c)' = Up(c))
<1>1. px[c].pc \in {"write", "error"}
  BY DEF WritesClient
<1>2. /\ ask[c].to = "proxy" /\ Functions /\ px[c] \in PxType /\ GoodConn(front[c]) /\ px[c].out \in Seq(AnsByte)
      /\ ask' = ask /\ got' = got /\ todo' = todo /\ tiny' = tiny /\ cgi' = cgi
      /\ px[c].pc = "write" => px[c].rio \in Rio(AnsByte) /\ px[c].rio.usr = <<>>
  BY <1>1, Threads DEF Busy, ThreadFrame, clientVars, tinyVars, GoodThread
<1>3. PICK n : /\ n = Fits(front[c], "far", px[c].out) /\ n > 0
               /\ front' = [front EXCEPT ![c] = Put(@, "far", SubSeq(px[c].out, 1, n))]
               /\ px' = [px EXCEPT ![c] =
                    IF n < Len(@.out) THEN [px[c] EXCEPT !.out = SubSeq(@, n + 1, Len(@))]
                    ELSE IF @.pc = "error" THEN [Idle EXCEPT !.pc = "leaked"]
                    ELSE Block(c, Copied(@.rio))]
               /\ back' = back
  BY DEF WritesClient
<1>4. PICK k, o, s, t, l : k = front[c] /\ o = px[c].out /\ s = SubSeq(o, 1, n) /\ t = SubSeq(o, n + 1, Len(o)) /\ l = Put(k, "far", s)
  OBVIOUS
<1>5. "far" \in Ends /\ Other("far") = "near" /\ Flow("near") = AnsByte
  BY EndsAre DEF Flow
<1>6. /\ n \in 1..Len(o) /\ n \in Nat /\ Len(o) \in Nat /\ l.shut = k.shut
      /\ "near" \notin k.shut => l.data["near"] = k.data["near"] ++ s
      /\ t \in Seq(AnsByte) /\ (n = Len(o) => t = <<>>)
  BY <1>2, <1>3, <1>4, <1>5, WriteIs
<1>7. s \in Seq(AnsByte) /\ s ++ t = o
  BY <1>2, <1>4, <1>6, Cut
<1>8. "near" \in k.shut => l.data["near"] = k.data["near"]
  <2>1. "near" \in k.shut => Put(k, "far", s).data = k.data
    BY <1>5 DEF Put
  <2>2. QED
    BY <1>4, <2>1
<1>9. front'[c] = l
  BY <1>2, <1>3, <1>4 DEF Functions
<1>10. px'[c] = IF n < Len(o) THEN [px[c] EXCEPT !.out = t]
                ELSE IF px[c].pc = "error" THEN [Idle EXCEPT !.pc = "leaked"] ELSE Block(c, Copied(px[c].rio))
  BY <1>2, <1>3, <1>4 DEF Functions
<1>11. PICK g : g = got[c] ++ k.data["near"] /\ g \in Seq(AnsByte) /\ Seen(c) = g
  BY <1>2, <1>4, ArrowsAre DEF Seen, Link
<1>12. Seen(c)' = IF "near" \in k.shut THEN g ELSE g ++ s
  <2>1. Seen(c)' = got[c] ++ l.data["near"]
    BY <1>2, <1>9 DEF Seen, Link
  <2>2. got[c] ++ (k.data["near"] ++ s) = (got[c] ++ k.data["near"]) ++ s
    <3>1. got[c] \in Seq(AnsByte) /\ k.data["near"] \in Seq(AnsByte)
      BY <1>4, ArrowsAre
    <3>2. QED
      BY <1>7, <3>1, Assoc
  <2>3. QED
    BY <1>6, <1>8, <1>11, <2>1, <2>2
<1>13. Owed(c)' = Owed(c) /\ Begins(g, Owed(c))
  BY <1>2, <1>11 DEF Owed, Answered
<1>14. CASE px[c].pc = "error"
  <2>1. px'[c].pc \in {"error", "leaked"} /\ (px'[c].pc = "error" => px'[c].out = t)
    <3>1. CASE n < Len(o)
      BY <1>2, <1>10, <1>14, <3>1 DEF PxType
    <3>2. CASE ~(n < Len(o))
      <4>1. px'[c] = [Idle EXCEPT !.pc = "leaked"]
        BY <1>10, <1>14, <3>2
      <4>2. px'[c].pc = "leaked"
        BY <4>1, IdleIs DEF PxType, GoodThread
      <4>3. QED
        BY <4>2
    <3>3. QED
      BY <3>1, <3>2
  <2>2. ~Alive(c)'
    BY <1>2, <2>1 DEF Held, GoodAt, Holding, Alive, Serving
  <2>3. "near" \notin k.shut => (g ++ s) ++ t = Owed(c)
    <3>1. "near" \notin k.shut => g ++ o = Owed(c)
      BY <1>4, <1>11, <1>14 DEF Answered
    <3>2. (g ++ s) ++ t = g ++ (s ++ t)
      BY <1>6, <1>7, <1>11, Assoc
    <3>3. QED
      BY <1>7, <3>1, <3>2
  <2>4. g ++ s \in Seq(AnsByte)
    BY <1>7, <1>11, Joined
  <2>5. Begins(Seen(c)', Owed(c))
    BY <1>6, <1>12, <1>13, <2>3, <2>4, BeginsIs
  <2>6. px'[c].pc = "error" /\ "near" \notin front'[c].shut =>
          (got'[c] ++ front'[c].data["near"]) ++ px'[c].out = Owed(c)'
    <3>1. got'[c] ++ front'[c].data["near"] = Seen(c)'
      BY <1>2 DEF Seen, Link
    <3>2. QED
      BY <1>6, <1>9, <1>12, <1>13, <2>1, <2>3, <3>1
  <2>7. Heard(c)' /\ Answered(c)'
    BY <1>13, <2>1, <2>2, <2>5, <2>6 DEF Heard, Answered, Begins
  <2>8. QED
    BY <1>14, <2>7
<1>15. CASE px[c].pc = "write"
  <2>1. PICK r, x : r = px[c].rio /\ x = r.usr ++ r.buf /\ r \in Rio(AnsByte) /\ r.usr = <<>> /\ x \in Seq(AnsByte)
    BY <1>2, <1>15, RioParts, Joined
  <2>2. px'[c].pc \in {"relay", "write"} /\ Carried(c)' = t ++ x
    <3>1. CASE n < Len(o)
      <4>1. px'[c].pc = "write" /\ px'[c].out = t /\ px'[c].rio = r
        BY <1>2, <1>10, <1>15, <2>1, <3>1 DEF PxType
      <4>2. QED
        BY <2>1, <4>1 DEF Carried
    <3>2. CASE ~(n < Len(o))
      <4>1. t = <<>>
        BY <1>6, <3>2
      <4>2. PICK w, p : w = Copied(r) /\ p = Block(c, w) /\ px'[c] = p
        BY <1>10, <1>15, <2>1, <3>2
      <4>3. Len(r.usr) <= MaxLine
        <5>1. Len(<<>>) = 0
          OBVIOUS
        <5>2. QED
          BY <2>1, <5>1, RioAssumption
      <4>4. w \in Rio(AnsByte) /\ w.usr ++ w.buf = r.usr ++ r.buf
        BY <2>1, <4>2, <4>3, CopiedIs
      <4>5. p.pc \in {"relay", "write"} /\ p.out ++ (p.rio.usr ++ p.rio.buf) = w.usr ++ w.buf
        BY <1>2, <4>2, <4>4, BlockCarries
      <4>6. Carried(c)' = x
        BY <2>1, <4>2, <4>4, <4>5 DEF Carried
      <4>7. t ++ x = x
        BY <2>1, <4>1, Unit
      <4>8. QED
        BY <4>2, <4>5, <4>6, <4>7
    <3>3. QED
      BY <3>1, <3>2
  <2>3. Carried(c) = o ++ x
    BY <1>4, <1>15, <2>1 DEF Carried
  <2>4. "near" \notin k.shut => Up(c)' = Up(c)
    <3>1. PICK b : b = back[c].data["near"] /\ b \in Seq(AnsByte)
      BY ArrowsAre
    <3>2. PICK y : y = t ++ x /\ y \in Seq(AnsByte)
      BY <1>6, <2>1, Joined
    <3>3. o ++ x = s ++ y
      <4>1. (s ++ t) ++ x = s ++ (t ++ x)
        BY <1>6, <1>7, <2>1, Assoc
      <4>2. QED
        BY <1>7, <3>2, <4>1
    <3>4. Up(c) = g ++ ((s ++ y) ++ b)
      BY <1>4, <1>11, <2>3, <3>1, <3>3 DEF Up
    <3>5. "near" \notin k.shut => Up(c)' = (g ++ s) ++ (y ++ b)
      <4>1. got'[c] ++ front'[c].data["near"] = Seen(c)'
        BY <1>2 DEF Seen, Link
      <4>2. QED
        BY <1>3, <1>12, <2>2, <3>1, <3>2, <4>1 DEF Up
    <3>6. (g ++ s) ++ (y ++ b) = g ++ ((s ++ y) ++ b)
      BY <1>7, <1>11, <3>1, <3>2, AppendedIs
    <3>7. QED
      BY <3>4, <3>5, <3>6
  <2>5. Alive(c) <=> "near" \notin k.shut
    BY <1>2, <1>4, <1>15 DEF Held, GoodAt, Holding, Alive, Link, Serving
  <2>6. Begins(Seen(c)', Owed(c))
    <3>1. CASE "near" \in k.shut
      BY <1>12, <1>13, <3>1
    <3>2. CASE "near" \notin k.shut
      <4>1. Begins(Up(c)', Owed(c))
        BY <2>4, <2>5, <3>2 DEF Answered
      <4>2. PICK y : y = Carried(c)' ++ back[c].data["near"] /\ y \in Seq(AnsByte)
        <5>1. t ++ x \in Seq(AnsByte) /\ back[c].data["near"] \in Seq(AnsByte)
          BY <1>6, <2>1, Joined, ArrowsAre
        <5>2. QED
          BY <2>2, <5>1, Joined
      <4>3. Up(c)' = Seen(c)' ++ y
        BY <1>2, <1>3, <4>2 DEF Up, Seen, Link
      <4>4. Seen(c)' \in Seq(AnsByte)
        BY <1>7, <1>11, <1>12, Joined
      <4>5. QED
        BY <4>1, <4>2, <4>3, <4>4, BeginsIs
    <3>3. QED
      BY <3>1, <3>2
  <2>7. Heard(c)' /\ Answered(c)'
    BY <1>2, <1>3, <1>4, <1>6, <1>9, <1>13, <1>15, <2>2, <2>4, <2>5, <2>6, ServedKept DEF Begins
  <2>8. QED
    BY <1>4, <2>4, <2>7
<1>16. QED
  BY <1>1, <1>14, <1>15

(* So every step of a thread that does not end the process. *)
LEMMA ThreadAnswered ==
  ASSUME Held, Held', NEW c \in Clients, Thread(c, Listening), ThreadFrame, ~ProxyDies,
         \A d \in Clients : Asked(d) /\ Heard(d) /\ Answered(d), Asked(c)'
  PROVE  \A d \in Clients : Heard(d)' /\ Answered(d)'
<1>1. ASSUME NEW d \in Clients, d # c PROVE Heard(d)' /\ Answered(d)'
  <2>1. Same(d) /\ back'[d] = back[d]
    BY <1>1, ThreadElse
  <2>2. Apart(d)
    BY <2>1 DEF Apart, Same, ThreadFrame
  <2>3. QED
    BY <2>2, ApartKept
<1>2. Heard(c)' /\ Answered(c)'
  <2>1. Asked(c) /\ Heard(c) /\ Answered(c)
    OBVIOUS
  <2>2. QED
    BY <2>1, RequestLineAnswered, HeadersAnswered, OpensServerAnswered, WritesServerAnswered, ReadsServerAnswered,
       WritesClientAnswered DEF Thread
<1>3. QED
  BY <1>1, <1>2

(* When the proxy ends nothing reaches its clients but what is in their sockets. *)
LEMMA ProxyDiesAnswered ==
  ASSUME Held, ProxyDies, ThreadFrame, NEW c \in Clients, Heard(c), Answered(c)
  PROVE  Heard(c)' /\ Answered(c)'
<1>1. /\ px'[c] = Idle /\ front'[c] = Abandoned(front[c], "far") /\ ask' = ask /\ todo' = todo /\ got' = got /\ end' = end
      /\ back'[c] = IF px[c].pc \in Serving THEN Abandoned(back[c], "near") ELSE back[c]
  BY DEF ProxyDies, ThreadFrame, clientVars, Serving
<1>2. GoodConn(front[c]) /\ GoodConn(back[c]) /\ Holding(c) /\ "far" \in Ends /\ "near" \in Ends /\ Other("far") = "near"
  BY EndsAre DEF Held, GoodAt
<1>3. CASE ask[c].to # "proxy"
  <2>1. front[c] = Absent /\ px[c] = Idle
    BY <1>2, <1>3 DEF Holding
  <2>2. front'[c] = front[c] /\ back'[c] = back[c]
    BY <1>1, <1>2, <2>1, IdleIs, AbsentIs DEF Abandoned, Serving
  <2>3. Apart(c)
    BY <1>1, <2>1, <2>2 DEF Apart, ThreadFrame
  <2>4. QED
    BY <2>3, ApartKept
<1>4. CASE ask[c].to = "proxy"
  <2>1. "near" \in back'[c].shut
    <3>1. CASE px[c].pc \in Serving
      <4>1. Abandoned(back[c], "near").shut = back[c].shut \cup {"near"}
        BY <1>2, AbandonedIs
      <4>2. QED
        BY <1>1, <3>1, <4>1
    <3>2. CASE px[c].pc \notin Serving
      BY <1>1, <1>2, <1>4, <3>2 DEF Holding
    <3>3. QED
      BY <3>1, <3>2
  <2>2. front'[c].data["near"] = front[c].data["near"]
    <3>1. Abandoned(front[c], "far").data[Other("far")] = front[c].data[Other("far")]
      BY <1>2, AbandonedIs
    <3>2. QED
      BY <1>1, <1>2, <3>1
  <2>3. Begins(Seen(c), Owed(c))'
    BY <1>1, <1>4, <2>2 DEF Answered, Seen, Link, Owed, Begins
  <2>4. QED
    BY <1>1, <2>1, <2>3, Silenced, IdleIs DEF Alive
<1>5. QED
  BY <1>3, <1>4

(* The start of the proxy, and its main loop. *)
LEMMA WebProxyAnswered ==
  ASSUME Held, Held', WebProxy, \A d \in Clients : Heard(d) /\ Answered(d)
  PROVE  \A d \in Clients : Heard(d)' /\ Answered(d)'
<1>1. ask' = ask /\ todo' = todo /\ got' = got /\ end' = end /\ UNCHANGED tinyVars /\ front' = front /\ back' = back
  BY DEF WebProxy, ProxyListens, ProxyAccept, clientVars, netVars
<1>2. ASSUME NEW d \in Clients, px'[d] = px[d] PROVE Heard(d)' /\ Answered(d)'
  <2>1. Apart(d)
    BY <1>1, <1>2 DEF Apart
  <2>2. QED
    BY <2>1, ApartKept
<1>3. CASE px' = px
  BY <1>2, <1>3
<1>4. CASE ProxyAccept
  <2>1. PICK c \in Clients : c = Head(calls) /\ c \in Queued(calls)
    BY <1>4, Queues DEF GoodQueues, ProxyAccept, Held
  <2>2. PICK p : p = [Idle EXCEPT !.pc = "line"] /\ p.pc = "line"
    <3>1. Idle \in PxType
      BY IdleIs DEF GoodThread
    <3>2. [Idle EXCEPT !.pc = "line"].pc = "line"
      BY <3>1 DEF PxType
    <3>3. QED
      BY <3>2
  <2>3. px' = [px EXCEPT ![c] = p] /\ Functions
    BY <1>4, <2>1, <2>2 DEF ProxyAccept, Held
  <2>4. px'[c] = p /\ \A d \in Clients : d # c => px'[d] = px[d]
    BY <2>3 DEF Functions
  <2>5. ask[c].to = "proxy"
    BY <2>1 DEF Held, GoodAt, Holding
  <2>6. Heard(c)' /\ Answered(c)'
    BY <1>1, <2>2, <2>4, <2>5, ThreadQuiet DEF Serving
  <2>7. QED
    BY <1>2, <2>4, <2>6
<1>5. QED
  BY <1>3, <1>4 DEF WebProxy, ProxyListens

(* The connection of c after a call of c on it; the other connection stays. *)
LEMMA HoldsIs ==
  ASSUME Held, NEW c \in Clients, NEW k, Holds(c, k), ask' = ask
  PROVE  /\ Link(c)' = k
         /\ ask[c].to = "proxy" => front'[c] = k /\ back'[c] = back[c] /\ Link(c) = front[c]
         /\ ask[c].to # "proxy" => back'[c] = k /\ front'[c] = front[c] /\ Link(c) = back[c] /\ front[c] = Absent /\ px[c] = Idle
<1>1. Functions /\ Holding(c)
  BY DEF Held, GoodAt
<1>2. CASE ask[c].to = "proxy"
  BY <1>1, <1>2 DEF Holds, Link, Functions
<1>3. CASE ask[c].to # "proxy"
  BY <1>1, <1>3 DEF Holds, Link, Functions, Holding
<1>4. QED
  BY <1>2, <1>3

(* A client that sends or receives, and closes no end but its own. *)
LEMMA ClientKept ==
  ASSUME NEW c \in Clients, ask' = ask, px' = px, tiny' = tiny, cgi' = cgi, Heard(c), Answered(c), Begins(Seen(c), Owed(c))',
         Alive(c)' => Alive(c) /\ Up(c)' = Up(c), "far" \in back'[c].shut <=> "far" \in back[c].shut,
         "near" \notin front'[c].shut =>
            "near" \notin front[c].shut /\ got'[c] ++ front'[c].data["near"] = got[c] ++ front[c].data["near"],
         Alive(c)' /\ "far" \notin back[c].shut =>
            /\ Stream(c)' = Stream(c)
            /\ back[c].data["far"] = <<>> /\ Coming(c) = <<>> => back'[c].data["far"] = <<>> /\ Coming(c)' = <<>>
  PROVE  Heard(c)' /\ Answered(c)'
<1>1. Sent(c)' = Sent(c) /\ Owed(c)' = Owed(c) /\ Rest(c)' = Rest(c)
  BY DEF Sent, Owed, Rest, Waits, InHand, ToFollow, Missing
<1>2. Heard(c)'
  <2>1. Stream(c)' = Stream(c) => (After(Stream(c), Sent(c)) <=> After(Stream(c), Sent(c))')
    BY <1>1 DEF After
  <2>2. QED
    BY <1>1, <2>1 DEF Heard
<1>3. Answered(c)'
  BY <1>1 DEF Answered, Begins
<1>4. QED
  BY <1>2, <1>3

(* A client that connects has all of its request to send. *)
LEMMA ClientConnectsAnswered ==
  ASSUME Held, Held', NEW c \in Clients, ClientConnects(c), Asked(c), Answered(c)
  PROVE  Heard(c)' /\ Answered(c)'
<1>1. /\ end[c] = "new" /\ px' = px /\ ask' = ask /\ todo' = todo /\ got' = got /\ tiny' = tiny /\ cgi' = cgi /\ Holds(c, Fresh)
      /\ Functions /\ Holding(c)
  BY DEF ClientConnects, tinyVars, Held, GoodAt
<1>2. front[c] = Absent /\ px[c] = Idle /\ back[c] = Absent /\ tiny.conn # c /\ todo[c] = Wire(ask[c]) /\ got[c] = <<>>
  BY <1>1 DEF Holding, Asked
<1>3. \A e \in Ends : Fresh.data[e] = <<>> /\ Absent.data[e] = <<>>
  BY FreshIs, AbsentIs
<1>4. Fresh.data["near"] = <<>> /\ Fresh.data["far"] = <<>> /\ Absent.data["near"] = <<>> /\ <<>> \in Seq(AskByte) /\ <<>> \in Seq(AnsByte)
  BY <1>3, EndsAre, EmptySeq
<1>5. CASE ask[c].to = "proxy"
  <2>1. front'[c] = Fresh
    BY <1>1, <1>5, HoldsIs
  <2>2. QED
    BY <1>1, <1>2, <1>4, <1>5, <2>1, ThreadQuiet, IdleIs DEF Serving
<1>6. CASE ask[c].to # "proxy"
  <2>1. back'[c] = Fresh /\ front'[c] = Absent
    BY <1>1, <1>2, <1>6, HoldsIs
  <2>2. Stream(c)' = Sent(c)'
    <3>1. Stream(c)' = <<>> ++ (<<>> ++ todo[c]) /\ Sent(c)' = Wire(ask[c])
      BY <1>1, <1>2, <1>4, <1>6, <2>1 DEF Stream, AtTiny, Coming, Sent
    <3>2. todo[c] \in Seq(AskByte)
      BY <1>1 DEF Functions
    <3>3. QED
      BY <1>2, <3>1, <3>2, Unit
  <2>3. Seen(c)' = <<>> /\ Up(c)' = <<>>
    <3>1. Carried(c)' = <<>>
      BY <1>1, <1>2, IdleIs DEF Carried
    <3>2. Seen(c)' = <<>> ++ <<>> /\ Up(c)' = (<<>> ++ <<>>) ++ (<<>> ++ <<>>)
      BY <1>1, <1>2, <1>4, <1>6, <2>1, <3>1 DEF Seen, Up, Link
    <3>3. QED
      BY <1>4, <3>2, Unit
  <2>4. Owed(c)' = Owed(c) /\ Owed(c) \in Seq(AnsByte) /\ Rest(c)' = Owed(c)
    BY <1>1, <1>2, AnswersAre DEF Owed, Rest, Waits
  <2>5. <<>> ++ Owed(c) = Owed(c) /\ Begins(<<>>, Owed(c))
    BY <1>4, <2>4, Unit, BeginsIs
  <2>6. Heard(c)'
    BY <1>1, <1>2, <2>2, IdleIs DEF Heard
  <2>7. Answered(c)'
    BY <1>1, <1>2, <2>3, <2>4, <2>5, IdleIs DEF Answered, Begins
  <2>8. QED
    BY <2>6, <2>7
<1>7. QED
  BY <1>5, <1>6

(* A client that sends moves bytes of its request into the connection. *)
LEMMA ClientSendsAnswered ==
  ASSUME Held, NEW c \in Clients, ClientSends(c), Heard(c), Answered(c)
  PROVE  Heard(c)' /\ Answered(c)'
<1>1. /\ px' = px /\ ask' = ask /\ got' = got /\ tiny' = tiny /\ cgi' = cgi /\ Functions /\ todo[c] \in Seq(AskByte)
      /\ GoodConn(Link(c)) /\ todo[c] # <<>>
  BY LinkGood DEF ClientSends, tinyVars, proxyVars, Held, Functions
<1>2. PICK k, o : k = Link(c) /\ o = todo[c] /\ GoodConn(k) /\ o \in Seq(AskByte) /\ o # <<>>
  BY <1>1
<1>3. PICK n : n = Fits(k, "near", o) /\ n > 0 /\ Holds(c, Put(k, "near", SubSeq(o, 1, n)))
               /\ todo' = [todo EXCEPT ![c] = SubSeq(o, n + 1, Len(o))]
  BY <1>2 DEF ClientSends
<1>4. PICK s, t, l : s = SubSeq(o, 1, n) /\ t = SubSeq(o, n + 1, Len(o)) /\ l = Put(k, "near", s)
  OBVIOUS
<1>5. "near" \in Ends /\ Other("near") = "far" /\ Flow("far") = AskByte
  BY EndsAre DEF Flow
<1>6. /\ n \in 1..Len(o) /\ n \in Nat /\ l.shut = k.shut /\ l.data["near"] = k.data["near"] /\ t \in Seq(AskByte)
      /\ "far" \notin k.shut => l.data["far"] = k.data["far"] ++ s
  BY <1>2, <1>3, <1>4, <1>5, WriteIs
<1>7. s \in Seq(AskByte) /\ s ++ t = o
  <2>1. SubSeq(o, 1, n) \in Seq(AskByte) /\ SubSeq(o, 1, n) ++ SubSeq(o, n + 1, Len(o)) = o
    <3>1. n \in Nat /\ n <= Len(o)
      BY <1>2, <1>6, LenProperties
    <3>2. QED
      BY <1>2, <3>1, Cut
  <2>2. QED
    BY <1>4, <2>1
<1>8. todo'[c] = t /\ Holds(c, l)
  BY <1>1, <1>3, <1>4 DEF Functions
<1>9. Link(c)' = l
  BY <1>1, <1>8, HoldsIs
<1>10. Begins(Seen(c), Owed(c))'
  BY <1>1, <1>2, <1>6, <1>9 DEF Answered, Seen, Owed, Begins
<1>11. CASE ask[c].to = "proxy"
  <2>1. front'[c] = l /\ back'[c] = back[c] /\ k = front[c]
    BY <1>1, <1>2, <1>8, <1>11, HoldsIs
  <2>2. (Alive(c)' <=> Alive(c)) /\ Up(c)' = Up(c) /\ Coming(c)' = Coming(c) /\ Stream(c)' = Stream(c)
    BY <1>1, <1>2, <1>6, <1>9, <1>11, <2>1 DEF Alive, Up, Carried, Coming, Stream, AtTiny
  <2>3. QED
    BY <1>1, <1>6, <1>10, <2>1, <2>2, ClientKept
<1>12. CASE ask[c].to # "proxy"
  <2>1. back'[c] = l /\ front'[c] = front[c] /\ k = back[c]
    BY <1>1, <1>2, <1>8, <1>12, HoldsIs
  <2>2. (Alive(c)' <=> Alive(c)) /\ Up(c)' = Up(c)
    BY <1>1, <1>2, <1>6, <1>9, <2>1 DEF Alive, Up, Carried
  <2>3. Coming(c) = o /\ Coming(c)' = t
    BY <1>1, <1>2, <1>8, <1>12 DEF Coming
  <2>4. "far" \notin k.shut => Stream(c)' = Stream(c)
    <3>1. k.data["far"] \in Seq(AskByte)
      BY <1>2 DEF GoodConn
    <3>2. (k.data["far"] ++ s) ++ t = k.data["far"] ++ o
      BY <1>6, <1>7, <3>1, Assoc
    <3>3. QED
      BY <1>1, <1>6, <2>1, <2>3, <3>2 DEF Stream, AtTiny
  <2>5. QED
    BY <1>1, <1>2, <1>6, <1>10, <2>1, <2>2, <2>3, <2>4, ClientKept
<1>13. QED
  BY <1>11, <1>12

(* A client that closes its end has received the beginning of its answer. *)
LEMMA ClientEndsAnswered ==
  ASSUME Held, NEW c \in Clients, NEW k \in Shut(Link(c), "near"), Holds(c, k), UNCHANGED <<px, tinyVars, ask, todo, got>>,
         Heard(c), Answered(c)
  PROVE  Heard(c)' /\ Answered(c)'
<1>1. /\ px' = px /\ ask' = ask /\ got' = got /\ todo' = todo /\ tiny' = tiny /\ cgi' = cgi /\ Functions
      /\ Link(c)' = k /\ GoodConn(Link(c))
  BY LinkGood, HoldsIs DEF tinyVars, Held
<1>2. k.shut = Link(c).shut \cup {"near"} /\ k.data["near"] = <<>>
  BY <1>1, NearShut
<1>3. ~Alive(c)'
  BY <1>1, <1>2 DEF Alive
<1>4. Begins(Seen(c), Owed(c))'
  <2>1. PICK g, f : g = got[c] /\ f = Link(c).data["near"] /\ g \in Seq(AnsByte) /\ f \in Seq(AnsByte)
    BY ArrowsAre DEF Link
  <2>2. Begins(g ++ f, Owed(c))
    BY <2>1 DEF Answered, Seen
  <2>3. Begins(g, Owed(c))
    BY <2>1, <2>2, BeginsIs
  <2>4. Seen(c)' = g
    <3>1. Seen(c)' = g ++ <<>>
      BY <1>1, <1>2, <2>1 DEF Seen
    <3>2. QED
      BY <2>1, <3>1, Unit
  <2>5. QED
    BY <1>1, <2>3, <2>4 DEF Owed, Begins
<1>5. ("far" \in back'[c].shut <=> "far" \in back[c].shut) /\ ("near" \notin front'[c].shut => front'[c] = front[c])
  BY <1>1, <1>2, HoldsIs
<1>6. QED
  BY <1>1, <1>3, <1>4, <1>5, ClientKept

(* What the client takes out of its socket it has. *)
LEMMA ClientTakes ==
  ASSUME Held, NEW c \in Clients, UNCHANGED <<px, tinyVars, ask, todo>>, Heard(c), Answered(c),
         got' = [got EXCEPT ![c] = @ \o Link(c).data["near"]], Holds(c, Taken(Link(c), "near", SockBuf))
  PROVE  Heard(c)' /\ Answered(c)' /\ Seen(c)' = Seen(c) /\ Up(c)' = Up(c)
<1>1. /\ px' = px /\ ask' = ask /\ todo' = todo /\ tiny' = tiny /\ cgi' = cgi /\ Functions /\ GoodConn(Link(c))
  BY LinkGood DEF tinyVars, Held
<1>2. PICK k, g, d, l : k = Link(c) /\ g = got[c] /\ d = k.data["near"] /\ l = Taken(k, "near", SockBuf) /\ GoodConn(k)
                        /\ g \in Seq(AnsByte) /\ d \in Seq(AnsByte) /\ <<>> \in Seq(AnsByte)
  BY <1>1, ArrowsAre, EmptySeq DEF Link
<1>3. "near" \in Ends /\ Other("near") = "far" /\ SockBuf \in Nat
  BY EndsAre
<1>4. l.data["near"] = <<>> /\ l.data["far"] = k.data["far"] /\ l.shut = k.shut
  <2>1. /\ l.data["near"] = SubSeq(k.data["near"], SockBuf + 1, Len(k.data["near"]))
        /\ l.data["far"] = k.data["far"] /\ l.shut = k.shut
    <3>1. /\ Taken(k, "near", SockBuf).data["near"] = SubSeq(k.data["near"], SockBuf + 1, Len(k.data["near"]))
          /\ Taken(k, "near", SockBuf).data["far"] = k.data["far"] /\ Taken(k, "near", SockBuf).shut = k.shut
      BY <1>2, EndsAre, TakenNear
    <3>2. QED
      BY <1>2, <1>3, <3>1
  <2>2. SockBuf >= Len(d)
    <3>1. Len(k.data["near"]) \in 0..SockBuf
      BY <1>2, <1>3, ConnData
    <3>2. QED
      BY <1>2, <1>3, <3>1
  <2>3. QED
    BY <1>2, <1>3, <2>1, <2>2, Cut
<1>5. got'[c] = g ++ d /\ Link(c)' = l
  <2>1. got'[c] = g \o d
    BY <1>1, <1>2 DEF Functions
  <2>2. QED
    BY <1>1, <1>2, <2>1, HoldsIs DEF ++
<1>6. Seen(c)' = Seen(c)
  <2>1. Seen(c)' = (g ++ d) ++ <<>> /\ Seen(c) = g ++ d
    BY <1>2, <1>4, <1>5 DEF Seen
  <2>2. g ++ d \in Seq(AnsByte)
    BY <1>2, Joined
  <2>3. QED
    BY <2>1, <2>2, Unit
<1>7. Begins(Seen(c), Owed(c))'
  BY <1>1, <1>6 DEF Answered, Owed, Begins
<1>8. CASE ask[c].to = "proxy"
  <2>1. front'[c] = l /\ back'[c] = back[c] /\ k = front[c]
    BY <1>1, <1>2, <1>8, HoldsIs
  <2>2. got'[c] ++ front'[c].data["near"] = got[c] ++ front[c].data["near"]
    BY <1>1, <1>2, <1>5, <1>6, <1>8, <2>1 DEF Seen, Link
  <2>3. (Alive(c)' <=> Alive(c)) /\ Up(c)' = Up(c) /\ Coming(c)' = Coming(c) /\ Stream(c)' = Stream(c)
    BY <1>1, <1>2, <1>4, <1>5, <1>8, <2>1, <2>2 DEF Alive, Up, Carried, Coming, Stream, AtTiny
  <2>4. Heard(c)' /\ Answered(c)'
    BY <1>1, <1>4, <1>7, <2>1, <2>2, <2>3, ClientKept
  <2>5. QED
    BY <1>6, <2>3, <2>4
<1>9. CASE ask[c].to # "proxy"
  <2>1. back'[c] = l /\ front'[c] = front[c] /\ k = back[c] /\ front[c] = Absent /\ px[c] = Idle
    BY <1>1, <1>2, <1>9, HoldsIs
  <2>2. front[c].data["near"] = <<>> /\ "near" \in front[c].shut
    BY <2>1, AbsentIs, EndsAre
  <2>3. Carried(c) = <<>> /\ Carried(c)' = <<>>
    BY <1>1, <2>1, IdleIs DEF Carried
  <2>4. Up(c)' = ((g ++ d) ++ <<>>) ++ (<<>> ++ <<>>) /\ Up(c) = (g ++ <<>>) ++ (<<>> ++ d)
    BY <1>2, <1>4, <1>5, <2>1, <2>2, <2>3 DEF Up
  <2>5. Up(c)' = Up(c)
    <3>1. g ++ d \in Seq(AnsByte)
      BY <1>2, Joined
    <3>2. (g ++ d) ++ <<>> = g ++ d
      BY <3>1, Unit
    <3>3. g ++ <<>> = g /\ <<>> ++ d = d /\ <<>> ++ <<>> = <<>>
      BY <1>2, Unit
    <3>4. QED
      BY <2>4, <3>2, <3>3
  <2>6. (Alive(c)' <=> Alive(c)) /\ Coming(c)' = Coming(c) /\ Stream(c)' = Stream(c)
    BY <1>1, <1>2, <1>4, <1>5, <2>1 DEF Alive, Coming, Stream, AtTiny
  <2>7. Heard(c)' /\ Answered(c)'
    BY <1>1, <1>4, <1>7, <2>1, <2>2, <2>5, <2>6, ClientKept
  <2>8. QED
    BY <1>6, <2>5, <2>7
<1>10. QED
  BY <1>6, <1>8, <1>9

(* So every step in which it reads. *)
LEMMA ClientReceivesAnswered ==
  ASSUME Held, NEW c \in Clients, ClientReceives(c), Heard(c), Answered(c)
  PROVE  Heard(c)' /\ Answered(c)'
<1>1. /\ px' = px /\ ask' = ask /\ todo' = todo /\ tiny' = tiny /\ cgi' = cgi /\ Functions /\ GoodConn(Link(c))
  BY LinkGood DEF ClientReceives, tinyVars, proxyVars, Held
<1>2. CASE got' = got /\ \E k \in Shut(Link(c), "near") : Holds(c, k)
  BY <1>1, <1>2, ClientEndsAnswered DEF tinyVars
<1>3. CASE got' = [got EXCEPT ![c] = @ \o Link(c).data["near"]] /\ Holds(c, Taken(Link(c), "near", SockBuf))
  BY <1>1, <1>3, ClientTakes DEF tinyVars
<1>4. QED
  BY <1>2, <1>3 DEF ClientReceives

(* Every step of a client. *)
LEMMA ClientAnswered ==
  ASSUME Held, Held', NEW c \in Clients, ClientStep(c), \A d \in Clients : Asked(d) /\ Heard(d) /\ Answered(d)
  PROVE  \A d \in Clients : Heard(d)' /\ Answered(d)'
<1>1. ASSUME NEW d \in Clients, d # c PROVE Heard(d)' /\ Answered(d)'
  <2>1. Same(d) /\ back'[d] = back[d]
    BY <1>1, ClientElse
  <2>2. UNCHANGED tinyVars
    BY DEF ClientStep, ClientConnects, ClientSends, ClientReceives, ClientLeaves
  <2>3. Apart(d)
    BY <2>1, <2>2 DEF Apart, Same
  <2>4. QED
    BY <2>3, ApartKept
<1>2. Asked(c) /\ Heard(c) /\ Answered(c)
  OBVIOUS
<1>3. ASSUME ClientLeaves(c) PROVE Heard(c)' /\ Answered(c)'
  BY <1>2, <1>3, ClientEndsAnswered DEF ClientLeaves, tinyVars, proxyVars
<1>4. Heard(c)' /\ Answered(c)'
  BY <1>2, <1>3, ClientConnectsAnswered, ClientSendsAnswered, ClientReceivesAnswered DEF ClientStep
<1>5. QED
  BY <1>1, <1>4
-----------------------------------------------------------------------------
(* The request as tiny reads it: its first byte, and its blank line. *)
LEMMA SentIs ==
  ASSUME Held, NEW c \in Clients, Asked(c), Alive(c)
  PROVE  /\ Sent(c) \in Seq(AskByte)
         /\ Sent(c) # <<>> =>
              \/ Sent(c)[1][1] # "GET" /\ ask[c].form = "post" /\ ask[c].to # "proxy"
              \/ Sent(c)[1][1] = "GET" /\ PathOf(Sent(c)[1]) = ask[c].path /\ ask[c].form \notin {"post", "silent"}
         /\ \A i \in 1..Len(Sent(c)) : Sent(c)[i] = <<"CR">> => i = Len(Sent(c)) - 1
<1>1. ask[c] \in Requests /\ Holding(c)
  BY DEF Held, GoodAt, Functions
<1>2. CASE ask[c].to = "proxy"
  <2>1. px[c].pc \in Serving /\ proxy = "up"
    BY <1>1, <1>2, IdleIs DEF Holding, Alive, Serving
  <2>2. ask[c].form \notin {"post", "silent"}
    BY <1>2, <2>1 DEF Asked
  <2>3. PICK a, l, h, e : a = <<"GET", "", ask[c].path>> /\ l = <<"LF">> /\ h = <<"hdr">> /\ e = <<"CR">>
    OBVIOUS
  <2>4. a # e /\ l # e /\ h # e /\ a[1] = "GET" /\ PathOf(a) = ask[c].path
    BY <2>3 DEF PathOf
  <2>5. Sent(c) = <<a, l, h, e, l>>
    BY <1>2, <2>3 DEF Sent, rebuild_request, PathOf, Target
  <2>6. Sent(c) \in Seq(AskByte)
    <3>1. Target(ask[c]) \in GetLine
      BY <1>1 DEF Requests, Target, GetLine, Text
    <3>2. QED
      BY <1>2, <3>1, RebuiltIs DEF Sent
  <2>7. PICK w : w = Sent(c) /\ w \in Seq(AskByte) /\ w = <<a, l, h, e, l>>
    BY <2>5, <2>6
  <2>8. Len(w) = 5 /\ w[1] = a /\ w[2] = l /\ w[3] = h /\ w[4] = e /\ w[5] = l
    BY <2>7
  <2>9. \A i \in 1..Len(w) : w[i] = e => i = Len(w) - 1
    <3>1. \A i \in 1..5 : i = 1 \/ i = 2 \/ i = 3 \/ i = 4 \/ i = 5
      OBVIOUS
    <3>2. QED
      BY <2>4, <2>8, <3>1
  <2>10. QED
    BY <2>2, <2>3, <2>4, <2>7, <2>8, <2>9
<1>3. CASE ask[c].to # "proxy"
  <2>1. PICK r, w : r = ask[c] /\ w = Wire(r) /\ Sent(c) = w /\ r \in Requests
    BY <1>1, <1>3 DEF Sent
  <2>2. /\ w \in Seq(AskByte)
        /\ w # <<>> => w[1] = (IF r.form = "post" THEN <<"POST">> ELSE Target(r)) /\ r.form # "silent"
        /\ \A i \in 1..Len(w) : w[i] = <<"CR">> => i = Len(w) - 1
    BY <2>1, WireIs
  <2>3. Target(r)[1] = "GET" /\ PathOf(Target(r)) = r.path /\ <<"POST">>[1] # "GET"
    BY DEF Target, PathOf
  <2>4. QED
    BY <1>3, <2>1, <2>2, <2>3
<1>4. QED
  BY <1>2, <1>3

(* The parts of the stream to tiny, and of the answer still to come, are bytes. *)
LEMMA TowardsAre ==
  ASSUME Held, NEW c \in Clients
  PROVE  /\ AtTiny(c) \in Seq(AskByte) /\ back[c].data["far"] \in Seq(AskByte) /\ Coming(c) \in Seq(AskByte)
         /\ back[c].data["far"] ++ Coming(c) \in Seq(AskByte) /\ Stream(c) \in Seq(AskByte)
<1>1. AtTiny(c) \in Seq(AskByte)
  <2>1. tiny.rio.usr \in Seq(AskByte) /\ tiny.rio.buf \in Seq(AskByte)
    <3>1. tiny.rio \in Rio(AskByte)
      BY DEF Held, GoodTiny
    <3>2. QED
      BY <3>1, RioParts
  <2>2. QED
    BY <2>1, Joined, EmptySeq DEF AtTiny
<1>2. back[c].data["far"] \in Seq(AskByte)
  BY DEF Held, GoodAt, GoodConn
<1>3. Coming(c) \in Seq(AskByte)
  BY EmptySeq DEF Held, GoodAt, GoodThread, Functions, Coming
<1>4. QED
  BY <1>1, <1>2, <1>3, Joined DEF Stream

(* What tiny has still to write is bytes of an answer. *)
LEMMA RestIs ==
  ASSUME Held, NEW c \in Clients
  PROVE  /\ InHand \in Seq(AnsByte) /\ ToFollow \in Seq(AnsByte) /\ Missing(c) \in Seq(AnsByte)
         /\ ToFollow ++ Missing(c) \in Seq(AnsByte) /\ Rest(c) \in Seq(AnsByte)
<1>1. <<>> \in Seq(AnsByte)
  BY EmptySeq
<1>2. InHand \in Seq(AnsByte)
  BY <1>1 DEF InHand, Held, GoodTiny
<1>3. ToFollow \in Seq(AnsByte)
  <2>1. tiny.path \in Text
    BY DEF Held, GoodTiny
  <2>2. QED
    BY <1>1, <2>1, AnswerBytes DEF ToFollow
<1>4. Missing(c) \in Seq(AnsByte) /\ Owed(c) \in Seq(AnsByte)
  BY AnswersAre
<1>5. ToFollow ++ Missing(c) \in Seq(AnsByte)
  BY <1>3, <1>4, Joined
<1>6. InHand ++ (ToFollow ++ Missing(c)) \in Seq(AnsByte)
  BY <1>2, <1>5, Joined
<1>7. QED
  BY <1>2, <1>3, <1>4, <1>5, <1>6 DEF Rest

(* The work of tiny for c does not concern the others. *)
LEMMA TinyOthers ==
  ASSUME Held, NEW c \in Clients, tiny.conn \in {c, NoConn}, tiny'.conn \in {c, NoConn},
         back' = [back EXCEPT ![c] = back'[c]], UNCHANGED <<proxyVars, front, clientVars>>,
         NEW d \in Clients, d # c, Heard(d), Answered(d)
  PROVE  Heard(d)' /\ Answered(d)'
<1>1. Functions /\ d # NoConn
  BY WebAssumption DEF Held
<1>2. back'[d] = back[d]
  BY <1>1 DEF Functions
<1>3. Apart(d)
  BY <1>1, <1>2 DEF Apart, proxyVars, clientVars
<1>4. QED
  BY <1>3, ApartKept

(* Nothing reaches a client of which somebody on the way hung up. *)
LEMMA TinyAway ==
  ASSUME NEW c \in Clients, UNCHANGED <<proxyVars, front, clientVars>>, back'[c].shut = back[c].shut,
         GoodConn(back[c]), GoodConn(back'[c]), ~Alive(c), Heard(c), Answered(c)
  PROVE  Heard(c)' /\ Answered(c)'
<1>1. front' = front /\ px' = px /\ ask' = ask /\ got' = got
  BY DEF proxyVars, clientVars
<1>2. ~Alive(c)'
  BY <1>1 DEF Alive, Link
<1>3. Link(c)'.data["near"] = Link(c).data["near"]
  <2>1. CASE ask[c].to = "proxy"
    BY <1>1, <2>1 DEF Link
  <2>2. CASE ask[c].to # "proxy"
    <3>1. "near" \in back[c].shut /\ "near" \in Ends
      BY <2>2, EndsAre DEF Alive, Link
    <3>2. back[c].data["near"] = <<>> /\ back'[c].data["near"] = <<>>
      BY <3>1 DEF GoodConn
    <3>3. QED
      BY <1>1, <2>2, <3>2 DEF Link
  <2>3. QED
    BY <2>1, <2>2
<1>4. Seen(c)' = Seen(c) /\ Owed(c)' = Owed(c)
  BY <1>1, <1>3 DEF Seen, Owed
<1>5. QED
  BY <1>1, <1>2, <1>4 DEF Heard, Answered, Begins

(* What is in the socket of a client of tiny is all that is on its way. *)
LEMMA SeenIsUp ==
  ASSUME Held, NEW c \in Clients, ask[c].to # "proxy"
  PROVE  Up(c) = Seen(c)
<1>1. front[c] = Absent /\ px[c] = Idle
  BY DEF Held, GoodAt, Holding
<1>2. \A e \in Ends : Absent.data[e] = <<>>
  BY AbsentIs
<1>3. front[c].data["near"] = <<>> /\ Carried(c) = <<>>
  BY <1>1, <1>2, IdleIs, EndsAre DEF Carried
<1>4. PICK g, b : g = got[c] /\ b = back[c].data["near"] /\ g \in Seq(AnsByte) /\ b \in Seq(AnsByte)
  BY ArrowsAre
<1>5. Up(c) = (g ++ <<>>) ++ (<<>> ++ b) /\ Seen(c) = g ++ b
  BY <1>3, <1>4 DEF Up, Seen, Link
<1>6. QED
  BY <1>4, <1>5, Unit

(* What the flows are, in a state and in the next one. *)
FlowsOf(c) ==
  /\ Up(c) \in Seq(AnsByte) /\ Seen(c) \in Seq(AnsByte) /\ Rest(c) \in Seq(AnsByte)
  /\ ask[c].to # "proxy" => Up(c) = Seen(c)

(* In every state that the layer Held allows, *)
LEMMA FlowsAre == Held => \A c \in Clients : FlowsOf(c)
BY ArrowsAre, RestIs, SeenIsUp DEF FlowsOf

(* and in the state after a step that keeps it. *)
LEMMA FlowsNext == Held' => (\A c \in Clients : FlowsOf(c))'
BY FlowsAre, PTL

(* Tiny, or the program it forks, at work for c. *)
LEMMA TinyWorked ==
  ASSUME Held, Held', NEW c \in Clients, tiny.conn = c, tiny'.conn = c,
         back' = [back EXCEPT ![c] = back'[c]], UNCHANGED <<proxyVars, front, clientVars>>, back'[c].shut = back[c].shut,
         \A d \in Clients : Heard(d) /\ Answered(d),
         Alive(c) => Heard(c)' /\ Up(c)' ++ Rest(c)' = Owed(c)
  PROVE  \A d \in Clients : Heard(d)' /\ Answered(d)'
<1>1. ASSUME NEW d \in Clients, d # c PROVE Heard(d)' /\ Answered(d)'
  BY <1>1, TinyOthers
<1>2. CASE ~Alive(c)
  <2>1. GoodConn(back[c]) /\ GoodConn(back'[c])
    BY DEF Held, GoodAt
  <2>2. QED
    BY <1>1, <1>2, <2>1, TinyAway
<1>3. CASE Alive(c)
  <2>1. front' = front /\ px' = px /\ ask' = ask /\ got' = got /\ Owed(c)' = Owed(c)
    BY DEF proxyVars, clientVars, Owed
  <2>2. Up(c)' \in Seq(AnsByte) /\ Rest(c)' \in Seq(AnsByte)
    BY FlowsNext DEF FlowsOf
  <2>3. Begins(Up(c)', Owed(c))
    BY <1>3, <2>2, BeginsIs
  <2>4. Begins(Seen(c)', Owed(c))
    <3>1. CASE ask[c].to = "proxy"
      <4>1. Seen(c)' = Seen(c)
        BY <2>1, <3>1 DEF Seen, Link
      <4>2. QED
        BY <4>1 DEF Answered
    <3>2. CASE ask[c].to # "proxy"
      <4>1. Up(c)' = Seen(c)'
        BY <2>1, <3>2, FlowsNext DEF FlowsOf
      <4>2. QED
        BY <2>3, <4>1
    <3>3. QED
      BY <3>1, <3>2
  <2>5. Answered(c)'
    BY <1>3, <2>1, <2>3, <2>4 DEF Answered, Begins
  <2>6. QED
    BY <1>1, <1>3, <2>5
<1>4. QED
  BY <1>2, <1>3

(* When tiny ends its connections carry nothing more. *)
LEMMA TinyDiesAnswered ==
  ASSUME Held, Held', TinyDies, UNCHANGED clientVars, tiny.pc \notin {"starting", "wait"}, NEW c \in Clients, Heard(c), Answered(c)
  PROVE  Heard(c)' /\ Answered(c)'
<1>1. /\ front' = front /\ px' = px /\ ask' = ask /\ got' = got /\ todo' = todo
      /\ back'[c] = back[c] \/ back'[c] = Abandoned(back[c], "far")
  BY DEF TinyDies, proxyVars, clientVars
<1>2. /\ GoodConn(back[c]) /\ "far" \in Ends /\ Other("far") = "near" /\ tiny \in TinyType /\ c # NoConn
  BY EndsAre, WebAssumption DEF Held, GoodAt, GoodTiny, TinyType
<1>3. tiny'.pc = "down" /\ tiny'.conn = NoConn
  BY <1>2 DEF TinyDies, TinyType
<1>4. "far" \in back'[c].shut
  BY <1>2, <1>3 DEF Held, GoodAt, Holding
<1>5. back'[c].data["near"] = back[c].data["near"] /\ ("near" \in back'[c].shut <=> "near" \in back[c].shut)
  <2>1. /\ Abandoned(back[c], "far").data[Other("far")] = back[c].data[Other("far")]
        /\ Abandoned(back[c], "far").shut = back[c].shut \cup {"far"}
    BY <1>2, AbandonedIs
  <2>2. QED
    BY <1>1, <1>2, <2>1
<1>6. Seen(c)' = Seen(c) /\ Up(c)' = Up(c) /\ Owed(c)' = Owed(c) /\ (Alive(c)' <=> Alive(c))
  BY <1>1, <1>5 DEF Seen, Link, Up, Carried, Owed, Alive
<1>7. QED
  BY <1>1, <1>4, <1>6 DEF Heard, Answered, Begins

(* Tiny starts, and takes the first connection that queues. *)
LEMMA TinyListensAnswered ==
  ASSUME Held, TinyListens, UNCHANGED clientVars, NEW c \in Clients, Heard(c), Answered(c)
  PROVE  Heard(c)' /\ Answered(c)'
<1>1. tiny \in TinyType /\ tiny.conn = NoConn /\ c # NoConn
  BY WebAssumption DEF TinyListens, Held, GoodTiny, TinyType
<1>2. tiny'.conn = tiny.conn
  BY <1>1 DEF TinyListens, TinyType
<1>3. Apart(c)
  BY <1>1, <1>2 DEF TinyListens, Apart, netVars, proxyVars, clientVars
<1>4. QED
  BY <1>3, ApartKept

(* A connection that tiny takes from its queue: it has read nothing of it. *)
LEMMA TinyAcceptAnswered ==
  ASSUME Held, TinyAccept, UNCHANGED clientVars, \A d \in Clients : Heard(d) /\ Answered(d)
  PROVE  \A d \in Clients : Heard(d)' /\ Answered(d)'
<1>1. PICK c \in Clients : c = Head(ring) /\ c \in Queued(ring)
  BY Queues DEF GoodQueues, TinyAccept, Held
<1>2. tiny \in TinyType /\ tiny.pc = "accept" /\ tiny.conn = NoConn /\ c # NoConn /\ Holding(c) /\ Heard(c) /\ Answered(c)
  BY WebAssumption DEF TinyAccept, Held, GoodTiny, TinyType, GoodAt
<1>3. tiny'.conn = c /\ tiny'.pc = "line" /\ tiny'.rio = rio_readinitb
  BY <1>1, <1>2 DEF TinyAccept, TinyType
<1>4. front' = front /\ back' = back /\ px' = px /\ ask' = ask /\ got' = got /\ todo' = todo /\ cgi' = cgi
  BY DEF TinyAccept, proxyVars, clientVars
<1>5. back' = [back EXCEPT ![c] = back'[c]]
  BY <1>4 DEF Held, Functions
<1>6. ASSUME NEW d \in Clients, d # c PROVE Heard(d)' /\ Answered(d)'
  BY <1>2, <1>3, <1>5, <1>6, TinyOthers DEF TinyAccept
<1>7. "far" \notin back[c].shut
  BY <1>1, <1>2 DEF Holding
<1>8. /\ (Alive(c)' <=> Alive(c)) /\ Sent(c)' = Sent(c) /\ Seen(c)' = Seen(c) /\ Up(c)' = Up(c) /\ Owed(c)' = Owed(c)
      /\ Rest(c) = Owed(c) /\ Rest(c)' = Owed(c)
  BY <1>2, <1>3, <1>4 DEF Alive, Link, Sent, Seen, Up, Carried, Owed, Rest, Waits
<1>9. Stream(c)' = Stream(c)
  <2>1. AtTiny(c) = <<>>
    BY <1>2 DEF AtTiny
  <2>2. AtTiny(c)' = <<>>
    <3>1. rio_readinitb.usr = <<>> /\ rio_readinitb.buf = <<>> /\ <<>> \in Seq(AskByte)
      BY RioInit, EmptySeq
    <3>2. AtTiny(c)' = <<>> ++ <<>>
      BY <1>3, <3>1 DEF AtTiny
    <3>3. QED
      BY <3>1, <3>2, Unit
  <2>3. QED
    BY <1>4, <2>1, <2>2 DEF Stream, Coming
<1>10. Heard(c)'
  BY <1>2, <1>3, <1>4, <1>8, <1>9 DEF Heard
<1>11. Answered(c)'
  BY <1>2, <1>4, <1>8 DEF Answered, Begins
<1>12. QED
  BY <1>6, <1>10, <1>11

(* What tiny reads moves along the stream. *)
LEMMA TinyReadsAnswered ==
  ASSUME Held, Held', tiny.pc \in Reading, TinyReads, UNCHANGED clientVars, \A d \in Clients : Heard(d) /\ Answered(d)
  PROVE  \A d \in Clients : Heard(d)' /\ Answered(d)'
<1>1. PICK c \in Clients : c = tiny.conn /\ GoodConn(back[c]) /\ tiny \in TinyType /\ Functions /\ Heard(c) /\ Answered(c)
  BY TinyServes DEF Reading, Held
<1>2. PICK n \in ReadSizes(back[c], "far") :
        /\ tiny' = [tiny EXCEPT !.rio = Refill(@, SubSeq(back[c].data["far"], 1, n))]
        /\ back' = [back EXCEPT ![c] = Taken(@, "far", n)]
  BY <1>1 DEF TinyReads
<1>3. front' = front /\ px' = px /\ ask' = ask /\ got' = got /\ todo' = todo /\ cgi' = cgi /\ UNCHANGED <<proxyVars, front, clientVars>>
  BY DEF TinyReads, proxyVars, clientVars
<1>4. PICK k, s, t, l, r, q : /\ k = back[c] /\ s = SubSeq(k.data["far"], 1, n) /\ t = SubSeq(k.data["far"], n + 1, Len(k.data["far"]))
                              /\ l = Taken(k, "far", n) /\ r = tiny.rio /\ q = Refill(r, s) /\ GoodConn(k)
  BY <1>1
<1>5. "far" \in Ends /\ Other("far") = "near" /\ Flow("far") = AskByte
  BY EndsAre DEF Flow
<1>6. n \in Nat /\ n <= Len(k.data["far"]) /\ s \in Seq(AskByte) /\ k.data["far"] \in Seq(AskByte)
  <2>1. n \in 1..RioBuf /\ n <= Len(k.data["far"]) /\ SubSeq(k.data["far"], 1, n) \in Seq(Flow("far"))
    BY <1>2, <1>4, <1>5, ReadSizesAre
  <2>2. QED
    BY <1>4, <1>5, <2>1 DEF GoodConn
<1>7. t \in Seq(AskByte) /\ s ++ t = k.data["far"]
  BY <1>4, <1>6, Cut
<1>8. l.data["far"] = t /\ l.data["near"] = k.data["near"] /\ l.shut = k.shut
  <2>1. /\ Taken(k, "far", n).data["far"] = SubSeq(k.data["far"], n + 1, Len(k.data["far"]))
        /\ Taken(k, "far", n).data["near"] = k.data["near"] /\ Taken(k, "far", n).shut = k.shut
    BY <1>4, <1>6, TakenFar
  <2>2. QED
    BY <1>4, <1>5, <2>1
<1>9. q.buf = s /\ q.usr = r.usr ++ r.buf
  <2>1. r \in Rio(AskByte)
    BY <1>1, <1>4 DEF TinyType
  <2>2. q = Refill(r, s) /\ s \in Seq(AskByte)
    BY <1>4, <1>6
  <2>3. QED
    BY <2>1, <2>2, RefillIs
<1>10. tiny'.conn = c /\ tiny'.pc = tiny.pc /\ tiny'.path = tiny.path /\ tiny'.rio = q /\ back'[c] = l
  BY <1>1, <1>2, <1>4 DEF TinyType, Functions
<1>11. /\ Sent(c)' = Sent(c) /\ Coming(c)' = Coming(c) /\ (Alive(c)' <=> Alive(c)) /\ Up(c)' = Up(c)
       /\ Rest(c)' = Owed(c) /\ Rest(c) = Owed(c)
  BY <1>1, <1>3, <1>4, <1>8, <1>10 DEF Sent, Coming, Alive, Link, Up, Carried, Rest, Waits, Owed, Reading
<1>12. Stream(c)' = Stream(c)
  <2>1. PICK a, m : a = r.usr ++ r.buf /\ m = Coming(c) /\ a \in Seq(AskByte) /\ m \in Seq(AskByte)
    BY <1>1, <1>4, TowardsAre DEF AtTiny
  <2>2. Stream(c) = a ++ ((s ++ t) ++ m)
    BY <1>1, <1>4, <1>7, <2>1 DEF Stream, AtTiny
  <2>3. Stream(c)' = (a ++ s) ++ (t ++ m)
    BY <1>8, <1>9, <1>10, <1>11, <2>1 DEF Stream, AtTiny
  <2>4. QED
    BY <1>6, <1>7, <2>1, <2>2, <2>3, AppendedIs
<1>13. Alive(c) => Heard(c)' /\ Up(c)' ++ Rest(c)' = Owed(c)
  <2>1. "far" \notin back[c].shut
    BY <1>1 DEF Held, GoodAt, Holding
  <2>2. After(Stream(c), Sent(c)) <=> After(Stream(c), Sent(c))'
    BY <1>11, <1>12 DEF After
  <2>3. Alive(c) => Heard(c)'
    BY <1>1, <1>3, <1>10, <1>11, <1>12, <2>1, <2>2 DEF Heard, Reading
  <2>4. Alive(c) => Up(c)' ++ Rest(c)' = Owed(c)
    BY <1>1, <1>11, <2>1 DEF Answered
  <2>5. QED
    BY <2>3, <2>4
<1>14. back' = [back EXCEPT ![c] = back'[c]] /\ back'[c].shut = back[c].shut
  BY <1>1, <1>2, <1>4, <1>8, <1>10 DEF Functions
<1>15. QED
  BY <1>1, <1>3, <1>10, <1>13, <1>14, TinyWorked

(* What follows the line of g on the stream to tiny. *)
Beyond(c, g) == (g.rio.usr ++ g.rio.buf) ++ (back[c].data["far"] ++ Coming(c))

(* A line that tiny reads is taken from the front of the stream. *)
LEMMA TinyLineTaken ==
  ASSUME Held, NEW c \in Clients, tiny.conn = c, NEW g \in TinyLines
  PROVE  /\ g.line \in Seq(AskByte) /\ g.line # <<>> /\ g.rio \in Rio(AskByte)
         /\ Beyond(c, g) \in Seq(AskByte) /\ g.line ++ Beyond(c, g) = Stream(c)
<1>1. PICK r, f, m : /\ r = tiny.rio /\ f = back[c].data["far"] /\ m = Coming(c) /\ r \in Rio(AskByte)
                     /\ f ++ m \in Seq(AskByte) /\ f \in Seq(AskByte) /\ m \in Seq(AskByte)
  BY TowardsAre DEF Held, GoodTiny
<1>2. PICK eof : g \in Lines(r, eof)
  BY <1>1 DEF TinyLines
<1>3. /\ g.line \in Seq(AskByte) /\ g.line # <<>> /\ g.rio \in Rio(AskByte)
      /\ g.rio.usr = <<>> /\ g.line ++ g.rio.buf = r.usr ++ r.buf
  BY <1>1, <1>2, LinesAre
<1>4. PICK l, b : l = g.line /\ b = g.rio.buf /\ l \in Seq(AskByte) /\ b \in Seq(AskByte) /\ <<>> ++ b = b
  BY <1>3, RioParts, Unit
<1>5. Beyond(c, g) = b ++ (f ++ m)
  BY <1>1, <1>3, <1>4 DEF Beyond
<1>6. b ++ (f ++ m) \in Seq(AskByte) /\ (l ++ b) ++ (f ++ m) = l ++ (b ++ (f ++ m))
  <2>1. PICK w : w = f ++ m /\ w \in Seq(AskByte)
    BY <1>1
  <2>2. b ++ w \in Seq(AskByte)
    BY <1>4, <2>1, Joined
  <2>3. (l ++ b) ++ w = l ++ (b ++ w)
    BY <1>4, <2>1, Assoc
  <2>4. QED
    BY <2>1, <2>2, <2>3
<1>7. Stream(c) = (l ++ b) ++ (f ++ m)
  BY <1>1, <1>3, <1>4 DEF Stream, AtTiny
<1>8. QED
  BY <1>3, <1>4, <1>5, <1>6, <1>7

(* Tiny takes a line or makes up its mind. *)
LEMMA TinyThinksAnswered ==
  ASSUME Held, Held', NEW t \in TinyType, TinyGoes(t), UNCHANGED clientVars, NEW c \in Clients, tiny.conn = c, t.conn = c,
         \A d \in Clients : Heard(d) /\ Answered(d),
         Alive(c) => Heard(c)' /\ Rest(c)' = Rest(c)
  PROVE  \A d \in Clients : Heard(d)' /\ Answered(d)'
<1>1. tiny' = t /\ UNCHANGED <<proxyVars, front, clientVars>> /\ back' = back /\ front' = front /\ px' = px /\ got' = got /\ ask' = ask
  BY DEF TinyGoes, netVars, proxyVars, clientVars
<1>2. back' = [back EXCEPT ![c] = back'[c]] /\ back'[c].shut = back[c].shut
  BY <1>1 DEF Held, Functions
<1>3. "far" \notin back[c].shut
  BY DEF Held, GoodAt, Holding
<1>4. Up(c)' = Up(c) /\ Owed(c)' = Owed(c)
  BY <1>1 DEF Up, Carried, Owed
<1>5. Alive(c) => Up(c)' ++ Rest(c)' = Owed(c)
  BY <1>3, <1>4 DEF Answered
<1>6. QED
  BY <1>1, <1>2, <1>5, TinyWorked

(* Tiny knows the request by its first line. *)
LEMMA DoitAnswered ==
  ASSUME Held, Held', Doit, UNCHANGED clientVars, \A d \in Clients : Asked(d) /\ Heard(d) /\ Answered(d)
  PROVE  \A d \in Clients : Heard(d)' /\ Answered(d)'
<1>1. PICK c \in Clients : /\ c = tiny.conn /\ GoodConn(back[c]) /\ tiny \in TinyType /\ tiny.pc = "line" /\ Holding(c)
                           /\ Asked(c) /\ Heard(c) /\ Answered(c)
  BY TinyServes DEF Doit, Held, GoodAt
<1>2. CASE TinyReads
  BY <1>1, <1>2, TinyReadsAnswered DEF Reading
<1>3. CASE TinyReset
  BY <1>1, <1>3, TinyDiesAnswered DEF TinyReset
<1>4. CASE TinyNoLine /\ TinyGoes([tiny EXCEPT !.pc = "close"])
  <2>1. ~Alive(c)
    BY <1>1, <1>4, EndsAre DEF TinyNoLine, AtEof, Alive
  <2>2. PICK t : t = [tiny EXCEPT !.pc = "close"] /\ TinyGoes(t)
    BY <1>4
  <2>3. t \in TinyType /\ t.conn = c
    BY <1>1, <2>2 DEF TinyType, TinyPcs
  <2>4. QED
    BY <1>1, <2>1, <2>2, <2>3, TinyThinksAnswered
<1>5. ASSUME NEW g \in TinyLines,
             TinyGoes(IF g.line[1][1] = "GET"
                      THEN [tiny EXCEPT !.pc = "hdr1", !.path = PathOf(g.line[1]), !.rio = g.rio]
                      ELSE [tiny EXCEPT !.pc = "page", !.out = clienterror("501")])
      PROVE  \A d \in Clients : Heard(d)' /\ Answered(d)'
  <2>1. PICK l, x, rio, byte : /\ l = g.line /\ x = Beyond(c, g) /\ rio = g.rio /\ byte = l[1]
                               /\ l \in Seq(AskByte) /\ l # <<>> /\ rio \in Rio(AskByte) /\ x \in Seq(AskByte) /\ l ++ x = Stream(c)
    BY <1>1, <1>5, TinyLineTaken
  <2>2. byte[1] = "GET" => byte \in GetLine
    BY <2>1, LineHead
  <2>3. ask' = ask /\ front' = front /\ back' = back /\ px' = px /\ todo' = todo
    BY <1>5 DEF TinyGoes, clientVars, proxyVars, netVars
  <2>4. /\ Sent(c)' = Sent(c) /\ Coming(c)' = Coming(c) /\ (Alive(c)' <=> Alive(c)) /\ Owed(c)' = Owed(c)
        /\ Missing(c)' = Missing(c) /\ Rest(c) = Owed(c)
    BY <1>1, <2>3 DEF Sent, Coming, Alive, Link, Owed, Missing, Rest, Waits
  <2>5. "far" \notin back[c].shut
    BY <1>1 DEF Holding
  <2>6. Alive(c) => /\ Sent(c) = l ++ x
                    /\ \/ byte[1] # "GET" /\ ask[c].form = "post" /\ ask[c].to # "proxy"
                       \/ byte[1] = "GET" /\ PathOf(byte) = ask[c].path /\ ask[c].form \notin {"post", "silent"}
    <3>1. l ++ x # <<>> /\ (l ++ x)[1] = byte
      BY <2>1, First
    <3>2. SUFFICES ASSUME Alive(c)
                   PROVE  /\ Sent(c) = l ++ x
                          /\ \/ byte[1] # "GET" /\ ask[c].form = "post" /\ ask[c].to # "proxy"
                             \/ byte[1] = "GET" /\ PathOf(byte) = ask[c].path /\ ask[c].form \notin {"post", "silent"}
      OBVIOUS
    <3>3. Sent(c) = l ++ x
      BY <1>1, <2>1, <2>5, <3>2 DEF Heard
    <3>4. QED
      BY <1>1, <3>1, <3>2, <3>3, SentIs
  <2>7. CASE byte[1] = "GET"
    <3>1. PICK path : path = PathOf(byte) /\ path \in Text
      BY <2>2, <2>7 DEF GetLine, PathOf
    <3>2. PICK t : t = [tiny EXCEPT !.pc = "hdr1", !.path = path, !.rio = rio] /\ TinyGoes(t)
      BY <1>5, <2>1, <2>7, <3>1
    <3>3. t \in TinyType /\ t.conn = c /\ t.pc = "hdr1" /\ t.path = path /\ t.rio = rio
      BY <1>1, <2>1, <3>1, <3>2 DEF TinyType, TinyPcs
    <3>4. tiny' = t
      BY <3>2 DEF TinyGoes
    <3>5. Stream(c)' = x
      BY <2>1, <2>3, <2>4, <3>3, <3>4 DEF Stream, AtTiny, Beyond
    <3>6. Alive(c) => After(Stream(c), Sent(c))'
      BY <2>1, <2>4, <2>6, <3>5 DEF After
    <3>7. Alive(c) => Heard(c)'
      BY <1>1, <2>3, <2>4, <2>6, <2>7, <3>1, <3>3, <3>4, <3>6 DEF Heard
    <3>8. Rest(c)' = Rest(c)
      BY <2>4, <3>3, <3>4 DEF Rest, Waits
    <3>9. QED
      BY <1>1, <3>2, <3>3, <3>7, <3>8, TinyThinksAnswered
  <2>8. CASE byte[1] # "GET"
    <3>1. PICK page : page = clienterror("501") /\ page \in Seq(AnsByte)
      BY ErrorPages
    <3>2. PICK t : t = [tiny EXCEPT !.pc = "page", !.out = page] /\ TinyGoes(t)
      BY <1>5, <2>1, <2>8, <3>1
    <3>3. t \in TinyType /\ t.conn = c /\ t.pc = "page" /\ t.out = page
      BY <1>1, <3>1, <3>2 DEF TinyType, TinyPcs
    <3>4. tiny' = t
      BY <3>2 DEF TinyGoes
    <3>5. Alive(c) => Heard(c)'
      BY <1>1, <2>3, <2>4, <2>6, <2>8, <3>3, <3>4 DEF Heard
    <3>6. Alive(c) => Rest(c)' = Rest(c)
      <4>1. Rest(c)' = page ++ (<<>> ++ Missing(c))
        BY <2>4, <3>3, <3>4 DEF Rest, Waits, InHand, ToFollow
      <4>2. Alive(c) => Missing(c) = <<>> /\ Owed(c) = page
        BY <2>6, <2>8, <3>1, AnswersAre
      <4>3. page ++ (<<>> ++ <<>>) = page
        <5>1. <<>> ++ <<>> = <<>> /\ page ++ <<>> = page
          BY <3>1, Unit
        <5>2. QED
          BY <5>1
      <4>4. QED
        BY <2>4, <4>1, <4>2, <4>3
    <3>7. QED
      BY <1>1, <3>2, <3>3, <3>5, <3>6, TinyThinksAnswered
  <2>9. QED
    BY <2>7, <2>8
<1>6. QED
  BY <1>2, <1>3, <1>4, <1>5 DEF Doit

(* The headers come in order, and nothing follows the blank line. *)
LEMMA TinyHeadersAnswered ==
  ASSUME Held, Held', TinyHeaders, UNCHANGED clientVars, \A d \in Clients : Asked(d) /\ Heard(d) /\ Answered(d)
  PROVE  \A d \in Clients : Heard(d)' /\ Answered(d)'
<1>1. PICK c \in Clients : /\ c = tiny.conn /\ GoodConn(back[c]) /\ tiny \in TinyType /\ tiny.pc \in {"hdr1", "hdrs"} /\ Holding(c)
                           /\ Asked(c) /\ Heard(c) /\ Answered(c)
  BY TinyServes DEF TinyHeaders, Held, GoodAt
<1>2. CASE TinyReads
  BY <1>1, <1>2, TinyReadsAnswered DEF Reading
<1>3. CASE TinyReset
  BY <1>1, <1>3, TinyDiesAnswered DEF TinyReset
<1>4. ASSUME NEW to \in {"spin", "serve"}, TinyNoLine, TinyGoes([tiny EXCEPT !.pc = to])
      PROVE  \A d \in Clients : Heard(d)' /\ Answered(d)'
  <2>1. ~Alive(c)
    BY <1>1, <1>4, EndsAre DEF TinyNoLine, AtEof, Alive
  <2>2. PICK t : t = [tiny EXCEPT !.pc = to] /\ TinyGoes(t)
    BY <1>4
  <2>3. t \in TinyType /\ t.conn = c
    BY <1>1, <2>2 DEF TinyType, TinyPcs
  <2>4. QED
    BY <1>1, <2>1, <2>2, <2>3, TinyThinksAnswered
<1>5. ASSUME NEW g \in TinyLines,
             TinyGoes([tiny EXCEPT !.rio = g.rio, !.pc = IF g.line = Blank THEN "serve" ELSE "hdrs"])
      PROVE  \A d \in Clients : Heard(d)' /\ Answered(d)'
  <2>1. PICK l, x, rio, to : /\ l = g.line /\ x = Beyond(c, g) /\ rio = g.rio /\ to = (IF l = Blank THEN "serve" ELSE "hdrs")
                             /\ l \in Seq(AskByte) /\ rio \in Rio(AskByte) /\ x \in Seq(AskByte) /\ l ++ x = Stream(c)
    BY <1>1, <1>5, TinyLineTaken
  <2>2. PICK t : t = [tiny EXCEPT !.rio = rio, !.pc = to] /\ TinyGoes(t)
    BY <1>5, <2>1
  <2>3. t \in TinyType /\ t.conn = c /\ t.pc = to /\ t.path = tiny.path /\ t.rio = rio /\ to \in {"serve", "hdrs"}
    BY <1>1, <2>1, <2>2 DEF TinyType, TinyPcs
  <2>4. tiny' = t /\ ask' = ask /\ front' = front /\ back' = back /\ px' = px /\ todo' = todo
    BY <2>2 DEF TinyGoes, clientVars, proxyVars, netVars
  <2>5. /\ Sent(c)' = Sent(c) /\ Coming(c)' = Coming(c) /\ (Alive(c)' <=> Alive(c)) /\ Owed(c)' = Owed(c)
    BY <2>4 DEF Sent, Coming, Alive, Link, Owed
  <2>6. "far" \notin back[c].shut
    BY <1>1 DEF Holding
  <2>7. Stream(c)' = x
    BY <2>1, <2>3, <2>4, <2>5 DEF Stream, AtTiny, Beyond
  <2>8. ASSUME Alive(c) PROVE After(Stream(c), Sent(c))' /\ (to = "serve" => back[c].data["far"] = <<>> /\ Coming(c) = <<>>)
    <3>1. PICK z \in Seq(AskByte) : z ++ (l ++ x) = Sent(c)
      BY <1>1, <2>1, <2>6, <2>8 DEF Heard, After
    <3>2. z ++ l \in Seq(AskByte) /\ (z ++ l) ++ x = Sent(c)
      <4>1. (z ++ l) ++ x = z ++ (l ++ x)
        BY <2>1, Assoc
      <4>2. QED
        BY <2>1, <3>1, <4>1, Joined
    <3>3. After(Stream(c), Sent(c))'
      BY <2>5, <2>7, <3>2 DEF After
    <3>4. ASSUME to = "serve" PROVE back[c].data["far"] = <<>> /\ Coming(c) = <<>>
      <4>1. After(Blank ++ x, Sent(c))
        BY <2>1, <3>1, <3>4 DEF After
      <4>2. PICK w : w = Sent(c) /\ w \in Seq(AskByte) /\ \A i \in 1..Len(w) : w[i] = <<"CR">> => i = Len(w) - 1
        BY <1>1, <2>8, SentIs
      <4>3. x = <<>>
        BY <2>1, <4>1, <4>2, BlankEnds
      <4>4. rio.usr ++ rio.buf \in Seq(AskByte)
        BY <2>1, RioParts, Joined
      <4>5. PICK a, f, m : /\ a = rio.usr ++ rio.buf /\ f = back[c].data["far"] /\ m = Coming(c)
                           /\ a \in Seq(AskByte) /\ f \in Seq(AskByte) /\ m \in Seq(AskByte) /\ f ++ m \in Seq(AskByte)
        BY <4>4, TowardsAre
      <4>6. a ++ (f ++ m) = <<>>
        BY <2>1, <4>3, <4>5 DEF Beyond
      <4>7. f ++ m = <<>>
        BY <4>5, <4>6, NoneJoined
      <4>8. QED
        BY <4>5, <4>7, NoneJoined
    <3>5. QED
      BY <3>3, <3>4
  <2>9. Alive(c) => Heard(c)'
    BY <1>1, <2>3, <2>4, <2>5, <2>6, <2>8 DEF Heard
  <2>10. Rest(c)' = Rest(c)
    BY <1>1, <2>3, <2>4, <2>5 DEF Rest, Waits
  <2>11. QED
    BY <1>1, <2>2, <2>3, <2>9, <2>10, TinyThinksAnswered
<1>6. QED
  BY <1>2, <1>3, <1>4, <1>5 DEF TinyHeaders

(* What tiny is about to write is what it owes. *)
LEMMA ServeAnswered ==
  ASSUME Held, Held', Serve, UNCHANGED clientVars, \A d \in Clients : Heard(d) /\ Answered(d)
  PROVE  \A d \in Clients : Heard(d)' /\ Answered(d)'
<1>1. PICK c \in Clients : /\ c = tiny.conn /\ tiny \in TinyType /\ tiny.pc = "serve" /\ Holding(c)
                           /\ Heard(c) /\ Answered(c)
  BY TinyServes DEF Serve, Held, GoodAt
<1>2. PICK path : path = tiny.path /\ path \in Text
  BY <1>1 DEF TinyType
<1>3. "far" \notin back[c].shut
  BY <1>1 DEF Holding
<1>4. Alive(c) => path = ask[c].path /\ ask[c].form \notin {"post", "silent"} /\ back[c].data["far"] = <<>> /\ Coming(c) = <<>>
  BY <1>1, <1>2, <1>3 DEF Heard
<1>5. Alive(c) => Owed(c) = AnswerTo(path)
  BY <1>4, AnswersAre
<1>6. Missing(c) \in Seq(AnsByte) /\ Body(path) \in Seq(AnsByte) /\ adder(path) \in Seq(AnsByte)
  BY <1>2, AnswersAre, AnswerBytes
<1>7. ASSUME NEW to \in {"page", "head", "cgi"}, NEW out \in Seq(AnsByte), TinyGoes([tiny EXCEPT !.pc = to, !.out = out]),
             Alive(c) => Owed(c) = out ++ ((IF to = "page" THEN <<>> ELSE IF to = "head" THEN Body(path) ELSE adder(path)) ++ Missing(c))
      PROVE  \A d \in Clients : Heard(d)' /\ Answered(d)'
  <2>1. PICK t : t = [tiny EXCEPT !.pc = to, !.out = out] /\ TinyGoes(t)
    BY <1>7
  <2>2. t \in TinyType /\ t.conn = c /\ t.pc = to /\ t.path = path /\ t.out = out
    BY <1>1, <1>2, <2>1 DEF TinyType, TinyPcs
  <2>3. tiny' = t /\ ask' = ask /\ front' = front /\ back' = back /\ px' = px /\ todo' = todo
    BY <2>1 DEF TinyGoes, clientVars, proxyVars, netVars
  <2>4. Coming(c)' = Coming(c) /\ (Alive(c)' <=> Alive(c)) /\ Owed(c)' = Owed(c) /\ Missing(c)' = Missing(c) /\ Rest(c) = Owed(c)
    BY <1>1, <2>3 DEF Coming, Alive, Link, Owed, Missing, Rest, Waits
  <2>5. Alive(c) => Heard(c)'
    BY <1>1, <1>2, <1>4, <2>2, <2>3, <2>4 DEF Heard
  <2>6. Rest(c)' = out ++ ((IF to = "page" THEN <<>> ELSE IF to = "head" THEN Body(path) ELSE adder(path)) ++ Missing(c))
    BY <2>2, <2>3, <2>4 DEF Rest, Waits, InHand, ToFollow
  <2>7. Alive(c) => Rest(c)' = Rest(c)
    BY <1>7, <2>4, <2>6
  <2>8. QED
    BY <1>1, <2>1, <2>2, <2>5, <2>7, TinyThinksAnswered
<1>8. ASSUME NEW what \in {"404", "403"}, TinyGoes([tiny EXCEPT !.pc = "page", !.out = clienterror(what)]),
             AnswerTo(path) = clienterror(what), path # "adder?1"
      PROVE  \A d \in Clients : Heard(d)' /\ Answered(d)'
  <2>1. PICK out : out = clienterror(what) /\ out \in Seq(AnsByte)
    BY <1>8, ErrorPages
  <2>2. TinyGoes([tiny EXCEPT !.pc = "page", !.out = out])
    BY <1>8, <2>1
  <2>3. Alive(c) => Missing(c) = <<>>
    BY <1>4, <1>8 DEF Missing
  <2>4. out ++ (<<>> ++ <<>>) = out
    <3>1. <<>> ++ <<>> = <<>> /\ out ++ <<>> = out
      BY <2>1, Unit
    <3>2. QED
      BY <3>1
  <2>5. Alive(c) => Owed(c) = out ++ (<<>> ++ Missing(c))
    BY <1>5, <1>8, <2>1, <2>3, <2>4
  <2>6. QED
    BY <1>7, <2>1, <2>2, <2>5
<1>9. PICK file : file = Stat(path)
  OBVIOUS
<1>10. \/ ~file.found /\ TinyGoes([tiny EXCEPT !.pc = "page", !.out = clienterror("404")])
       \/ file.found /\ ~file.readable /\ TinyGoes([tiny EXCEPT !.pc = "page", !.out = clienterror("403")])
       \/ file.found /\ file.readable /\ is_static(path) /\ TinyGoes([tiny EXCEPT !.pc = "head", !.out = <<<<path, "head">>>>])
       \/ file.found /\ file.readable /\ ~is_static(path)
            /\ TinyGoes([tiny EXCEPT !.pc = "cgi", !.out = <<<<path, "status">>, <<path, "server">>>>])
  BY <1>2, <1>9 DEF Serve
<1>11. path = "adder?1" => file.found /\ file.readable
  BY <1>9 DEF Stat
<1>12. CASE ~file.found
  <2>1. AnswerTo(path) = clienterror("404")
    BY <1>9, <1>12 DEF AnswerTo
  <2>2. QED
    BY <1>8, <1>10, <1>11, <1>12, <2>1
<1>13. CASE file.found /\ ~file.readable
  <2>1. AnswerTo(path) = clienterror("403")
    BY <1>9, <1>13 DEF AnswerTo
  <2>2. QED
    BY <1>8, <1>10, <1>11, <1>13, <2>1
<1>14. Alive(c) /\ file.found /\ file.readable =>
         AnswerTo(path) = IF is_static(path) THEN <<<<path, "head">>>> ++ (Body(path) ++ Missing(c))
                          ELSE <<<<path, "status">>, <<path, "server">>>> ++ (adder(path) ++ Missing(c))
  BY <1>4, <1>9, PartsAre
<1>15. CASE file.found /\ file.readable /\ is_static(path)
  <2>1. PICK out : out = <<<<path, "head">>>> /\ out \in Seq(AnsByte)
    BY <1>2, AnswerBytes
  <2>2. TinyGoes([tiny EXCEPT !.pc = "head", !.out = out])
    BY <1>10, <1>15, <2>1
  <2>3. Alive(c) => Owed(c) = out ++ (Body(path) ++ Missing(c))
    BY <1>5, <1>14, <1>15, <2>1
  <2>4. QED
    BY <1>7, <2>1, <2>2, <2>3
<1>16. CASE file.found /\ file.readable /\ ~is_static(path)
  <2>1. PICK out : out = <<<<path, "status">>, <<path, "server">>>> /\ out \in Seq(AnsByte)
    BY <1>2, AnswerBytes
  <2>2. TinyGoes([tiny EXCEPT !.pc = "cgi", !.out = out])
    BY <1>10, <1>16, <2>1
  <2>3. Alive(c) => Owed(c) = out ++ (adder(path) ++ Missing(c))
    BY <1>5, <1>14, <1>16, <2>1
  <2>4. QED
    BY <1>7, <2>1, <2>2, <2>3
<1>17. QED
  BY <1>12, <1>13, <1>15, <1>16

(* What is written moves from what is to come to what is under way. *)
LEMMA AnswerMoves ==
  ASSUME Held, NEW c \in Clients, px' = px, front' = front, got' = got,
         NEW s \in Seq(AnsByte), NEW t \in Seq(AnsByte), NEW w \in Seq(AnsByte),
         back'[c].data["near"] = back[c].data["near"] ++ s,
         Rest(c) = (s ++ t) ++ w, Rest(c)' = t ++ w
  PROVE  Up(c)' ++ Rest(c)' = Up(c) ++ Rest(c)
<1>1. PICK g, f, b, r : /\ g = got[c] ++ front[c].data["near"] /\ f = Carried(c) /\ b = back[c].data["near"] /\ r = t ++ w
                        /\ g \in Seq(AnsByte) /\ f \in Seq(AnsByte) /\ b \in Seq(AnsByte) /\ r \in Seq(AnsByte)
  <2>1. t ++ w \in Seq(AnsByte)
    BY Joined
  <2>2. QED
    BY <2>1, ArrowsAre
<1>2. Up(c) = g ++ (f ++ b) /\ Up(c)' = g ++ (f ++ (b ++ s))
  BY <1>1 DEF Up, Carried
<1>3. (g ++ (f ++ (b ++ s))) ++ r = (g ++ (f ++ b)) ++ (s ++ r)
  <2>1. f ++ b \in Seq(AnsByte) /\ g ++ (f ++ b) \in Seq(AnsByte)
    BY <1>1, Joined
  <2>2. f ++ (b ++ s) = (f ++ b) ++ s
    BY <1>1, Assoc
  <2>3. g ++ ((f ++ b) ++ s) = (g ++ (f ++ b)) ++ s
    BY <1>1, <2>1, Assoc
  <2>4. ((g ++ (f ++ b)) ++ s) ++ r = (g ++ (f ++ b)) ++ (s ++ r)
    BY <1>1, <2>1, Assoc
  <2>5. QED
    BY <2>2, <2>3, <2>4
<1>4. (s ++ t) ++ w = s ++ (t ++ w)
  BY Assoc
<1>5. QED
  BY <1>1, <1>2, <1>3, <1>4

(* What tiny writes moves along the answer. *)
LEMMA TinyWritesAnswered ==
  ASSUME Held, Held', TinyWrites, UNCHANGED clientVars, \A d \in Clients : Heard(d) /\ Answered(d)
  PROVE  \A d \in Clients : Heard(d)' /\ Answered(d)'
<1>1. PICK c \in Clients : /\ c = tiny.conn /\ GoodConn(back[c]) /\ tiny \in TinyType /\ tiny.pc \in {"page", "head", "body", "cgi"}
                           /\ Holding(c) /\ Heard(c) /\ Answered(c)
  BY TinyServes DEF TinyWrites, AfterWrite, Held, GoodAt
<1>2. CASE TinyDies
  BY <1>1, <1>2, TinyDiesAnswered
<1>3. ASSUME NEW n \in {Fits(back[tiny.conn], "far", tiny.out)}, n > 0,
             back' = [back EXCEPT ![tiny.conn] = Put(@, "far", SubSeq(tiny.out, 1, n))],
             tiny' = [tiny EXCEPT !.out = SubSeq(@, n + 1, Len(@)),
                                  !.pc = IF n = Len(tiny.out) THEN AfterWrite[@] ELSE @],
             UNCHANGED <<cgi, front, ring, proxyVars>>
      PROVE  \A d \in Clients : Heard(d)' /\ Answered(d)'
  <2>1. PICK k, o, s, t, l, to : /\ k = back[c] /\ o = tiny.out /\ s = SubSeq(o, 1, n) /\ t = SubSeq(o, n + 1, Len(o))
                                 /\ l = Put(k, "far", s) /\ to = (IF n = Len(o) THEN AfterWrite[tiny.pc] ELSE tiny.pc)
                                 /\ GoodConn(k) /\ o \in Seq(AnsByte)
    BY <1>1 DEF TinyType
  <2>2. "far" \in Ends /\ Other("far") = "near" /\ Flow("near") = AnsByte
    BY EndsAre DEF Flow
  <2>3. /\ n \in 1..Len(o) /\ n \in Nat /\ Len(o) \in Nat /\ l.shut = k.shut /\ l.data["far"] = k.data["far"]
        /\ "near" \notin k.shut => l.data["near"] = k.data["near"] ++ s
        /\ t \in Seq(AnsByte) /\ (n = Len(o) => t = <<>>)
    BY <1>1, <1>3, <2>1, <2>2, WriteIs
  <2>4. s \in Seq(AnsByte) /\ s ++ t = o
    BY <2>1, <2>3, Cut
  <2>5. tiny' = [tiny EXCEPT !.out = t, !.pc = to] /\ back' = [back EXCEPT ![c] = l]
    BY <1>1, <1>3, <2>1
  <2>6. tiny'.conn = c /\ tiny'.pc = to /\ tiny'.path = tiny.path /\ tiny'.out = t /\ back'[c] = l
    BY <1>1, <2>5 DEF TinyType, Held, Functions
  <2>7. \/ to = tiny.pc
        \/ t = <<>> /\ to = IF tiny.pc \in {"page", "body"} THEN "close" ELSE IF tiny.pc = "head" THEN "map" ELSE "fork"
    BY <1>1, <2>1, <2>3 DEF AfterWrite
  <2>8. ask' = ask /\ front' = front /\ px' = px /\ todo' = todo /\ got' = got /\ cgi' = cgi
    BY <1>3 DEF clientVars, proxyVars
  <2>9. /\ Coming(c)' = Coming(c) /\ (Alive(c)' <=> Alive(c)) /\ Owed(c)' = Owed(c) /\ Missing(c)' = Missing(c)
    BY <2>1, <2>3, <2>6, <2>8 DEF Coming, Alive, Link, Owed, Missing
  <2>10. "far" \notin back[c].shut
    BY <1>1 DEF Holding
  <2>11. Alive(c) => Heard(c)'
    BY <1>1, <2>1, <2>3, <2>6, <2>7, <2>8, <2>9, <2>10 DEF Heard
  <2>12. PICK w : w = ToFollow ++ Missing(c) /\ w \in Seq(AnsByte)
    BY RestIs
  <2>13. Rest(c) = o ++ w
    BY <1>1, <2>1, <2>12 DEF Rest, Waits, InHand
  <2>14. Rest(c)' = t ++ w
    BY <1>1, <2>6, <2>7, <2>9, <2>12 DEF Rest, Waits, InHand, ToFollow
  <2>15. Alive(c) => Up(c)' ++ Rest(c)' = Owed(c)
    <3>1. Alive(c) => back'[c].data["near"] = back[c].data["near"] ++ s
      BY <2>1, <2>3, <2>6 DEF Alive
    <3>2. Alive(c) => Up(c)' ++ Rest(c)' = Up(c) ++ Rest(c)
      BY <2>3, <2>4, <2>8, <2>12, <2>13, <2>14, <3>1, AnswerMoves
    <3>3. QED
      BY <1>1, <2>10, <3>2 DEF Answered
  <2>16. back' = [back EXCEPT ![c] = back'[c]] /\ back'[c].shut = back[c].shut
    BY <2>1, <2>3, <2>5, <2>6
  <2>17. QED
    BY <1>1, <1>3, <2>6, <2>11, <2>15, <2>16, TinyWorked
<1>4. QED
  BY <1>2, <1>3 DEF TinyWrites

(* The page follows its headers. *)
LEMMA MapFileAnswered ==
  ASSUME Held, Held', MapFile, UNCHANGED clientVars, \A d \in Clients : Heard(d) /\ Answered(d)
  PROVE  \A d \in Clients : Heard(d)' /\ Answered(d)'
<1>1. PICK c \in Clients : /\ c = tiny.conn /\ tiny \in TinyType /\ tiny.pc = "map" /\ Holding(c) /\ Heard(c) /\ Answered(c)
  BY TinyServes DEF MapFile, Held, GoodAt
<1>2. CASE TinyDies
  BY <1>1, <1>2, TinyDiesAnswered
<1>3. CASE TinyGoes([tiny EXCEPT !.pc = "body", !.out = Body(tiny.path)])
  <2>1. PICK out, m : out = Body(tiny.path) /\ out \in Seq(AnsByte) /\ m = Missing(c) /\ m \in Seq(AnsByte)
    BY <1>1, AnswerBytes, AnswersAre DEF TinyType
  <2>2. PICK t : t = [tiny EXCEPT !.pc = "body", !.out = out] /\ TinyGoes(t)
    BY <1>3, <2>1
  <2>3. t \in TinyType /\ t.conn = c /\ t.pc = "body" /\ t.path = tiny.path /\ t.out = out
    BY <1>1, <2>1, <2>2 DEF TinyType, TinyPcs
  <2>4. tiny' = t /\ ask' = ask /\ front' = front /\ back' = back /\ px' = px /\ todo' = todo
    BY <2>2 DEF TinyGoes, clientVars, proxyVars, netVars
  <2>5. Coming(c)' = Coming(c) /\ (Alive(c)' <=> Alive(c)) /\ Missing(c)' = m
    BY <2>1, <2>4 DEF Coming, Alive, Link, Missing
  <2>6. "far" \notin back[c].shut
    BY <1>1 DEF Holding
  <2>7. Alive(c) => Heard(c)'
    BY <1>1, <2>3, <2>4, <2>5, <2>6 DEF Heard
  <2>8. Rest(c) = <<>> ++ (out ++ m) /\ Rest(c)' = out ++ (<<>> ++ m)
    BY <1>1, <2>1, <2>3, <2>4, <2>5 DEF Rest, Waits, InHand, ToFollow
  <2>9. Rest(c)' = Rest(c)
    <3>1. PICK w : w = out ++ m /\ w \in Seq(AnsByte)
      BY <2>1, Joined
    <3>2. <<>> ++ w = w /\ <<>> ++ m = m
      BY <2>1, <3>1, Unit
    <3>3. QED
      BY <2>8, <3>1, <3>2
  <2>10. QED
    BY <1>1, <2>2, <2>3, <2>7, <2>9, TinyThinksAnswered
<1>4. QED
  BY <1>2, <1>3 DEF MapFile

(* Tiny waits for the child, which has written all it could. *)
LEMMA WaitCgiAnswered ==
  ASSUME Held, Held', WaitCgi, UNCHANGED clientVars, Reaped, \A d \in Clients : Heard(d) /\ Answered(d)
  PROVE  \A d \in Clients : Heard(d)' /\ Answered(d)'
<1>1. PICK c \in Clients : /\ c = tiny.conn /\ tiny \in TinyType /\ tiny.pc = "wait" /\ Holding(c) /\ Heard(c) /\ Answered(c)
  BY TinyServes DEF WaitCgi, Held, GoodAt
<1>2. PICK t : t = [tiny EXCEPT !.pc = "close"] /\ TinyGoes(t)
  BY DEF WaitCgi
<1>3. t \in TinyType /\ t.conn = c /\ t.pc = "close" /\ t.path = tiny.path
  BY <1>1, <1>2 DEF TinyType, TinyPcs
<1>4. tiny' = t /\ ask' = ask /\ front' = front /\ back' = back /\ px' = px /\ todo' = todo
  BY <1>2 DEF TinyGoes, clientVars, proxyVars, netVars
<1>5. Coming(c)' = Coming(c) /\ (Alive(c)' <=> Alive(c)) /\ Missing(c)' = Missing(c)
  BY <1>4 DEF Coming, Alive, Link, Missing
<1>6. "far" \notin back[c].shut
  BY <1>1 DEF Holding
<1>7. Alive(c) => Heard(c)'
  BY <1>1, <1>3, <1>4, <1>5, <1>6 DEF Heard
<1>8. cgi.out = <<>>
  BY DEF WaitCgi, Reaped
<1>9. Rest(c)' = Rest(c)
  BY <1>1, <1>3, <1>4, <1>5, <1>8 DEF Rest, Waits, InHand, ToFollow
<1>10. QED
  BY <1>1, <1>2, <1>3, <1>7, <1>9, TinyThinksAnswered

(* The child has the end of the answer to write. *)
LEMMA ForkCgiAnswered ==
  ASSUME Held, Held', ForkCgi, UNCHANGED clientVars, \A d \in Clients : Heard(d) /\ Answered(d)
  PROVE  Reaped' /\ \A d \in Clients : Heard(d)' /\ Answered(d)'
<1>1. PICK c \in Clients : /\ c = tiny.conn /\ tiny \in TinyType /\ tiny.pc = "fork" /\ Holding(c) /\ Heard(c) /\ Answered(c)
  BY TinyServes DEF ForkCgi, Held, GoodAt
<1>2. PICK out, m : out = adder(tiny.path) /\ out \in Seq(AnsByte) /\ m = Missing(c) /\ m \in Seq(AnsByte)
  BY <1>1, AnswerBytes, AnswersAre DEF TinyType
<1>3. tiny'.conn = c /\ tiny'.pc = "wait" /\ tiny'.path = tiny.path /\ cgi' = [up |-> TRUE, out |-> out]
  BY <1>1, <1>2 DEF ForkCgi, TinyType
<1>4. ask' = ask /\ front' = front /\ back' = back /\ px' = px /\ todo' = todo /\ got' = got /\ UNCHANGED <<proxyVars, front, clientVars>>
  BY DEF ForkCgi, clientVars, proxyVars, netVars
<1>5. /\ Coming(c)' = Coming(c) /\ (Alive(c)' <=> Alive(c)) /\ Missing(c)' = m /\ Owed(c)' = Owed(c) /\ Up(c)' = Up(c)
  BY <1>2, <1>4 DEF Coming, Alive, Link, Missing, Owed, Up, Carried
<1>6. "far" \notin back[c].shut
  BY <1>1 DEF Holding
<1>7. Alive(c) => Heard(c)'
  BY <1>1, <1>3, <1>4, <1>5, <1>6 DEF Heard
<1>8. Rest(c) = <<>> ++ (out ++ m) /\ Rest(c)' = out ++ (<<>> ++ m)
  BY <1>1, <1>2, <1>3, <1>5 DEF Rest, Waits, InHand, ToFollow
<1>9. Rest(c)' = Rest(c)
  <2>1. PICK w : w = out ++ m /\ w \in Seq(AnsByte)
    BY <1>2, Joined
  <2>2. <<>> ++ w = w /\ <<>> ++ m = m
    BY <1>2, <2>1, Unit
  <2>3. QED
    BY <1>8, <2>1, <2>2
<1>10. Alive(c) => Up(c)' ++ Rest(c)' = Owed(c)
  BY <1>1, <1>5, <1>6, <1>9 DEF Answered
<1>11. back' = [back EXCEPT ![c] = back'[c]] /\ back'[c].shut = back[c].shut
  BY <1>4 DEF Held, Functions
<1>12. \A d \in Clients : Heard(d)' /\ Answered(d)'
  BY <1>1, <1>3, <1>4, <1>7, <1>10, <1>11, TinyWorked
<1>13. Reaped'
  BY <1>3 DEF Reaped
<1>14. QED
  BY <1>12, <1>13

(* What the child writes moves along the answer. *)
LEMMA CgiRunsAnswered ==
  ASSUME Held, Held', CgiRuns, UNCHANGED clientVars, Reaped, \A d \in Clients : Heard(d) /\ Answered(d)
  PROVE  Reaped' /\ \A d \in Clients : Heard(d)' /\ Answered(d)'
<1>1. PICK c \in Clients : /\ c = tiny.conn /\ GoodConn(back[c]) /\ tiny \in TinyType /\ tiny.pc = "wait" /\ Holding(c)
                           /\ Heard(c) /\ Answered(c)
  <2>1. tiny.pc = "wait"
    BY DEF CgiRuns, Held, GoodTiny
  <2>2. QED
    BY <2>1, TinyServes DEF Held, GoodAt
<1>2. PICK o : o = cgi.out /\ o \in Seq(AnsByte) /\ cgi = [up |-> TRUE, out |-> o]
  <2>1. cgi \in [up : BOOLEAN, out : Seq(AnsByte)] /\ cgi.up = TRUE
    BY DEF Held, GoodTiny, CgiRuns
  <2>2. QED
    BY <2>1
<1>3. tiny' = tiny /\ ask' = ask /\ front' = front /\ px' = px /\ todo' = todo /\ got' = got /\ UNCHANGED <<proxyVars, front, clientVars>>
  BY DEF CgiRuns, clientVars, proxyVars
<1>4. "far" \notin back[c].shut
  BY <1>1 DEF Holding
<1>5. PICK w : w = <<>> ++ Missing(c) /\ w \in Seq(AnsByte)
  BY AnswersAre, Joined, EmptySeq
<1>6. Rest(c) = o ++ w /\ Rest(c)' = cgi'.out ++ w
  BY <1>1, <1>2, <1>3, <1>5 DEF Rest, Waits, InHand, ToFollow, Missing
<1>7. ASSUME NEW l, back' = [back EXCEPT ![c] = l], l.shut = back[c].shut, l.data["far"] = back[c].data["far"],
             Alive(c) => Up(c)' ++ Rest(c)' = Owed(c)
      PROVE  \A d \in Clients : Heard(d)' /\ Answered(d)'
  <2>1. back'[c] = l
    BY <1>7 DEF Held, Functions
  <2>2. Coming(c)' = Coming(c) /\ (Alive(c)' <=> Alive(c))
    BY <1>3, <1>7, <2>1 DEF Coming, Alive, Link
  <2>3. Alive(c) => Heard(c)'
    BY <1>1, <1>3, <1>4, <1>7, <2>1, <2>2 DEF Heard
  <2>4. back' = [back EXCEPT ![c] = back'[c]] /\ back'[c].shut = back[c].shut
    BY <1>7, <2>1
  <2>5. QED
    BY <1>1, <1>3, <1>7, <2>3, <2>4, TinyWorked
<1>8. CASE cgi.out = <<>> /\ cgi' = [cgi EXCEPT !.up = FALSE] /\ UNCHANGED back
  <2>1. cgi'.out = <<>>
    BY <1>2, <1>8
  <2>2. Up(c)' = Up(c) /\ Rest(c)' = Rest(c)
    BY <1>2, <1>3, <1>6, <1>8, <2>1 DEF Up, Carried
  <2>3. Alive(c) => Up(c)' ++ Rest(c)' = Owed(c)
    BY <1>1, <1>4, <2>2 DEF Answered
  <2>4. back' = [back EXCEPT ![c] = back[c]]
    BY <1>8 DEF Held, Functions
  <2>5. QED
    BY <1>7, <2>1, <2>3, <2>4 DEF Reaped
<1>9. ASSUME NEW n \in {Fits(back[tiny.conn], "far", cgi.out)}, n > 0,
             back' = [back EXCEPT ![tiny.conn] = Put(@, "far", SubSeq(cgi.out, 1, n))],
             cgi' = [cgi EXCEPT !.out = SubSeq(@, n + 1, Len(@))]
      PROVE  Reaped' /\ \A d \in Clients : Heard(d)' /\ Answered(d)'
  <2>1. PICK k, s, t, l : /\ k = back[c] /\ s = SubSeq(o, 1, n) /\ t = SubSeq(o, n + 1, Len(o)) /\ l = Put(k, "far", s) /\ GoodConn(k)
    BY <1>1
  <2>2. "far" \in Ends /\ Other("far") = "near" /\ Flow("near") = AnsByte
    BY EndsAre DEF Flow
  <2>3. /\ n \in 1..Len(o) /\ n \in Nat /\ Len(o) \in Nat /\ l.shut = k.shut /\ l.data["far"] = k.data["far"]
        /\ "near" \notin k.shut => l.data["near"] = k.data["near"] ++ s
        /\ t \in Seq(AnsByte)
    <3>1. n = Fits(k, "far", o) /\ n > 0 /\ o \in Seq(Flow(Other("far")))
      BY <1>1, <1>2, <1>9, <2>1, <2>2
    <3>2. /\ n \in 1..Len(o) /\ n \in Nat /\ Len(o) \in Nat /\ Put(k, "far", SubSeq(o, 1, n)).shut = k.shut
          /\ Put(k, "far", SubSeq(o, 1, n)).data["far"] = k.data["far"]
          /\ Other("far") \notin k.shut =>
               Put(k, "far", SubSeq(o, 1, n)).data[Other("far")] = k.data[Other("far")] ++ SubSeq(o, 1, n)
      BY <2>1, <2>2, <3>1, WriteIs
    <3>3. SubSeq(o, n + 1, Len(o)) \in Seq(AnsByte)
      BY <1>2, <3>2, Cut
    <3>4. QED
      BY <2>1, <2>2, <3>2, <3>3
  <2>4. s \in Seq(AnsByte) /\ s ++ t = o
    BY <1>2, <2>1, <2>3, Cut
  <2>5. cgi' = [cgi EXCEPT !.out = t] /\ back' = [back EXCEPT ![c] = l]
    BY <1>1, <1>2, <1>9, <2>1
  <2>6. cgi'.up /\ cgi'.out = t /\ back'[c] = l
    <3>1. cgi \in [up : BOOLEAN, out : Seq(AnsByte)] /\ cgi.up
      BY DEF Held, GoodTiny, CgiRuns
    <3>2. QED
      BY <2>5, <3>1 DEF Held, Functions
  <2>7. Alive(c) => Up(c)' ++ Rest(c)' = Owed(c)
    <3>1. Alive(c) => back'[c].data["near"] = back[c].data["near"] ++ s
      BY <2>1, <2>3, <2>6 DEF Alive
    <3>2. Rest(c) = (s ++ t) ++ w /\ Rest(c)' = t ++ w
      BY <1>6, <2>4, <2>6
    <3>3. Alive(c) => Up(c)' ++ Rest(c)' = Up(c) ++ Rest(c)
      BY <1>3, <1>5, <2>3, <2>4, <3>1, <3>2, AnswerMoves
    <3>4. QED
      BY <1>1, <1>4, <3>3 DEF Answered
  <2>8. \A d \in Clients : Heard(d)' /\ Answered(d)'
    BY <1>7, <2>1, <2>3, <2>5, <2>7
  <2>9. QED
    BY <2>6, <2>8 DEF Reaped
<1>10. CASE TinySigPipe /\ cgi' = [up |-> FALSE, out |-> <<>>] /\ UNCHANGED back
  <2>1. ~Alive(c)
    BY <1>1, <1>10, EndsAre DEF TinySigPipe, GoodConn, Alive
  <2>2. back' = [back EXCEPT ![c] = back[c]]
    BY <1>10 DEF Held, Functions
  <2>3. cgi'.out = <<>>
    BY <1>10
  <2>4. QED
    BY <1>7, <2>1, <2>2, <2>3 DEF Reaped
<1>11. QED
  BY <1>8, <1>9, <1>10 DEF CgiRuns

(* When tiny closes the connection the answer may lose its end, no more. *)
LEMMA TinyClosesAnswered ==
  ASSUME Held, Held', TinyCloses, UNCHANGED clientVars, \A d \in Clients : Heard(d) /\ Answered(d)
  PROVE  \A d \in Clients : Heard(d)' /\ Answered(d)'
<1>1. PICK c \in Clients : /\ c = tiny.conn /\ GoodConn(back[c]) /\ tiny \in TinyType /\ tiny.pc = "close" /\ Heard(c) /\ Answered(c)
  BY TinyServes DEF TinyCloses
<1>2. PICK b \in Shut(back[c], "far") : back' = [back EXCEPT ![c] = b]
  BY <1>1 DEF TinyCloses
<1>3. back'[c] = b /\ back' = [back EXCEPT ![c] = back'[c]]
  BY <1>2 DEF Held, Functions
<1>4. PICK n \in 0..Len(back[c].data["near"]) :
        b.data["near"] = SubSeq(back[c].data["near"], 1, n) /\ b.shut = back[c].shut \cup {"far"}
  <2>1. "far" \in Ends /\ Other("far") = "near"
    BY EndsAre
  <2>2. PICK k : k = back[c] /\ GoodConn(k) /\ b \in Shut(k, "far")
    BY <1>1, <1>2
  <2>3. b.shut = k.shut \cup {"far"} /\ \E n \in 0..Len(k.data[Other("far")]) : b.data[Other("far")] = SubSeq(k.data[Other("far")], 1, n)
    BY <2>1, <2>2, ShutIs
  <2>4. QED
    BY <2>1, <2>2, <2>3
<1>5. tiny'.conn = NoConn
  BY <1>1 DEF TinyCloses, TinyType
<1>6. ask' = ask /\ front' = front /\ px' = px /\ todo' = todo /\ got' = got /\ UNCHANGED <<proxyVars, front, clientVars>>
  BY DEF TinyCloses, clientVars, proxyVars
<1>7. ASSUME NEW d \in Clients, d # c PROVE Heard(d)' /\ Answered(d)'
  BY <1>1, <1>3, <1>5, <1>6, <1>7, TinyOthers
<1>8. Owed(c)' = Owed(c) /\ Carried(c)' = Carried(c) /\ (Alive(c)' <=> Alive(c)) /\ "far" \in back'[c].shut
  BY <1>3, <1>4, <1>6 DEF Owed, Carried, Alive, Link
<1>9. PICK a, f, g, m, x : /\ a = got[c] /\ f = Carried(c) /\ g = got[c] ++ front[c].data["near"] /\ m = back[c].data["near"] /\ x = SubSeq(m, 1, n)
                           /\ a \in Seq(AnsByte) /\ f \in Seq(AnsByte) /\ g \in Seq(AnsByte) /\ m \in Seq(AnsByte)
  BY ArrowsAre
<1>10. n \in 0..Len(m)
  BY <1>9
<1>11. Begins(Seen(c)', Owed(c))
  <2>1. CASE ask[c].to = "proxy"
    <3>1. Seen(c)' = Seen(c)
      BY <1>6, <2>1 DEF Seen, Link
    <3>2. QED
      BY <1>1, <3>1 DEF Answered
  <2>2. CASE ask[c].to # "proxy"
    <3>1. Seen(c) = a ++ m /\ Seen(c)' = a ++ x
      BY <1>3, <1>4, <1>6, <1>9, <2>2 DEF Seen, Link
    <3>2. Begins(a ++ m, Owed(c))
      BY <1>1, <3>1 DEF Answered
    <3>3. QED
      BY <1>9, <1>10, <3>1, <3>2, CutShort
  <2>3. QED
    BY <2>1, <2>2
<1>12. Alive(c) => Begins(Up(c)', Owed(c))
  <2>1. Up(c) = g ++ (f ++ m) /\ Up(c)' = g ++ (f ++ x)
    BY <1>3, <1>4, <1>6, <1>8, <1>9 DEF Up
  <2>2. g ++ (f ++ m) = (g ++ f) ++ m /\ g ++ f \in Seq(AnsByte)
    <3>1. f \in Seq(AnsByte) /\ g \in Seq(AnsByte) /\ m \in Seq(AnsByte)
      BY <1>9
    <3>2. g ++ f \in Seq(AnsByte)
      BY <3>1, Joined
    <3>3. g ++ (f ++ m) = (g ++ f) ++ m
      BY <3>1, Assoc
    <3>4. QED
      BY <3>2, <3>3
  <2>3. SUFFICES ASSUME Alive(c) PROVE Begins(Up(c)', Owed(c))
    OBVIOUS
  <2>4. Begins((g ++ f) ++ m, Owed(c))
    BY <1>1, <2>1, <2>2, <2>3 DEF Answered
  <2>5. Begins((g ++ f) ++ x, Owed(c)) /\ x \in Seq(AnsByte)
    BY <1>9, <1>10, <2>2, <2>4, CutShort
  <2>6. (g ++ f) ++ x = g ++ (f ++ x)
    <3>1. f \in Seq(AnsByte) /\ g \in Seq(AnsByte) /\ x \in Seq(AnsByte)
      BY <1>9, <2>5
    <3>2. QED
      BY <3>1, Assoc
  <2>7. QED
    BY <2>1, <2>5, <2>6
<1>13. Heard(c)' /\ Answered(c)'
  BY <1>1, <1>6, <1>8, <1>11, <1>12 DEF Heard, Answered, Begins
<1>14. QED
  BY <1>7, <1>13

(* Every step of tiny. *)
LEMMA TinyAnswered ==
  ASSUME Held, Held', TinyStep, UNCHANGED clientVars, Reaped, \A d \in Clients : Asked(d) /\ Heard(d) /\ Answered(d)
  PROVE  Reaped' /\ \A d \in Clients : Heard(d)' /\ Answered(d)'
<1>1. CASE ForkCgi
  BY <1>1, ForkCgiAnswered
<1>2. CASE ~ForkCgi
  <2>1. cgi' = cgi
    <3>1. CASE TinyListens \/ TinyAccept \/ WaitCgi \/ TinyCloses \/ Serve
      BY <3>1 DEF TinyListens, TinyAccept, WaitCgi, TinyCloses, Serve, TinyGoes
    <3>2. CASE Doit \/ TinyHeaders
      BY <3>2 DEF Doit, TinyHeaders, TinyReads, TinyReset, TinyDies, TinyGoes
    <3>3. CASE TinyWrites \/ MapFile
      BY <3>3 DEF TinyWrites, MapFile, TinyDies, TinyGoes
    <3>4. QED
      BY <1>2, <3>1, <3>2, <3>3 DEF TinyStep
  <2>2. Reaped'
    BY <2>1 DEF Reaped
  <2>3. \A d \in Clients : Heard(d)' /\ Answered(d)'
    BY <1>2, TinyListensAnswered, TinyAcceptAnswered, DoitAnswered, TinyHeadersAnswered, ServeAnswered, TinyWritesAnswered,
       MapFileAnswered, WaitCgiAnswered, TinyClosesAnswered DEF TinyStep
  <2>4. QED
    BY <2>2, <2>3
<1>3. QED
  BY <1>1, <1>2

(* Every step keeps what is known of every answer. *)
LEMMA AnsweredStep == AllAnswered /\ [Next]_vars => AllAnswered'
<1> SUFFICES ASSUME AllAnswered, [Next]_vars PROVE AllAnswered'
  OBVIOUS
<1>1. AllAsked /\ Held /\ Reaped /\ (\A c \in Clients : Asked(c) /\ Heard(c) /\ Answered(c))
  BY DEF AllAnswered, AllAsked
<1>2. Held'
  BY <1>1, HeldStep
<1>3. \A c \in Clients : Asked(c)'
  BY <1>1, AskedStep
<1>4. SUFFICES Reaped' /\ \A d \in Clients : Heard(d)' /\ Answered(d)'
  BY <1>2, <1>3 DEF AllAnswered, AllAsked
<1>5. CASE WebProxy
  <2>1. Reaped'
    BY <1>1, <1>5 DEF WebProxy, tinyVars, Reaped
  <2>2. QED
    BY <1>1, <1>2, <1>5, <2>1, WebProxyAnswered
<1>6. CASE WebTiny
  BY <1>1, <1>2, <1>6, TinyAnswered DEF WebTiny
<1>7. CASE WebCgi
  BY <1>1, <1>2, <1>7, CgiRunsAnswered DEF WebCgi
<1>8. ASSUME NEW c \in Clients, WebThread(c) PROVE Reaped' /\ \A d \in Clients : Heard(d)' /\ Answered(d)'
  <2>1. ThreadFrame /\ Thread(c, Listening)
    BY <1>8 DEF WebThread, ThreadFrame
  <2>2. Reaped'
    BY <1>1, <2>1 DEF ThreadFrame, tinyVars, Reaped
  <2>3. CASE ProxyDies
    BY <1>1, <1>2, <2>1, <2>2, <2>3, ProxyDiesAnswered
  <2>4. CASE ~ProxyDies
    BY <1>1, <1>2, <1>3, <2>1, <2>2, <2>4, ThreadAnswered
  <2>5. QED
    BY <2>3, <2>4
<1>9. ASSUME NEW c \in Clients, ClientStep(c) PROVE Reaped' /\ \A d \in Clients : Heard(d)' /\ Answered(d)'
  <2>1. Reaped'
    BY <1>1, <1>9 DEF ClientStep, ClientConnects, ClientSends, ClientReceives, ClientLeaves, tinyVars, Reaped
  <2>2. QED
    BY <1>1, <1>2, <1>9, <2>1, ClientAnswered
<1>10. CASE UNCHANGED vars
  <2>1. /\ ask' = ask /\ todo' = todo /\ got' = got /\ end' = end /\ front' = front /\ back' = back /\ px' = px
        /\ tiny' = tiny /\ cgi' = cgi
    BY <1>10 DEF vars, clientVars, netVars, proxyVars, tinyVars
  <2>2. \A d \in Clients : Apart(d)
    BY <2>1 DEF Apart, tinyVars
  <2>3. QED
    BY <1>1, <2>1, <2>2, ApartKept DEF Reaped
<1>11. QED
  BY <1>5, <1>6, <1>7, <1>8, <1>9, <1>10 DEF Next, ClientStep
-----------------------------------------------------------------------------
(* Among clients that stay for the answer to a request in good order, or for
   that to a method other than GET, nothing breaks. *)
Civil(r) == Proper(r) \/ (r.form = "post" /\ r.waits)
AllCivil == \A c \in Clients : Civil(ask[c])

(* No end is closed before the answer has been passed on, so that no reset
   meets anybody who minds; what c can find before an end of file is its whole
   answer, but for what the child of tiny failed to write. *)
Calm(c) ==
  /\ px[c].pc # "spin" /\ end[c] # "left"
  /\ Proper(ask[c]) => end[c] # "failed" /\ Link(c).err["near"] = "no"
  /\ "near" \in Link(c).shut => "far" \in Link(c).shut
  /\ Proper(ask[c]) /\ end[c] = "open" /\ "far" \in Link(c).shut => todo[c] = <<>>
  /\ ask[c].to = "proxy" =>
       /\ "near" \in back[c].shut => "far" \in back[c].shut
       /\ back[c].err["near"] = "no"
       /\ px[c].pc = "send" => "far" \notin back[c].shut
       /\ Alive(c) /\ "far" \in back[c].shut => Up(c) ++ Missing(c) = Owed(c)
  /\ end[c] = "open" /\ "far" \in Link(c).shut /\ Link(c).err["near"] # "must" => Seen(c) ++ Missing(c) = Owed(c)

Mapped == tiny.pc \in {"head", "map"} => Stat(tiny.path).found
Peace == proxy # "down" /\ tiny.pc \notin {"spin", "down"} /\ Mapped /\ \A c \in Clients : Calm(c)
AllCalm == AllCivil => Peace
Serene == AllAnswered /\ AllCivil /\ Peace

(* What these layers say, to be cited at once. *)
LEMMA SereneHas ==
  ASSUME Serene
  PROVE  /\ Held /\ Functions /\ GoodQueues /\ proxy # "down" /\ tiny.pc \notin {"spin", "down"} /\ Mapped
         /\ \A c \in Clients : Asked(c) /\ Heard(c) /\ Answered(c) /\ Calm(c) /\ Civil(ask[c]) /\ Holding(c)
                               /\ GoodConn(front[c]) /\ GoodConn(back[c])
BY DEF Serene, AllAnswered, AllAsked, Peace, AllCivil, Held, GoodAt

(* At the start nothing is open. *)
LEMMA StartsCalm == Init => AllCalm
<1> SUFFICES ASSUME Init PROVE Peace
  BY DEF AllCalm
<1>1. proxy # "down" /\ tiny.pc \notin {"spin", "down"} /\ Mapped
  BY DEF Init, ProxyInit, TinyInit, Mapped
<1>2. ASSUME NEW c \in Clients PROVE Calm(c)
  <2>1. front[c] = Absent /\ back[c] = Absent /\ px[c] = Idle /\ end[c] = "new"
    BY <1>2 DEF Init, ProxyInit
  <2>2. Absent.shut = Ends /\ Absent.err["near"] = "no" /\ "near" \in Ends /\ "far" \in Ends
    BY AbsentIs, EndsAre
  <2>3. QED
    BY <2>1, <2>2, IdleIs DEF Calm, Link, Alive
<1>3. QED
  BY <1>1, <1>2 DEF Peace

(* A step that closes no end of the connections of c and resets none. *)
LEMMA CalmMoves ==
  ASSUME NEW c \in Clients, Calm(c), ask' = ask, end'[c] = end[c], todo'[c] = todo[c], px'[c].pc # "spin",
         Link(c)'.shut = Link(c).shut, Link(c)'.err["near"] = Link(c).err["near"],
         back'[c].shut = back[c].shut, back'[c].err["near"] = back[c].err["near"],
         px'[c].pc = "send" => px[c].pc = "send",
         ask[c].to = "proxy" /\ Alive(c) /\ "far" \in back[c].shut => Up(c)' = Up(c),
         "far" \in Link(c).shut => Seen(c)' = Seen(c)
  PROVE  Calm(c)'
<1>1. Owed(c)' = Owed(c) /\ Missing(c)' = Missing(c) /\ (Alive(c)' <=> Alive(c))
  BY DEF Owed, Missing, Alive
<1>2. QED
  BY <1>1 DEF Calm

(* What does not concern c keeps it calm. *)
LEMMA CalmKept ==
  ASSUME NEW c \in Clients, Calm(c), ask' = ask, end'[c] = end[c], todo'[c] = todo[c], got'[c] = got[c],
         px'[c] = px[c], front'[c] = front[c], back'[c] = back[c]
  PROVE  Calm(c)'
<1>1. Link(c)' = Link(c) /\ Seen(c)' = Seen(c) /\ Up(c)' = Up(c)
  BY DEF Link, Seen, Up, Carried
<1>2. px[c].pc # "spin"
  BY DEF Calm
<1>3. QED
  BY <1>1, <1>2, CalmMoves

(* A thread at work: its client waits, and both can write to each other. *)
LEMMA Attended ==
  ASSUME Serene, NEW c \in Clients, px[c].pc \in Busy
  PROVE  /\ ask[c].to = "proxy" /\ Link(c) = front[c] /\ proxy = "up" /\ end[c] = "open"
         /\ "far" \notin front[c].shut /\ "near" \notin front[c].shut /\ front[c].err["far"] = "no"
         /\ back[c].err["near"] = "no" /\ px[c] \in PxType /\ GoodThread(px[c])
         /\ px[c].pc \in Serving => Alive(c)
<1>1. /\ Held /\ GoodConn(front[c]) /\ Holding(c) /\ Calm(c) /\ Asked(c)
      /\ ask[c].to = "proxy" /\ end[c] # "new" /\ px[c] \in PxType /\ GoodThread(px[c])
  BY SereneHas, Threads
<1>2. Link(c) = front[c] /\ proxy = "up" /\ px[c].pc \notin {"none", "done"}
  BY <1>1, IdleIs DEF Link, Holding, Busy
<1>3. "far" \notin front[c].shut
  BY <1>1, <1>2 DEF Holding
<1>4. "near" \notin front[c].shut /\ end[c] = "open" /\ back[c].err["near"] = "no"
  BY <1>1, <1>2, <1>3 DEF Calm, Holding
<1>5. front[c].err["far"] = "no"
  BY <1>1, <1>4, EndsAre DEF GoodConn
<1>6. px[c].pc \in Serving => Alive(c)
  BY <1>1, <1>2, <1>4 DEF Holding, Alive
<1>7. QED
  BY <1>1, <1>2, <1>3, <1>4, <1>5, <1>6

(* So no thread ends the process. *)
LEMMA ThreadLives ==
  ASSUME Serene, NEW c \in Clients, Thread(c, Listening)
  PROVE  proxy' = proxy /\ ~ProxyDies
<1>1. px[c].pc \in Busy
  BY DEF Thread, RequestLine, Headers, OpensServer, WritesServer, ReadsServer, WritesClient, Busy
<1>2. /\ proxy = "up" /\ front[c].err["far"] = "no" /\ back[c].err["near"] = "no" /\ ask[c].to = "proxy"
      /\ Asked(c) /\ Civil(ask[c]) /\ GoodQueues /\ tiny.pc # "down"
  BY <1>1, SereneHas, Attended
<1>3. SUFFICES proxy' = proxy
  BY <1>2 DEF ProxyDies
<1>4. CASE RequestLine(c) \/ Headers(c)
  BY <1>2, <1>4 DEF RequestLine, Headers, ClientReset, AtError, ReadsClient, Goes
<1>5. CASE OpensServer(c, Listening)
  <2>1. px[c].pc = "connect" /\ px[c].uri = Target(ask[c]) /\ ask[c].form # "post"
    BY <1>2, <1>5 DEF OpensServer, Asked
  <2>2. ask[c].scheme = "http"
    BY <1>2, <2>1 DEF Civil, Proper
  <2>3. parse_uri(px[c].uri) = {"server"}
    BY <2>1, <2>2 DEF parse_uri, SchemeOf, Target
  <2>4. Listening
    BY <1>2 DEF Listening, GoodQueues
  <2>5. QED
    BY <1>5, <2>3, <2>4 DEF OpensServer, open_clientfd
<1>6. CASE WritesServer(c)
  BY <1>2, <1>6 DEF WritesServer, SigPipe
<1>7. CASE ReadsServer(c)
  BY <1>2, <1>7 DEF ReadsServer, AtError
<1>8. CASE WritesClient(c)
  BY <1>2, <1>8 DEF WritesClient, SigPipe
<1>9. QED
  BY <1>4, <1>5, <1>6, <1>7, <1>8 DEF Thread

(* What a write leaves of the resets: only the writer may learn of one. *)
LEMMA PutErr ==
  ASSUME NEW k, GoodConn(k), NEW s
  PROVE  /\ "far" \notin k.shut => Put(k, "near", s).err = k.err
         /\ "near" \notin k.shut => Put(k, "far", s).err = k.err
         /\ Put(k, "far", s).err["near"] = k.err["near"]
         /\ Put(k, "near", s).err["near"] = "must" <=> k.err["near"] = "must"
         /\ Put(k, "near", s).shut = k.shut /\ Put(k, "far", s).shut = k.shut
<1>1. /\ Other("near") = "far" /\ Other("far") = "near" /\ "near" \in Ends /\ "far" \in Ends
      /\ k \in [data : [Ends -> Seq(Byte)], shut : SUBSET Ends, err : [Ends -> Errs]]
  BY EndsAre DEF GoodConn
<1>2. ASSUME "far" \in k.shut PROVE Put(k, "near", s).shut = k.shut /\ (Put(k, "near", s).err["near"] = "must" <=> k.err["near"] = "must")
  <2>1. PICK x : x = (IF k.err["near"] = "no" THEN "may" ELSE k.err["near"])
    OBVIOUS
  <2>2. Put(k, "near", s) = [k EXCEPT !.err["near"] = x]
    BY <1>1, <1>2, <2>1 DEF Put
  <2>3. QED
    BY <1>1, <2>1, <2>2
<1>3. ASSUME "near" \in k.shut PROVE Put(k, "far", s).shut = k.shut /\ Put(k, "far", s).err["near"] = k.err["near"]
  <2>1. PICK x : Put(k, "far", s) = [k EXCEPT !.err["far"] = x]
    BY <1>1, <1>3 DEF Put
  <2>2. QED
    BY <1>1, <2>1
<1>4. ASSUME "far" \notin k.shut PROVE Put(k, "near", s).shut = k.shut /\ Put(k, "near", s).err = k.err
  BY <1>1, <1>4 DEF Put
<1>5. ASSUME "near" \notin k.shut PROVE Put(k, "far", s).shut = k.shut /\ Put(k, "far", s).err = k.err
  BY <1>1, <1>5 DEF Put
<1>6. QED
  BY <1>2, <1>3, <1>4, <1>5

(* A step of a thread that closes nothing. *)
LEMMA ThreadCalm ==
  ASSUME Serene, NEW c \in Clients, px[c].pc \in Busy, ThreadFrame, px'[c].pc # "spin",
         px'[c].pc = "send" => px[c].pc = "send",
         front'[c].shut = front[c].shut, front'[c].err["near"] = front[c].err["near"],
         back'[c].shut = back[c].shut, back'[c].err["near"] = back[c].err["near"],
         px[c].pc \in Serving /\ "far" \in back[c].shut => Up(c)' = Up(c)
  PROVE  Calm(c)'
<1>1. /\ Calm(c) /\ ask[c].to = "proxy" /\ "far" \notin front[c].shut /\ Held
      /\ ask' = ask /\ end' = end /\ todo' = todo /\ Link(c) = front[c]
  BY SereneHas, Attended DEF ThreadFrame, clientVars
<1>2. Link(c)' = front'[c]
  BY <1>1 DEF Link
<1>3. Alive(c) => px[c].pc \in Serving
  BY <1>1, NotWithServer
<1>4. QED
  BY <1>1, <1>2, <1>3, CalmMoves

(* Reading a line of the request. *)
LEMMA ReadsClientCalm ==
  ASSUME Serene, NEW c \in Clients, px[c].pc \in Reading, ReadsClient(c), ThreadFrame
  PROVE  Calm(c)'
<1>1. px[c].pc \in Busy /\ px[c] \in PxType /\ Functions /\ GoodConn(front[c]) /\ "far" \in Ends
  BY SereneHas, Attended, EndsAre DEF Reading, Busy
<1>2. PICK n \in ReadSizes(front[c], "far") :
        /\ px' = [px EXCEPT ![c].rio = Refill(@, SubSeq(front[c].data["far"], 1, n))]
        /\ front' = [front EXCEPT ![c] = Taken(@, "far", n)] /\ back' = back
  BY DEF ReadsClient
<1>3. PICK q : px' = [px EXCEPT ![c].rio = q]
  BY <1>2
<1>4. px'[c] = [px[c] EXCEPT !.rio = q] /\ front'[c] = Taken(front[c], "far", n)
  BY <1>1, <1>2, <1>3 DEF Functions
<1>5. px'[c].pc = px[c].pc
  BY <1>1, <1>4 DEF PxType
<1>6. n \in Nat
  BY <1>1, <1>2, ReadSizesAre
<1>7. front'[c].shut = front[c].shut /\ front'[c].err = front[c].err
  BY <1>1, <1>4, <1>6, TakenIs
<1>8. QED
  BY <1>1, <1>2, <1>5, <1>7, ThreadCalm DEF Reading, Serving

(* The thread finds a line each time, for its client closes nothing. *)
LEMMA RequestCalm ==
  ASSUME Serene, NEW c \in Clients, RequestLine(c) \/ Headers(c), ThreadFrame, ~ProxyDies
  PROVE  Calm(c)'
<1>1. px[c].pc \in Reading
  BY DEF RequestLine, Headers, Reading
<1>2. /\ px[c].pc \in Busy /\ px[c] \in PxType /\ Functions /\ "near" \notin front[c].shut
      /\ px[c].pc \notin {"spin", "send"} \cup Serving
  BY <1>1, SereneHas, Attended DEF Reading, Busy, Serving
<1>3. CASE ReadsClient(c)
  BY <1>1, <1>3, ReadsClientCalm
<1>4. ~NoLine(c)
  BY <1>2, EndsAre DEF NoLine, AtEof
<1>5. ASSUME px'[c].pc \notin {"spin", "send"}, UNCHANGED netVars PROVE Calm(c)'
  BY <1>2, <1>5, ThreadCalm DEF netVars
<1>6. ASSUME NEW g \in GotLines(c),
             px' = [px EXCEPT ![c] =
               IF g.line[1][1] = "GET"
               THEN [@ EXCEPT !.pc = "hdr1", !.uri = g.line[1], !.rio = g.rio]
               ELSE [@ EXCEPT !.pc = "error", !.out = clienterror("501")]],
             UNCHANGED <<calls, proxy, netVars>>
      PROVE  Calm(c)'
  <2>1. PICK byte, rio, page : byte = g.line[1] /\ rio = g.rio /\ page = clienterror("501")
    OBVIOUS
  <2>2. px'[c] = IF byte[1] = "GET" THEN [px[c] EXCEPT !.pc = "hdr1", !.uri = byte, !.rio = rio]
                 ELSE [px[c] EXCEPT !.pc = "error", !.out = page]
    BY <1>2, <1>6, <2>1 DEF Functions
  <2>3. px'[c].pc \in {"hdr1", "error"}
    BY <1>2, <2>2 DEF PxType
  <2>4. QED
    BY <1>5, <1>6, <2>3
<1>7. ASSUME NEW g \in GotLines(c),
             px' = [px EXCEPT ![c].rio = g.rio, ![c].pc = IF g.line = Blank THEN "connect" ELSE "hdrs"],
             UNCHANGED <<calls, proxy, netVars>>
      PROVE  Calm(c)'
  <2>1. PICK rio, to : rio = g.rio /\ to = (IF g.line = Blank THEN "connect" ELSE "hdrs") /\ to \in {"connect", "hdrs"}
    OBVIOUS
  <2>2. px'[c] = [px[c] EXCEPT !.rio = rio, !.pc = to]
    BY <1>2, <1>7, <2>1 DEF Functions
  <2>3. px'[c].pc = to
    BY <1>2, <2>2 DEF PxType
  <2>4. QED
    BY <1>5, <1>7, <2>1, <2>3
<1>8. QED
  BY <1>3, <1>4, <1>6, <1>7 DEF RequestLine, Headers, ClientReset

(* The connection to tiny is new. *)
LEMMA OpensServerCalm ==
  ASSUME Serene, NEW c \in Clients, OpensServer(c, Listening), ThreadFrame, ~ProxyDies
  PROVE  Calm(c)'
<1>1. px[c].pc = "connect" /\ px[c].pc \in Busy
  BY DEF OpensServer, Busy
<1>2. /\ px[c] \in PxType /\ Functions /\ Calm(c) /\ ask[c].to = "proxy" /\ Link(c) = front[c] /\ "far" \notin front[c].shut
      /\ ask' = ask /\ end' = end /\ todo' = todo
  BY <1>1, SereneHas, Attended DEF ThreadFrame, clientVars
<1>3. PICK out : px' = [px EXCEPT ![c].pc = "send", ![c].out = out] /\ back' = [back EXCEPT ![c] = Fresh] /\ front' = front
  BY DEF OpensServer
<1>4. px'[c] = [px[c] EXCEPT !.pc = "send", !.out = out] /\ back'[c] = Fresh
  BY <1>2, <1>3 DEF Functions
<1>5. px'[c].pc = "send"
  BY <1>2, <1>4 DEF PxType
<1>6. Fresh.shut = {} /\ Fresh.err["near"] = "no"
  BY FreshIs, EndsAre
<1>7. Link(c)' = front[c]
  BY <1>2, <1>3 DEF Link
<1>8. QED
  BY <1>2, <1>4, <1>5, <1>6, <1>7 DEF Calm

(* Tiny closes nothing before it has read what the thread sends. *)
LEMMA WritesServerCalm ==
  ASSUME Serene, NEW c \in Clients, WritesServer(c), ThreadFrame, ~ProxyDies
  PROVE  Calm(c)'
<1>1. px[c].pc = "send" /\ px[c].pc \in Busy
  BY DEF WritesServer, Busy
<1>2. /\ px[c] \in PxType /\ Functions /\ GoodConn(back[c]) /\ ask[c].to = "proxy"
      /\ "far" \notin back[c].shut
  BY <1>1, SereneHas, Attended DEF Calm
<1>3. PICK n : /\ back' = [back EXCEPT ![c] = Put(@, "near", SubSeq(px[c].out, 1, n))]
               /\ px' = [px EXCEPT ![c].out = SubSeq(@, n + 1, Len(@)),
                                   ![c].pc = IF n = Len(px[c].out) THEN "relay" ELSE @,
                                   ![c].rio = IF n = Len(px[c].out) THEN rio_readinitb ELSE @]
               /\ front' = front
  BY DEF WritesServer
<1>4. PICK s, t, to, r : /\ s = SubSeq(px[c].out, 1, n) /\ t = SubSeq(px[c].out, n + 1, Len(px[c].out))
                         /\ to = (IF n = Len(px[c].out) THEN "relay" ELSE "send") /\ to \in {"relay", "send"}
                         /\ r = (IF n = Len(px[c].out) THEN rio_readinitb ELSE px[c].rio)
  OBVIOUS
<1>5. px'[c] = [px[c] EXCEPT !.out = t, !.pc = to, !.rio = r] /\ back'[c] = Put(back[c], "near", s)
  BY <1>1, <1>2, <1>3, <1>4 DEF Functions
<1>6. px'[c].pc = to
  BY <1>2, <1>5 DEF PxType
<1>7. back'[c].shut = back[c].shut /\ back'[c].err = back[c].err
  BY <1>2, <1>5, PutErr
<1>8. px'[c].pc # "spin"
  BY <1>4, <1>6
<1>9. QED
  BY <1>1, <1>2, <1>3, <1>7, <1>8, ThreadCalm

(* When the thread closes, what it has passed on is all there is. *)
LEMMA ServerEnds ==
  ASSUME Serene, NEW c \in Clients, px[c].pc = "relay", ThreadFrame,
         AtEof(back[c], "near"), px[c].rio.usr = <<>>,
         NEW f \in Shut(front[c], "far"), NEW b \in Shut(back[c], "near"),
         front' = [front EXCEPT ![c] = f], back' = [back EXCEPT ![c] = b],
         px' = [px EXCEPT ![c] = [Idle EXCEPT !.pc = "done"]]
  PROVE  Calm(c)'
<1>1. /\ ask[c].to = "proxy" /\ Functions /\ px[c] \in PxType /\ GoodConn(back[c]) /\ GoodConn(front[c])
      /\ ask' = ask /\ got' = got /\ todo' = todo /\ end' = end /\ Held /\ Calm(c) /\ Alive(c)
      /\ Link(c) = front[c] /\ end[c] = "open" /\ proxy = "up" /\ Asked(c)
      /\ px[c].out = <<>> /\ px[c].rio.buf = <<>>
  BY SereneHas, Attended DEF Busy, Serving, ThreadFrame, clientVars, GoodThread
<1>2. front[c].data["far"] = <<>> /\ todo[c] = <<>>
  BY <1>1 DEF Asked, Serving
<1>3. "near" \in Ends /\ "far" \in Ends /\ Other("far") = "near" /\ Other("near") = "far"
  BY EndsAre
<1>4. back[c].data["near"] = <<>> /\ "far" \in back[c].shut
  BY <1>3 DEF AtEof
<1>5. front'[c] = f /\ back'[c] = b /\ px'[c] = [Idle EXCEPT !.pc = "done"]
  BY <1>1 DEF Functions
<1>6. px'[c].pc = "done"
  BY <1>5, IdleIs DEF GoodThread, PxType
<1>7. b.shut = back[c].shut \cup {"near"} /\ b.err = back[c].err
  <2>1. PICK k : k = back[c] /\ GoodConn(k) /\ b \in Shut(k, "near") /\ k.data["near"] = <<>>
    BY <1>1, <1>4
  <2>2. b.shut = k.shut \cup {"near"} /\ b.err = k.err
    BY <1>3, <2>1, ShutIs
  <2>3. QED
    BY <2>1, <2>2
<1>8. f.shut = front[c].shut \cup {"far"} /\ f.err = front[c].err /\ f.data["near"] = front[c].data["near"]
  <2>1. PICK k : k = front[c] /\ GoodConn(k) /\ f \in Shut(k, "far") /\ k.data["far"] = <<>>
    BY <1>1, <1>2
  <2>2. f.shut = k.shut \cup {"far"} /\ f.err = k.err /\ f.data[Other("far")] = k.data[Other("far")]
    BY <1>3, <2>1, ShutIs
  <2>3. QED
    BY <1>3, <2>1, <2>2
<1>9. Up(c) = Seen(c)
  <2>1. <<>> ++ <<>> = <<>> /\ got[c] ++ front[c].data["near"] \in Seq(AnsByte) /\ Seen(c) = got[c] ++ front[c].data["near"]
    BY <1>1, ArrowsAre, Unit, EmptySeq DEF Seen
  <2>2. Carried(c) = <<>> ++ (<<>> ++ <<>>)
    BY <1>1 DEF Carried
  <2>3. Carried(c) ++ back[c].data["near"] = <<>>
    BY <1>4, <2>1, <2>2
  <2>4. QED
    BY <2>1, <2>3, Unit DEF Up
<1>10. Up(c) ++ Missing(c) = Owed(c)
  BY <1>1, <1>4 DEF Calm
<1>11. Link(c)' = f /\ Seen(c)' = Seen(c) /\ Owed(c)' = Owed(c) /\ Missing(c)' = Missing(c) /\ ~Alive(c)'
  BY <1>1, <1>3, <1>5, <1>7, <1>8 DEF Link, Seen, Owed, Missing, Alive
<1>12. Proper(ask[c]) => f.err["near"] = "no"
  BY <1>1, <1>8 DEF Calm
<1>13. "far" \in b.shut /\ b.err["near"] = "no" /\ "far" \in f.shut
  BY <1>1, <1>4, <1>7, <1>8 DEF Calm
<1>14. QED
  BY <1>1, <1>2, <1>5, <1>6, <1>9, <1>10, <1>11, <1>12, <1>13 DEF Calm

(* So every step in which the thread reads from tiny. *)
LEMMA ReadsServerCalm ==
  ASSUME Serene, NEW c \in Clients, ReadsServer(c), ThreadFrame, ~ProxyDies
  PROVE  Calm(c)'
<1>1. px[c].pc = "relay" /\ px[c].pc \in Busy
  BY DEF ReadsServer, Busy
<1>2. /\ ask[c].to = "proxy" /\ Functions /\ px[c] \in PxType /\ GoodConn(back[c]) /\ Held /\ Heard(c) /\ Answered(c)
  BY <1>1, SereneHas, Attended
<1>3. px'[c].pc # "done" => Up(c)' = Up(c)
  BY <1>2, ReadsServerAnswered
<1>4. ASSUME NEW n \in ReadSizes(back[c], "near"),
             px' = [px EXCEPT ![c] = Block(c, Copied(Refill(@.rio, SubSeq(back[c].data["near"], 1, n))))],
             back' = [back EXCEPT ![c] = Taken(@, "near", n)], UNCHANGED <<calls, proxy, front, ring>>
      PROVE  Calm(c)'
  <2>1. "near" \in Ends /\ n \in Nat
    BY <1>2, EndsAre, ReadSizesAre
  <2>2. PICK k, l : k = back[c] /\ l = Taken(k, "near", n) /\ GoodConn(k) /\ back'[c] = l
    BY <1>2, <1>4 DEF Functions
  <2>3. l.shut = k.shut /\ l.err = k.err
    BY <2>1, <2>2, TakenIs
  <2>4. PICK w : px'[c] = Block(c, w)
    BY <1>2, <1>4 DEF Functions
  <2>5. px'[c].pc \in {"write", "relay"}
    BY <1>2, <2>4, BlockPc
  <2>6. front'[c] = front[c] /\ px'[c].pc \notin {"spin", "send", "done"}
    BY <1>4, <2>5
  <2>7. QED
    BY <1>1, <1>3, <2>2, <2>3, <2>6, ThreadCalm
<1>5. ASSUME px' = [px EXCEPT ![c].pc = "write", ![c].out = px[c].rio.usr, ![c].rio.usr = <<>>],
             UNCHANGED <<calls, proxy, netVars>>
      PROVE  Calm(c)'
  <2>1. PICK r, q : r = px[c].rio.usr /\ q = [px[c].rio EXCEPT !.usr = <<>>]
    OBVIOUS
  <2>2. px'[c] = [px[c] EXCEPT !.pc = "write", !.out = r, !.rio = q]
    BY <1>2, <1>5, <2>1 DEF Functions
  <2>3. px'[c].pc = "write"
    BY <1>2, <2>2 DEF PxType
  <2>4. QED
    BY <1>1, <1>3, <1>5, <2>3, ThreadCalm DEF netVars
<1>6. QED
  BY <1>1, <1>4, <1>5, ServerEnds DEF ReadsServer

(* The client is there to take what the thread writes. *)
LEMMA WritesClientCalm ==
  ASSUME Serene, Held', NEW c \in Clients, WritesClient(c), ThreadFrame, ~ProxyDies
  PROVE  Calm(c)'
<1>1. px[c].pc \in {"write", "error"} /\ px[c].pc \in Busy
  BY DEF WritesClient, Busy
<1>2. /\ ask[c].to = "proxy" /\ Functions /\ px[c] \in PxType /\ GoodConn(front[c]) /\ Held /\ Heard(c) /\ Answered(c)
      /\ "near" \notin front[c].shut
  BY <1>1, SereneHas, Attended
<1>3. px[c].pc \in Serving => Up(c)' = Up(c)
  BY <1>1, <1>2, WritesClientAnswered DEF Serving
<1>4. PICK n : /\ front' = [front EXCEPT ![c] = Put(@, "far", SubSeq(px[c].out, 1, n))]
               /\ px' = [px EXCEPT ![c] =
                    IF n < Len(@.out) THEN [px[c] EXCEPT !.out = SubSeq(@, n + 1, Len(@))]
                    ELSE IF @.pc = "error" THEN [Idle EXCEPT !.pc = "leaked"]
                    ELSE Block(c, Copied(@.rio))]
               /\ back' = back
  BY DEF WritesClient
<1>5. PICK s, t, w : s = SubSeq(px[c].out, 1, n) /\ t = SubSeq(px[c].out, n + 1, Len(px[c].out)) /\ w = Copied(px[c].rio)
  OBVIOUS
<1>6. front'[c] = Put(front[c], "far", s)
  BY <1>2, <1>4, <1>5 DEF Functions
<1>7. front'[c].shut = front[c].shut /\ front'[c].err = front[c].err
  BY <1>2, <1>6, PutErr
<1>8. px'[c] = [px[c] EXCEPT !.out = t] \/ px'[c] = [Idle EXCEPT !.pc = "leaked"] \/ px'[c] = Block(c, w)
  BY <1>2, <1>4, <1>5 DEF Functions
<1>9. px'[c].pc \notin {"spin", "send"}
  <2>1. CASE px'[c] = [px[c] EXCEPT !.out = t]
    BY <1>1, <1>2, <2>1 DEF PxType
  <2>2. CASE px'[c] = [Idle EXCEPT !.pc = "leaked"]
    BY <2>2, IdleIs DEF GoodThread, PxType
  <2>3. CASE px'[c] = Block(c, w)
    <3>1. px'[c].pc \in {"write", "relay"}
      BY <1>2, <2>3, BlockPc
    <3>2. QED
      BY <3>1
  <2>4. QED
    BY <1>8, <2>1, <2>2, <2>3
<1>10. QED
  BY <1>1, <1>3, <1>4, <1>7, <1>9, ThreadCalm

(* So every step of a thread. *)
LEMMA ThreadStepCalm ==
  ASSUME Serene, Held', NEW c \in Clients, Thread(c, Listening), ThreadFrame
  PROVE  Peace'
<1>1. proxy' = proxy /\ ~ProxyDies
  BY ThreadLives
<1>2. Held /\ proxy # "down" /\ tiny.pc \notin {"spin", "down"} /\ Mapped /\ tiny' = tiny
  BY SereneHas DEF ThreadFrame, tinyVars
<1>3. ASSUME NEW d \in Clients PROVE Calm(d)'
  <2>1. CASE d = c
    BY <1>1, <2>1, RequestCalm, OpensServerCalm, WritesServerCalm, ReadsServerCalm, WritesClientCalm DEF Thread
  <2>2. CASE d # c
    <3>1. Same(d) /\ back'[d] = back[d] /\ Calm(d)
      BY <1>1, <1>2, <1>3, <2>2, ThreadElse, SereneHas
    <3>2. QED
      BY <3>1, CalmKept DEF Same
  <2>3. QED
    BY <2>1, <2>2
<1>4. QED
  BY <1>1, <1>2, <1>3 DEF Peace, Mapped

(* The steps of the clients. *)
LEMMA ClientConnectsCalm ==
  ASSUME Serene, NEW c \in Clients, ClientConnects(c)
  PROVE  Calm(c)'
<1>1. /\ Held /\ Functions /\ Calm(c) /\ Holding(c) /\ end[c] = "new" /\ Holds(c, Fresh) /\ px' = px /\ ask' = ask
      /\ end' = [end EXCEPT ![c] = "open"]
  BY SereneHas DEF ClientConnects
<1>2. Link(c)' = Fresh /\ (ask[c].to = "proxy" => back'[c] = back[c])
  BY <1>1, HoldsIs
<1>3. px'[c] = Idle /\ end'[c] = "open" /\ back[c] = Absent
  BY <1>1 DEF Holding, Functions
<1>4. /\ Fresh.shut = {} /\ Fresh.err["near"] = "no" /\ Absent.shut = Ends /\ Absent.err["near"] = "no"
      /\ "near" \in Ends /\ "far" \in Ends
  BY FreshIs, AbsentIs, EndsAre
<1>5. QED
  BY <1>1, <1>2, <1>3, <1>4, IdleIs DEF Calm, Alive

(* A client in good order has sent everything before its peer closes; any other may learn of that here. *)
LEMMA ClientSendsCalm ==
  ASSUME Serene, NEW c \in Clients, ClientSends(c)
  PROVE  Calm(c)'
<1>1. /\ Held /\ Functions /\ Calm(c) /\ GoodConn(Link(c)) /\ px' = px /\ ask' = ask /\ end' = end /\ got' = got
      /\ end[c] = "open" /\ todo[c] # <<>> /\ todo[c] \in Seq(AskByte)
  BY SereneHas, LinkGood DEF ClientSends, proxyVars, Functions
<1>2. PICK n : n = Fits(Link(c), "near", todo[c]) /\ n > 0 /\ Holds(c, Put(Link(c), "near", SubSeq(todo[c], 1, n)))
  BY DEF ClientSends
<1>3. PICK k, s, l : k = Link(c) /\ s = SubSeq(todo[c], 1, n) /\ l = Put(k, "near", s) /\ GoodConn(k)
  BY <1>1
<1>4. "near" \in Ends /\ Other("near") = "far" /\ Flow("far") = AskByte
  BY EndsAre DEF Flow
<1>5. l.data["near"] = k.data["near"] /\ l.shut = k.shut
  BY <1>1, <1>2, <1>3, <1>4, WriteIs
<1>6. ("far" \notin k.shut => l.err = k.err) /\ (l.err["near"] = "must" <=> k.err["near"] = "must")
  BY <1>3, PutErr
<1>7. /\ Link(c)' = l
      /\ ask[c].to = "proxy" => front'[c] = l /\ back'[c] = back[c] /\ front[c] = k
  BY <1>1, <1>2, <1>3, HoldsIs
<1>8. Seen(c)' = Seen(c) /\ (ask[c].to = "proxy" => Up(c)' = Up(c))
  BY <1>1, <1>3, <1>5, <1>7 DEF Seen, Up, Carried
<1>9. Proper(ask[c]) => "far" \notin k.shut
  BY <1>1, <1>3 DEF Calm
<1>10. Owed(c)' = Owed(c) /\ Missing(c)' = Missing(c) /\ (ask[c].to = "proxy" => (Alive(c)' <=> Alive(c)))
  BY <1>1, <1>3, <1>5, <1>7 DEF Owed, Missing, Alive
<1>11. /\ px'[c].pc # "spin" /\ end'[c] = "open"
       /\ Proper(ask'[c]) => Link(c)'.err["near"] = "no" /\ "far" \notin Link(c)'.shut
       /\ "near" \in Link(c)'.shut => "far" \in Link(c)'.shut
  BY <1>1, <1>3, <1>5, <1>6, <1>7, <1>9 DEF Calm
<1>12. ask'[c].to = "proxy" =>
         /\ "near" \in back'[c].shut => "far" \in back'[c].shut
         /\ back'[c].err["near"] = "no"
         /\ px'[c].pc = "send" => "far" \notin back'[c].shut
         /\ Alive(c)' /\ "far" \in back'[c].shut => Up(c)' ++ Missing(c)' = Owed(c)'
  BY <1>1, <1>7, <1>8, <1>10 DEF Calm
<1>13. "far" \in Link(c)'.shut /\ Link(c)'.err["near"] # "must" => Seen(c)' ++ Missing(c)' = Owed(c)'
  BY <1>1, <1>3, <1>5, <1>6, <1>7, <1>8, <1>10 DEF Calm
<1>14. QED
  BY <1>11, <1>12, <1>13 DEF Calm

(* The bytes a client takes stay among those it has seen; at an end of file it closes after its peer. *)
LEMMA ClientReceivesCalm ==
  ASSUME Serene, NEW c \in Clients, ClientReceives(c)
  PROVE  Calm(c)'
<1>1. /\ Held /\ Functions /\ Calm(c) /\ Heard(c) /\ Answered(c) /\ GoodConn(Link(c)) /\ px' = px /\ ask' = ask
      /\ tiny' = tiny /\ cgi' = cgi /\ todo' = todo /\ end[c] = "open" /\ "near" \in Ends /\ Other("near") = "far"
  BY SereneHas, LinkGood, EndsAre DEF ClientReceives, proxyVars, tinyVars
<1>2. PICK k : k = Link(c) /\ GoodConn(k)
  BY <1>1
<1>3. ASSUME got' = [got EXCEPT ![c] = @ \o Link(c).data["near"]], Holds(c, Taken(Link(c), "near", SockBuf)), end' = end
      PROVE  Calm(c)'
  <2>1. Seen(c)' = Seen(c) /\ Up(c)' = Up(c)
    BY <1>1, <1>3, ClientTakes DEF tinyVars
  <2>2. PICK l : l = Taken(k, "near", SockBuf)
    OBVIOUS
  <2>3. l.shut = k.shut /\ l.err = k.err
    <3>1. SockBuf \in Nat
      BY SockBufAssumption
    <3>2. QED
      BY <1>1, <1>2, <2>2, <3>1, TakenIs
  <2>4. /\ Link(c)' = l
        /\ ask[c].to = "proxy" => back'[c] = back[c]
        /\ ask[c].to # "proxy" => back'[c] = l /\ back[c] = k
    BY <1>1, <1>2, <1>3, <2>2, HoldsIs
  <2>5. back'[c].shut = back[c].shut /\ back'[c].err["near"] = back[c].err["near"]
    BY <2>3, <2>4
  <2>6. px'[c].pc # "spin"
    BY <1>1 DEF Calm
  <2>7. QED
    BY <1>1, <1>2, <1>3, <2>1, <2>3, <2>4, <2>5, <2>6, CalmMoves
<1>4. ASSUME AtEof(Link(c), "near") \/ AtError(Link(c), "near"),
             end' = [end EXCEPT ![c] = IF AtError(Link(c), "near") THEN "failed" ELSE "eof"],
             NEW l \in Shut(Link(c), "near"), Holds(c, l)
      PROVE  Calm(c)'
  <2>1. "far" \in k.shut
    BY <1>1, <1>2, <1>4 DEF AtEof, AtError, GoodConn
  <2>2. l.shut = k.shut \cup {"near"} /\ l.err = k.err
    <3>1. l \in Shut(k, "near")
      BY <1>2, <1>4
    <3>2. QED
      BY <1>1, <1>2, <2>1, <3>1, ShutIs
  <2>3. Link(c)' = l /\ (ask[c].to = "proxy" => back'[c] = back[c])
    BY <1>1, <1>4, HoldsIs
  <2>4. end'[c] = IF AtError(Link(c), "near") THEN "failed" ELSE "eof"
    BY <1>1, <1>4 DEF Functions
  <2>5. Proper(ask[c]) => end'[c] # "failed"
    BY <1>1, <2>4 DEF AtError, Calm
  <2>6. QED
    BY <1>1, <1>2, <2>1, <2>2, <2>3, <2>4, <2>5 DEF Calm, Alive
<1>5. QED
  BY <1>3, <1>4 DEF ClientReceives

(* So every step of a client, and none leaves. *)
LEMMA ClientCalm ==
  ASSUME Serene, NEW c \in Clients, ClientStep(c)
  PROVE  Peace'
<1>1. Held /\ proxy # "down" /\ tiny.pc \notin {"spin", "down"} /\ Mapped /\ Civil(ask[c])
  BY SereneHas
<1>2. proxy' = proxy /\ tiny' = tiny
  BY DEF ClientStep, ClientConnects, ClientSends, ClientReceives, ClientLeaves, proxyVars, tinyVars
<1>3. ~ClientLeaves(c)
  BY <1>1 DEF ClientLeaves, Civil, Proper
<1>4. ASSUME NEW d \in Clients PROVE Calm(d)'
  <2>1. CASE d = c
    BY <1>3, <2>1, ClientConnectsCalm, ClientSendsCalm, ClientReceivesCalm DEF ClientStep
  <2>2. CASE d # c
    <3>1. Same(d) /\ back'[d] = back[d] /\ Calm(d)
      BY <1>1, <1>4, <2>2, ClientElse, SereneHas
    <3>2. QED
      BY <3>1, CalmKept DEF Same
  <2>3. QED
    BY <2>1, <2>2
<1>5. QED
  BY <1>1, <1>2, <1>4 DEF Peace, Mapped

(* The main thread of the proxy hands over a connection. *)
LEMMA WebProxyCalm == ASSUME Serene, WebProxy PROVE Peace'
<1>1. Held /\ Functions /\ GoodQueues /\ proxy # "down" /\ tiny.pc \notin {"spin", "down"} /\ Mapped
  BY SereneHas
<1>2. /\ tiny' = tiny /\ front' = front /\ back' = back /\ ask' = ask /\ todo' = todo /\ got' = got /\ end' = end
      /\ proxy' # "down"
  BY <1>1 DEF WebProxy, ProxyListens, ProxyAccept, tinyVars, clientVars, netVars
<1>3. ASSUME NEW d \in Clients, px'[d] = px[d] PROVE Calm(d)'
  BY <1>2, <1>3, SereneHas, CalmKept
<1>4. CASE ProxyListens
  BY <1>1, <1>2, <1>3, <1>4 DEF ProxyListens, Peace, Mapped
<1>5. CASE ProxyAccept
  <2>1. PICK c : c = Head(calls) /\ c \in Clients /\ c \in Queued(calls) /\ px' = [px EXCEPT ![c] = [Idle EXCEPT !.pc = "line"]]
    BY <1>1, <1>5, Queues DEF ProxyAccept, GoodQueues
  <2>2. px'[c] = [Idle EXCEPT !.pc = "line"]
    BY <1>1, <2>1 DEF Functions
  <2>3. px'[c].pc = "line"
    BY <2>2, IdleIs DEF GoodThread, PxType
  <2>4. Calm(c) /\ ask[c].to = "proxy" /\ px[c] = Idle
    BY <2>1, SereneHas DEF Holding
  <2>5. ~Alive(c)
    BY <1>1, <2>1, <2>4, IdleIs, NotWithServer DEF Serving
  <2>6. Link(c)' = Link(c) /\ Seen(c)' = Seen(c)
    BY <1>2 DEF Link, Seen
  <2>7. Calm(c)'
    BY <1>2, <2>1, <2>3, <2>4, <2>5, <2>6, CalmMoves
  <2>8. ASSUME NEW d \in Clients, d # c PROVE px'[d] = px[d]
    BY <1>1, <2>1, <2>8 DEF Functions
  <2>9. QED
    BY <1>1, <1>2, <1>3, <2>7, <2>8 DEF Peace, Mapped
<1>6. QED
  BY <1>4, <1>5 DEF WebProxy

(* The connection tiny serves: everybody on it stays for the answer. *)
LEMMA TinyAttended ==
  ASSUME Serene, tiny.pc \notin {"starting", "accept"}, NEW c, c = tiny.conn
  PROVE  /\ c \in Clients /\ GoodConn(back[c]) /\ "far" \notin back[c].shut /\ "near" \notin back[c].shut
         /\ back[c].err["far"] = "no" /\ Alive(c) /\ ~TinyReset /\ ~TinyNoLine /\ ~TinySigPipe
         /\ tiny \in TinyType
<1>1. Held /\ tiny.pc \notin {"starting", "accept", "down"}
  BY SereneHas
<1>2. c \in Clients /\ GoodConn(back[c]) /\ tiny \in TinyType
  BY <1>1, TinyServes
<1>3. Calm(c) /\ Holding(c) /\ Asked(c)
  BY <1>2, SereneHas
<1>4. "far" \notin back[c].shut
  BY <1>3 DEF Holding
<1>5. "near" \notin back[c].shut
  BY <1>3, <1>4 DEF Calm, Link
<1>6. back[c].err["far"] = "no"
  BY <1>2, <1>5, EndsAre DEF GoodConn
<1>7. "near" \notin Link(c).shut
  <2>1. CASE ask[c].to # "proxy"
    BY <1>5, <2>1 DEF Link
  <2>2. CASE ask[c].to = "proxy"
    <3>1. px[c].pc \in Serving
      BY <1>3, <1>5, <2>2 DEF Holding
    <3>2. px[c].pc \notin {"none", "done"}
      BY <3>1 DEF Serving
    <3>3. proxy = "up" /\ end[c] # "new" /\ Link(c) = front[c]
      BY <1>3, <2>2, <3>2, IdleIs DEF Holding, Link
    <3>4. "far" \notin front[c].shut
      BY <1>1, <1>2, <1>3, <2>2, <3>2, <3>3, Whereabouts
    <3>5. QED
      BY <1>3, <3>3, <3>4 DEF Calm
  <2>3. QED
    BY <2>1, <2>2
<1>8. Alive(c)
  BY <1>5, <1>7 DEF Alive
<1>9. ~TinyReset /\ ~TinyNoLine /\ ~TinySigPipe
  BY <1>5, <1>6, EndsAre DEF TinyReset, TinyNoLine, TinySigPipe, AtError, AtEof
<1>10. QED
  BY <1>2, <1>4, <1>5, <1>6, <1>8, <1>9

(* What tiny and its child do to the connection, short of closing it. *)
LEMMA TinyWorksCalm ==
  ASSUME Serene, tiny.pc \notin {"starting", "accept"}, NEW c, c = tiny.conn, NEW l,
         back' = [back EXCEPT ![c] = l], l.shut = back[c].shut, l.err["near"] = back[c].err["near"],
         UNCHANGED <<proxyVars, front, clientVars>>, tiny'.pc \notin {"spin", "down"}, Mapped'
  PROVE  Peace'
<1>1. /\ c \in Clients /\ Functions /\ "far" \notin back[c].shut /\ proxy' = proxy /\ proxy # "down"
      /\ px' = px /\ front' = front /\ ask' = ask /\ todo' = todo /\ got' = got /\ end' = end
  BY TinyAttended, SereneHas DEF proxyVars, clientVars
<1>2. back'[c] = l
  BY <1>1 DEF Functions
<1>3. ASSUME NEW d \in Clients PROVE Calm(d)'
  <2>1. Calm(d)
    BY <1>3, SereneHas
  <2>2. CASE d # c
    <3>1. back'[d] = back[d]
      BY <1>1, <1>3, <2>2 DEF Functions
    <3>2. QED
      BY <1>1, <2>1, <3>1, CalmKept
  <2>3. CASE d = c
    <3>1. px'[c].pc # "spin"
      BY <1>1, <2>1, <2>3 DEF Calm
    <3>2. Link(c)'.shut = Link(c).shut /\ Link(c)'.err["near"] = Link(c).err["near"]
      BY <1>1, <1>2 DEF Link
    <3>3. "far" \in Link(c).shut => Seen(c)' = Seen(c)
      BY <1>1 DEF Link, Seen
    <3>4. QED
      BY <1>1, <1>2, <2>1, <2>3, <3>1, <3>2, <3>3, CalmMoves
  <2>4. QED
    BY <2>2, <2>3
<1>4. QED
  BY <1>1, <1>3 DEF Peace

(* What tiny does without touching a connection. *)
LEMMA TinyThinksCalm ==
  ASSUME Serene, UNCHANGED <<proxyVars, front, back, clientVars>>, tiny'.pc \notin {"spin", "down"}, Mapped'
  PROVE  Peace'
<1>1. /\ proxy' = proxy /\ proxy # "down" /\ back' = back
      /\ px' = px /\ front' = front /\ ask' = ask /\ todo' = todo /\ got' = got /\ end' = end
  BY SereneHas DEF proxyVars, clientVars
<1>2. \A d \in Clients : Calm(d)'
  BY <1>1, SereneHas, CalmKept
<1>3. QED
  BY <1>1, <1>2 DEF Peace

(* Reading a line of the request. *)
LEMMA TinyReadsCalm ==
  ASSUME Serene, tiny.pc \in Reading, TinyReads, UNCHANGED clientVars
  PROVE  Peace'
<1>1. PICK c : c = tiny.conn
  OBVIOUS
<1>2. GoodConn(back[c]) /\ tiny \in TinyType /\ tiny.pc \notin {"starting", "accept"} /\ "far" \in Ends
  BY <1>1, TinyAttended, EndsAre DEF Reading
<1>3. PICK n \in ReadSizes(back[c], "far") :
        /\ tiny' = [tiny EXCEPT !.rio = Refill(@, SubSeq(back[tiny.conn].data["far"], 1, n))]
        /\ back' = [back EXCEPT ![c] = Taken(@, "far", n)]
  BY <1>1 DEF TinyReads
<1>4. n \in Nat
  BY <1>2, <1>3, ReadSizesAre
<1>5. PICK k, l : k = back[c] /\ l = Taken(k, "far", n) /\ GoodConn(k)
  BY <1>2
<1>6. l.shut = k.shut /\ l.err = k.err
  BY <1>2, <1>4, <1>5, TakenIs
<1>7. back' = [back EXCEPT ![c] = l]
  BY <1>3, <1>5
<1>8. PICK q : tiny' = [tiny EXCEPT !.rio = q]
  BY <1>3
<1>9. tiny'.pc = tiny.pc
  BY <1>2, <1>8 DEF TinyType
<1>10. tiny'.pc \notin {"spin", "down"} /\ Mapped'
  BY <1>9 DEF Mapped, Reading
<1>11. QED
  BY <1>1, <1>2, <1>5, <1>6, <1>7, <1>10, TinyWorksCalm DEF TinyReads

(* The request line and the headers: neither ends before its newline, so tiny does not spin. *)
LEMMA DoitCalm == ASSUME Serene, Doit \/ TinyHeaders, UNCHANGED clientVars PROVE Peace'
<1>1. tiny.pc \in Reading
  BY DEF Doit, TinyHeaders, Reading
<1>2. ~TinyReset /\ ~TinyNoLine /\ tiny \in TinyType
  BY <1>1, TinyAttended DEF Reading
<1>3. ASSUME NEW t, TinyGoes(t), t.pc \notin {"spin", "down", "head", "map"} PROVE Peace'
  BY <1>3, TinyThinksCalm DEF TinyGoes, netVars, Mapped
<1>4. ASSUME NEW g \in TinyLines,
             TinyGoes(IF g.line[1][1] = "GET"
                      THEN [tiny EXCEPT !.pc = "hdr1", !.path = PathOf(g.line[1]), !.rio = g.rio]
                      ELSE [tiny EXCEPT !.pc = "page", !.out = clienterror("501")])
      PROVE  Peace'
  <2>1. PICK path, rio, page : path = PathOf(g.line[1]) /\ rio = g.rio /\ page = clienterror("501")
    OBVIOUS
  <2>2. PICK t : /\ TinyGoes(t)
                 /\ t = IF g.line[1][1] = "GET" THEN [tiny EXCEPT !.pc = "hdr1", !.path = path, !.rio = rio]
                        ELSE [tiny EXCEPT !.pc = "page", !.out = page]
    BY <1>4, <2>1
  <2>3. t.pc \in {"hdr1", "page"}
    BY <1>2, <2>2 DEF TinyType
  <2>4. QED
    BY <1>3, <2>2, <2>3
<1>5. ASSUME NEW g \in TinyLines,
             TinyGoes([tiny EXCEPT !.rio = g.rio, !.pc = IF g.line = Blank THEN "serve" ELSE "hdrs"])
      PROVE  Peace'
  <2>1. PICK rio, to : rio = g.rio /\ to = (IF g.line = Blank THEN "serve" ELSE "hdrs") /\ to \in {"serve", "hdrs"}
    OBVIOUS
  <2>2. PICK t : TinyGoes(t) /\ t = [tiny EXCEPT !.rio = rio, !.pc = to]
    BY <1>5, <2>1
  <2>3. t.pc = to
    BY <1>2, <2>2 DEF TinyType
  <2>4. QED
    BY <1>3, <2>1, <2>2, <2>3
<1>6. QED
  BY <1>1, <1>2, <1>4, <1>5, TinyReadsCalm DEF Doit, TinyHeaders

(* Only a file that was found is mapped. *)
LEMMA ServeCalm == ASSUME Serene, Serve, UNCHANGED clientVars PROVE Peace'
<1>1. tiny.pc = "serve" /\ tiny \in TinyType
  BY TinyAttended DEF Serve
<1>2. PICK f, path, o, t : f = Stat(path) /\ path = tiny.path /\ TinyGoes(t) /\
        t = IF ~f.found THEN [tiny EXCEPT !.pc = "page", !.out = o]
            ELSE IF ~f.readable THEN [tiny EXCEPT !.pc = "page", !.out = o]
            ELSE IF is_static(path) THEN [tiny EXCEPT !.pc = "head", !.out = o]
            ELSE [tiny EXCEPT !.pc = "cgi", !.out = o]
  <2>1. PICK f, path : f = Stat(path) /\ path = tiny.path
    OBVIOUS
  <2>2. PICK o : o = IF ~f.found THEN clienterror("404") ELSE IF ~f.readable THEN clienterror("403")
                     ELSE IF is_static(path) THEN <<<<path, "head">>>> ELSE <<<<path, "status">>, <<path, "server">>>>
    OBVIOUS
  <2>3. QED
    BY <2>1, <2>2 DEF Serve
<1>3. t.pc \in {"page", "head", "cgi"} /\ t.path = path /\ (t.pc = "head" => f.found)
  BY <1>1, <1>2 DEF TinyType
<1>4. tiny' = t /\ UNCHANGED <<proxyVars, front, back, clientVars>>
  BY <1>2 DEF TinyGoes, netVars
<1>5. tiny'.pc \notin {"spin", "down"} /\ Mapped'
  BY <1>2, <1>3, <1>4 DEF Mapped
<1>6. QED
  BY <1>4, <1>5, TinyThinksCalm

(* Nobody tiny writes to has hung up, so no SIGPIPE. *)
LEMMA TinyWritesCalm == ASSUME Serene, TinyWrites, UNCHANGED clientVars PROVE Peace'
<1>1. PICK c : c = tiny.conn
  OBVIOUS
<1>2. tiny.pc \in {"page", "head", "body", "cgi"}
  BY DEF TinyWrites, AfterWrite
<1>3. GoodConn(back[c]) /\ tiny \in TinyType /\ ~TinySigPipe /\ tiny.pc \notin {"starting", "accept"} /\ Mapped
  BY <1>1, <1>2, TinyAttended, SereneHas
<1>4. PICK n : /\ back' = [back EXCEPT ![c] = Put(@, "far", SubSeq(tiny.out, 1, n))]
               /\ tiny' = [tiny EXCEPT !.out = SubSeq(@, n + 1, Len(@)),
                                       !.pc = IF n = Len(tiny.out) THEN AfterWrite[@] ELSE @]
               /\ UNCHANGED <<front, proxyVars>>
  BY <1>1, <1>3 DEF TinyWrites
<1>5. PICK s, t, to, l : /\ s = SubSeq(tiny.out, 1, n) /\ t = SubSeq(tiny.out, n + 1, Len(tiny.out)) /\ l = Put(back[c], "far", s)
                         /\ to = IF n = Len(tiny.out) THEN AfterWrite[tiny.pc] ELSE tiny.pc
  OBVIOUS
<1>6. to \in {"close", "map", "fork"} \cup {tiny.pc} /\ (to = "map" => tiny.pc = "head")
  BY <1>2, <1>5 DEF AfterWrite
<1>7. tiny' = [tiny EXCEPT !.out = t, !.pc = to] /\ back' = [back EXCEPT ![c] = l]
  BY <1>4, <1>5
<1>8. tiny'.pc = to /\ tiny'.path = tiny.path
  BY <1>3, <1>7 DEF TinyType
<1>9. l.shut = back[c].shut /\ l.err["near"] = back[c].err["near"]
  BY <1>3, <1>5, PutErr
<1>10. tiny'.pc \notin {"spin", "down"} /\ Mapped'
  BY <1>2, <1>3, <1>6, <1>8 DEF Mapped
<1>11. UNCHANGED <<proxyVars, front, clientVars>> /\ back' = [back EXCEPT ![c] = l] /\ tiny.pc \notin {"starting", "accept"}
  BY <1>3, <1>4, <1>7
<1>12. QED
  BY <1>1, <1>9, <1>10, <1>11, TinyWorksCalm

(* A page in good order is not empty, so mmap does not fail. *)
LEMMA MapFileCalm == ASSUME Serene, MapFile, UNCHANGED clientVars PROVE Peace'
<1>1. PICK c : c = tiny.conn
  OBVIOUS
<1>2. tiny.pc = "map"
  BY DEF MapFile
<1>3. c \in Clients /\ Alive(c) /\ "far" \notin back[c].shut /\ tiny \in TinyType
  BY <1>1, <1>2, TinyAttended
<1>4. Heard(c) /\ Civil(ask[c]) /\ Mapped
  BY <1>3, SereneHas
<1>5. tiny.path = ask[c].path /\ ask[c].form # "post" /\ Stat(tiny.path).found
  BY <1>1, <1>2, <1>3, <1>4 DEF Heard, Mapped
<1>6. tiny.path # "empty"
  BY <1>4, <1>5 DEF Civil, Proper
<1>7. Mmap(Stat(tiny.path).size)
  BY <1>5, <1>6 DEF Mmap, Stat
<1>8. PICK o, t : t = [tiny EXCEPT !.pc = "body", !.out = o] /\ TinyGoes(t)
  BY <1>7 DEF MapFile
<1>9. t.pc = "body"
  BY <1>3, <1>8 DEF TinyType
<1>10. tiny' = t /\ UNCHANGED <<proxyVars, front, back, clientVars>>
  BY <1>8 DEF TinyGoes, netVars
<1>11. QED
  BY <1>9, <1>10, TinyThinksCalm DEF Mapped

(* The fork of the CGI program and the wait for it. *)
LEMMA CgiCalm == ASSUME Serene, ForkCgi \/ WaitCgi, UNCHANGED clientVars PROVE Peace'
<1>1. tiny \in TinyType
  BY TinyAttended DEF ForkCgi, WaitCgi
<1>2. PICK to : to \in {"wait", "close"} /\ tiny' = [tiny EXCEPT !.pc = to]
  BY DEF ForkCgi, WaitCgi, TinyGoes
<1>3. tiny'.pc = to
  BY <1>1, <1>2 DEF TinyType
<1>4. UNCHANGED <<proxyVars, front, back, clientVars>>
  BY DEF ForkCgi, WaitCgi, TinyGoes, netVars
<1>5. QED
  BY <1>2, <1>3, <1>4, TinyThinksCalm DEF Mapped

(* The child writes where tiny would. *)
LEMMA CgiRunsCalm == ASSUME Serene, CgiRuns, UNCHANGED clientVars PROVE Peace'
<1>1. PICK c : c = tiny.conn
  OBVIOUS
<1>2. tiny.pc = "wait"
  BY SereneHas DEF Held, GoodTiny, CgiRuns
<1>3. GoodConn(back[c]) /\ tiny' = tiny /\ UNCHANGED <<front, proxyVars>>
  BY <1>1, <1>2, TinyAttended DEF CgiRuns
<1>4. tiny'.pc \notin {"spin", "down", "starting", "accept"} /\ Mapped'
  BY <1>2, <1>3 DEF Mapped
<1>5. CASE UNCHANGED back
  BY <1>3, <1>4, <1>5, TinyThinksCalm
<1>6. ASSUME NEW n, back' = [back EXCEPT ![tiny.conn] = Put(@, "far", SubSeq(cgi.out, 1, n))] PROVE Peace'
  <2>1. PICK s, l : s = SubSeq(cgi.out, 1, n) /\ l = Put(back[c], "far", s) /\ back' = [back EXCEPT ![c] = l]
    BY <1>1, <1>6
  <2>2. l.shut = back[c].shut /\ l.err["near"] = back[c].err["near"]
    BY <1>3, <2>1, PutErr
  <2>3. QED
    BY <1>1, <1>2, <1>3, <1>4, <2>1, <2>2, TinyWorksCalm
<1>7. QED
  BY <1>5, <1>6 DEF CgiRuns

(* The listening socket, and the next connection. *)
LEMMA TinyTakesCalm == ASSUME Serene, TinyListens \/ TinyAccept, UNCHANGED clientVars PROVE Peace'
<1>1. tiny \in TinyType
  BY SereneHas DEF Held, GoodTiny, TinyType
<1>2. TinyListens => tiny'.pc = "accept"
  BY <1>1 DEF TinyListens, TinyType
<1>3. TinyAccept => tiny'.pc = "line"
  <2>1. PICK conn, rio : conn = Head(ring) /\ rio = rio_readinitb
    OBVIOUS
  <2>2. TinyAccept => tiny' = [tiny EXCEPT !.pc = "line", !.conn = conn, !.rio = rio]
    BY <2>1 DEF TinyAccept
  <2>3. QED
    BY <1>1, <2>2 DEF TinyType
<1>4. UNCHANGED <<proxyVars, front, back, clientVars>>
  BY DEF TinyListens, TinyAccept, netVars
<1>5. QED
  BY <1>2, <1>3, <1>4, TinyThinksCalm DEF Mapped

(* Tiny closes when it has written the answer, and when all of the request has
   been read, unless it is one that it refused. *)
LEMMA TinyClosesCalm == ASSUME Serene, TinyCloses, UNCHANGED clientVars PROVE Peace'
<1>1. PICK c : c = tiny.conn
  OBVIOUS
<1>2. tiny.pc = "close"
  BY DEF TinyCloses
<1>3. /\ c \in Clients /\ GoodConn(back[c]) /\ "far" \notin back[c].shut /\ "near" \notin back[c].shut
      /\ Alive(c) /\ tiny \in TinyType
  BY <1>1, <1>2, TinyAttended
<1>4. /\ Held /\ Functions /\ Heard(c) /\ Answered(c) /\ Calm(c) /\ Civil(ask[c]) /\ proxy # "down"
      /\ Other("far") = "near" /\ "far" \in Ends
  BY <1>3, SereneHas, EndsAre
<1>5. /\ tiny'.pc = "accept" /\ proxy' = proxy /\ px' = px /\ front' = front
      /\ ask' = ask /\ todo' = todo /\ got' = got /\ end' = end
  BY <1>3 DEF TinyCloses, TinyType, proxyVars, clientVars
<1>6. PICK b \in Shut(back[c], "far") : back' = [back EXCEPT ![c] = b]
  BY <1>1 DEF TinyCloses
<1>7. back'[c] = b
  BY <1>3, <1>4, <1>6 DEF Functions
<1>8. /\ b.shut = back[c].shut \cup {"far"}
      /\ back[c].data["far"] = <<>> => b.err = back[c].err /\ b.data["near"] = back[c].data["near"]
      /\ back[c].data["far"] # <<>> => b.err["near"] = "must"
  <2>1. PICK k : k = back[c] /\ GoodConn(k) /\ b \in Shut(k, "far") /\ "near" \notin k.shut
    BY <1>3, <1>6
  <2>2. /\ b.shut = k.shut \cup {"far"}
        /\ k.data["far"] = <<>> => b.data[Other("far")] = k.data[Other("far")] /\ b.err = k.err
        /\ k.data["far"] # <<>> => b.err[Other("far")] = "must"
    BY <1>4, <2>1, ShutIs
  <2>3. QED
    BY <1>4, <2>1, <2>2
<1>9. \/ back[c].data["far"] = <<>> /\ Coming(c) = <<>>
      \/ ask[c].form = "post" /\ ask[c].to # "proxy"
  BY <1>1, <1>2, <1>3, <1>4 DEF Heard
<1>10. Up(c) ++ Missing(c) = Owed(c)
  <2>1. Missing(c) \in Seq(AnsByte) /\ <<>> ++ (<<>> ++ Missing(c)) = Missing(c)
    BY <1>3, <1>4, AnswersAre, Unit
  <2>2. Rest(c) = <<>> ++ (<<>> ++ Missing(c))
    BY <1>1, <1>2 DEF Rest, Waits, InHand, ToFollow
  <2>3. QED
    BY <1>3, <1>4, <2>1, <2>2 DEF Answered
<1>11. Owed(c)' = Owed(c) /\ Missing(c)' = Missing(c)
  BY <1>5 DEF Owed, Missing
<1>12. ASSUME ask[c].to = "proxy" PROVE Calm(c)'
  <2>1. back[c].data["far"] = <<>> /\ Coming(c) = <<>>
    BY <1>9, <1>12
  <2>2. px[c].pc # "send"
    BY <1>4, <1>12, <2>1 DEF Heard, Coming
  <2>3. Up(c)' = Up(c)
    BY <1>5, <1>7, <1>8, <2>1 DEF Up, Carried
  <2>4. Link(c)' = Link(c) /\ Seen(c)' = Seen(c)
    BY <1>5, <1>12 DEF Link, Seen
  <2>5. "far" \in b.shut /\ b.err["near"] = "no"
    BY <1>4, <1>8, <1>12, <2>1 DEF Calm
  <2>6. QED
    BY <1>4, <1>5, <1>7, <1>10, <1>11, <2>2, <2>3, <2>4, <2>5 DEF Calm
<1>13. ASSUME ask[c].to # "proxy" PROVE Calm(c)'
  <2>1. Link(c) = back[c] /\ Link(c)' = b /\ Coming(c) = todo[c]
    BY <1>5, <1>7, <1>13 DEF Link, Coming
  <2>2. Proper(ask[c]) => back[c].data["far"] = <<>> /\ todo[c] = <<>>
    BY <1>9, <2>1 DEF Proper
  <2>3. Proper(ask[c]) => b.err["near"] = "no"
    BY <1>4, <1>8, <2>1, <2>2 DEF Calm
  <2>4. b.err["near"] # "must" => Seen(c)' = Seen(c)
    BY <1>5, <1>8, <2>1 DEF Seen
  <2>5. Seen(c) = Up(c) /\ "far" \in b.shut
    BY <1>3, <1>4, <1>8, <1>13, SeenIsUp
  <2>6. QED
    BY <1>4, <1>5, <1>10, <1>11, <1>13, <2>1, <2>2, <2>3, <2>4, <2>5 DEF Calm
<1>14. ASSUME NEW d \in Clients, d # c PROVE Calm(d)'
  <2>1. back'[d] = back[d] /\ Calm(d)
    BY <1>4, <1>6, <1>14, SereneHas DEF Functions
  <2>2. QED
    BY <1>5, <1>14, <2>1, CalmKept
<1>15. QED
  BY <1>4, <1>5, <1>12, <1>13, <1>14 DEF Peace, Mapped

(* So every step keeps the peace. *)
LEMMA CalmStep == AllAnswered /\ AllCalm /\ [Next]_vars => AllCalm'
<1> SUFFICES ASSUME AllAnswered, AllCalm, [Next]_vars, AllCivil' PROVE Peace'
  BY DEF AllCalm
<1>1. ask' = ask
  BY DEF Next, WebProxy, WebTiny, WebCgi, WebThread, ClientConnects, ClientSends, ClientReceives, ClientLeaves, vars, clientVars
<1>2. Serene
  BY <1>1 DEF AllCivil, AllCalm, Serene
<1>3. Held /\ Held'
  <2>1. Held
    BY <1>2, SereneHas
  <2>2. QED
    BY <2>1, HeldStep
<1>4. CASE WebProxy
  BY <1>2, <1>4, WebProxyCalm
<1>5. CASE WebTiny
  BY <1>2, <1>5, TinyTakesCalm, DoitCalm, ServeCalm, TinyWritesCalm, MapFileCalm, CgiCalm, TinyClosesCalm DEF WebTiny, TinyStep
<1>6. CASE WebCgi
  BY <1>2, <1>6, CgiRunsCalm DEF WebCgi
<1>7. ASSUME NEW c \in Clients, WebThread(c) PROVE Peace'
  BY <1>2, <1>3, <1>7, ThreadStepCalm DEF WebThread, ThreadFrame
<1>8. ASSUME NEW c \in Clients, ClientStep(c) PROVE Peace'
  BY <1>2, <1>8, ClientCalm
<1>9. CASE UNCHANGED vars
  <2>1. UNCHANGED <<proxyVars, front, back, clientVars>> /\ tiny' = tiny
    BY <1>9 DEF vars, netVars, tinyVars
  <2>2. tiny'.pc \notin {"spin", "down"} /\ Mapped'
    BY <1>2, <2>1, SereneHas DEF Mapped
  <2>3. QED
    BY <1>2, <2>1, <2>2, TinyThinksCalm
<1>10. QED
  BY <1>4, <1>5, <1>6, <1>7, <1>8, <1>9 DEF Next, ClientStep

(* So both layers hold in every state. *)
LEMMA AlwaysCalm == Spec => [](AllAnswered /\ AllCalm)
<1>1. Init => AllAnswered /\ AllCalm
  BY StartsHeld, StartsAsked, StartsAnswered, StartsCalm DEF AllAnswered, AllAsked
<1>2. AllAnswered /\ AllCalm /\ [Next]_vars => (AllAnswered /\ AllCalm)'
  BY AnsweredStep, CalmStep
<1>3. QED
  BY <1>1, <1>2, PTL DEF Spec

(* As long as every request is in good order, whatever the number of clients,
   the sizes of the buffers and the order of steps, no thread of the proxy
   spins in read_requesthdrs, no call of the csapp wrappers ends the proxy or
   tiny, neither is killed by SIGPIPE and no client meets a reset. *)
THEOREM GoodClientsDoNoHarm == Spec => []GoodClientsHarmNobody
<1>1. AllAnswered /\ AllCalm => GoodClientsHarmNobody
  <2> SUFFICES ASSUME AllAnswered, AllCalm, \A c \in Clients : Proper(ask[c])
               PROVE  /\ proxy # "down" /\ tiny.pc \notin {"spin", "down"}
                      /\ \A c \in Clients : px[c].pc # "spin" /\ end[c] # "failed"
    BY DEF GoodClientsHarmNobody
  <2>1. Peace
    BY DEF AllCalm, AllCivil, Civil
  <2>2. QED
    BY <2>1 DEF Peace, Calm
<1>2. QED
  BY <1>1, AlwaysCalm, PTL

-----------------------------------------------------------------------------
(* The promise made to clients.                                              *)

(* What the clients of Delivery see of a connection. *)
Owing == [c \in Clients |-> Owed(c)]
Ended == [c \in Clients |-> CASE end[c] = "new" -> "open" [] end[c] = "left" -> "failed" [] OTHER -> end[c]]
Promise == <<got, Ended, Owing, Fragile>>

(* A beginning of a sequence is its first elements. *)
LEMMA BeginsAre ==
  ASSUME NEW s \in Seq(AnsByte), NEW w, Begins(s, w)
  PROVE  s = SubSeq(w, 1, Len(s)) /\ Len(s) \in Nat /\ Len(w) \in Nat /\ Len(s) <= Len(w)
<1>1. PICK z \in Seq(AnsByte) : s ++ z = w
  BY DEF Begins
<1>2. Len(s) \in Nat /\ Len(z) \in Nat /\ Len(w) = Len(s) + Len(z)
  BY <1>1, Joined
<1>3. s = SubSeq(w, 1, Len(s))
  <2>1. CASE Len(s) = 0
    <3>1. s = <<>>
      BY <2>1, EmptySeq
    <3>2. SubSeq(w, 1, Len(s)) = <<>>
      BY <2>1, SubSeqEmpty
    <3>3. QED
      BY <3>1, <3>2
  <2>2. CASE Len(s) # 0
    <3>1. 1 \in 1..Len(s) /\ Len(s) \in 1..Len(s)
      BY <1>2, <2>2
    <3>2. SubSeq(s \o z, 1, Len(s)) = SubSeq(s, 1, Len(s))
      BY <3>1, SubSeqOfConcat1
    <3>3. SubSeq(s, 1, Len(s)) = s
      BY SubSeqFull
    <3>4. QED
      BY <1>1, <3>2, <3>3 DEF ++
  <2>3. QED
    BY <2>1, <2>2
<1>4. QED
  BY <1>2, <1>3

(* What is owed does not change. *)
LEMMA OwedStays == ASSUME ask' = ask PROVE Owing' = Owing /\ Fragile' = Fragile
BY DEF Owing, Fragile, Owed

(* A client that connects or does nothing sees nothing. *)
LEMMA NothingSeen ==
  ASSUME ask' = ask, got' = got, \A c \in Clients : end'[c] = end[c] \/ (end[c] = "new" /\ end'[c] = "open")
  PROVE  UNCHANGED Promise
<1>1. \A c \in Clients :
        (CASE end'[c] = "new" -> "open" [] end'[c] = "left" -> "failed" [] OTHER -> end'[c])
          = (CASE end[c] = "new" -> "open" [] end[c] = "left" -> "failed" [] OTHER -> end[c])
  OBVIOUS
<1>2. Ended' = Ended
  BY <1>1 DEF Ended
<1>3. QED
  BY <1>2, OwedStays DEF Promise

(* An end of file, or a reset. *)
LEMMA EndSeen ==
  ASSUME Functions, NEW c \in Clients, end[c] = "open", NEW e \in {"eof", "failed", "left"}, end' = [end EXCEPT ![c] = e]
  PROVE  Ended[c] = "open" /\ Ended' = [Ended EXCEPT ![c] = IF e = "left" THEN "failed" ELSE e]
<1>1. \A d \in Clients : end'[d] = IF d = c THEN e ELSE end[d]
  BY DEF Functions
<1>2. Ended[c] = "open"
  BY DEF Ended
<1>3. \A d \in Clients : Ended'[d] = IF d = c THEN IF e = "left" THEN "failed" ELSE e ELSE Ended[d]
  BY <1>1 DEF Ended
<1>4. DOMAIN Ended = Clients /\ DOMAIN Ended' = Clients /\ Ended = [d \in Clients |-> Ended[d]] /\ Ended' = [d \in Clients |-> Ended'[d]]
  BY DEF Ended
<1>5. QED
  BY <1>2, <1>3, <1>4

(* What a client takes from its socket are the next bytes of its answer. *)
LEMMA Delivers ==
  ASSUME Held, NEW c \in Clients, Answered(c), end[c] = "open", Link(c).data["near"] # <<>>,
         got' = [got EXCEPT ![c] = @ \o Link(c).data["near"]], UNCHANGED <<ask, end>>
  PROVE  Delivered!Deliver(c)
<1>1. PICK s : s = Seen(c) /\ s \in Seq(AnsByte) /\ Begins(s, Owed(c))
  BY ArrowsAre DEF Answered
<1>2. s = SubSeq(Owed(c), 1, Len(s)) /\ Len(s) \in Nat /\ Len(Owed(c)) \in Nat /\ Len(s) <= Len(Owed(c))
  BY <1>1, BeginsAre
<1>3. Len(got[c]) \in Nat /\ Len(got[c]) + 1 <= Len(s)
  <2>1. PICK d : d = Link(c).data["near"] /\ d \in Seq(AnsByte) /\ d # <<>>
    BY LinkGood DEF GoodConn
  <2>2. Len(d) \in Nat /\ Len(d) # 0
    BY <2>1, LenProperties, EmptySeq
  <2>3. Len(s) = Len(got[c]) + Len(d) /\ Len(got[c]) \in Nat
    <3>1. s = got[c] ++ d /\ got[c] \in Seq(AnsByte)
      BY <1>1, <2>1, ArrowsAre DEF Seen
    <3>2. Len(got[c] ++ d) = Len(got[c]) + Len(d)
      BY <2>1, <3>1, Joined
    <3>3. QED
      BY <2>1, <3>1, <3>2, LenProperties
  <2>4. QED
    BY <2>2, <2>3
<1>4. PICK n : n = Len(s) /\ n \in Len(got[c]) + 1..Len(Owed(c))
  BY <1>2, <1>3
<1>5. got' = [got EXCEPT ![c] = s]
  BY <1>1 DEF Seen, ++
<1>6. got' = [got EXCEPT ![c] = SubSeq(Owing[c], 1, n)] /\ n \in Len(got[c]) + 1..Len(Owing[c]) /\ Ended[c] = "open"
  BY <1>2, <1>4, <1>5 DEF Owing, Ended
<1>7. Ended' = Ended /\ Owing' = Owing /\ Fragile' = Fragile
  BY OwedStays DEF Ended
<1>8. QED
  BY <1>6, <1>7 DEF Delivered!Deliver, Owing, Ended

(* The end of file comes after the last byte, where nothing can break. *)
LEMMA Finishes ==
  ASSUME AllAnswered, AllCalm, NEW c \in Clients, end[c] = "open", AtEof(Link(c), "near"), ~AtError(Link(c), "near")
  PROVE  got[c] = Owed(c) \/ c \in Fragile
<1>1. CASE ~AllCivil
  BY <1>1 DEF AllCivil, Civil, Fragile
<1>2. CASE AllCivil
  <2>1. Calm(c) /\ Held
    BY <1>2, SereneHas DEF AllCalm, Serene
  <2>2. "far" \in Link(c).shut /\ Link(c).err["near"] # "must" /\ Link(c).data["near"] = <<>>
    BY EndsAre DEF AtEof
  <2>3. Seen(c) ++ Missing(c) = Owed(c)
    BY <2>1, <2>2 DEF Calm
  <2>4. got[c] \in Seq(AnsByte) /\ Seen(c) = got[c]
    BY <2>1, <2>2, ArrowsAre, Unit DEF Seen
  <2>5. CASE ask[c].path = "adder?1"
    BY <1>2, <2>5 DEF AllCivil, Civil, Fragile
  <2>6. CASE ask[c].path # "adder?1"
    <3>1. Missing(c) = <<>>
      BY <2>6 DEF Missing
    <3>2. QED
      BY <2>3, <2>4, <3>1, Unit
  <2>7. QED
    BY <2>5, <2>6
<1>3. QED
  BY <1>1, <1>2

(* The steps that reach a client. *)
LEMMA ClientPromised ==
  ASSUME AllAnswered, AllCalm, NEW c \in Clients, ClientStep(c)
  PROVE  Delivered!Next \/ UNCHANGED Promise
<1>1. Held /\ Functions /\ Answered(c) /\ ask' = ask
  BY DEF AllAnswered, AllAsked, Held, ClientStep, ClientConnects, ClientSends, ClientReceives, ClientLeaves
<1>2. CASE ClientConnects(c)
  BY <1>1, <1>2, NothingSeen DEF ClientConnects, Functions
<1>3. CASE ClientSends(c)
  BY <1>1, <1>3, NothingSeen DEF ClientSends
<1>4. ASSUME NEW e \in {"eof", "failed", "left"}, end[c] = "open", end' = [end EXCEPT ![c] = e], got' = got,
             e = "eof" => got[c] = Owed(c) \/ c \in Fragile
      PROVE  Delivered!Finish(c) \/ Delivered!Fail(c)
  <2>1. Ended[c] = "open" /\ Ended' = [Ended EXCEPT ![c] = IF e = "left" THEN "failed" ELSE e]
    BY <1>1, <1>4, EndSeen
  <2>2. Owing' = Owing /\ Fragile' = Fragile /\ Owing[c] = Owed(c)
    BY <1>1, OwedStays DEF Owing
  <2>3. CASE e = "eof"
    <3>1. Ended' = [Ended EXCEPT ![c] = "eof"] /\ (got[c] = Owing[c] \/ c \in Fragile)
      BY <1>4, <2>1, <2>2, <2>3
    <3>2. QED
      BY <1>4, <2>1, <2>2, <3>1 DEF Delivered!Finish, Owing, Ended
  <2>4. CASE e # "eof"
    <3>1. Ended' = [Ended EXCEPT ![c] = "failed"]
      BY <2>1, <2>4
    <3>2. QED
      BY <1>4, <2>1, <2>2, <3>1 DEF Delivered!Fail, Owing, Ended
  <2>5. QED
    BY <2>3, <2>4
<1>5. CASE ClientLeaves(c)
  BY <1>4, <1>5 DEF ClientLeaves, Delivered!Next
<1>6. CASE ClientReceives(c)
  <2>1. ASSUME Link(c).data["near"] # <<>>, got' = [got EXCEPT ![c] = @ \o Link(c).data["near"]], end' = end
        PROVE  Delivered!Deliver(c)
    BY <1>1, <1>6, <2>1, Delivers DEF ClientReceives
  <2>2. ASSUME AtEof(Link(c), "near") \/ AtError(Link(c), "near"), got' = got,
               end' = [end EXCEPT ![c] = IF AtError(Link(c), "near") THEN "failed" ELSE "eof"]
        PROVE  Delivered!Finish(c) \/ Delivered!Fail(c)
    <3>1. PICK e : e = (IF AtError(Link(c), "near") THEN "failed" ELSE "eof") /\ e \in {"eof", "failed", "left"}
      OBVIOUS
    <3>2. e = "eof" => got[c] = Owed(c) \/ c \in Fragile
      BY <1>6, <2>2, <3>1, Finishes DEF ClientReceives
    <3>3. QED
      BY <1>4, <1>6, <2>2, <3>1, <3>2 DEF ClientReceives
  <2>3. QED
    BY <1>6, <2>1, <2>2 DEF ClientReceives, Delivered!Next
<1>7. QED
  BY <1>2, <1>3, <1>5, <1>6 DEF ClientStep

(* The initial states are initial states of Delivery. *)
LEMMA StartsPromised == Init => Delivered!Init
<1> SUFFICES ASSUME Init PROVE Delivered!Init
  OBVIOUS
<1>1. got = [c \in Clients |-> <<>>] /\ end = [c \in Clients |-> "new"]
  BY DEF Init
<1>2. Ended = [c \in Clients |-> "open"]
  BY <1>1 DEF Ended
<1>3. QED
  BY <1>1, <1>2 DEF Delivered!Init, Ended

(* Every step is a step of Delivery or changes nothing it sees. *)
LEMMA StepsPromised == AllAnswered /\ AllCalm /\ [Next]_vars => [Delivered!Next]_Promise
<1> SUFFICES ASSUME AllAnswered, AllCalm, [Next]_vars PROVE Delivered!Next \/ UNCHANGED Promise
  OBVIOUS
<1>1. ASSUME UNCHANGED clientVars PROVE UNCHANGED Promise
  BY <1>1, NothingSeen DEF clientVars
<1>2. CASE \E c \in Clients : ClientStep(c)
  BY <1>2, ClientPromised
<1>3. CASE WebProxy \/ WebTiny \/ WebCgi \/ (\E c \in Clients : WebThread(c)) \/ UNCHANGED vars
  BY <1>1, <1>3 DEF WebProxy, WebTiny, WebCgi, WebThread, vars
<1>4. QED
  BY <1>2, <1>3 DEF Next, ClientStep

(* Every client receives the answer to its own request, in order and none of
   another's, whatever the number of clients and the order of steps; and where
   all of them stay for answers to requests in good order, or for the refusal
   of a method, the end of file comes only after the last byte, but for the sum
   whose child dies. *)
THEOREM DeliveryImplemented == Spec => ImplementsDelivery
<1>1. AllAnswered /\ AllCalm /\ [Next]_vars => [Delivered!Next]_Promise
  BY StepsPromised
<1>2. QED
  BY <1>1, AlwaysCalm, StartsPromised, PTL DEF Spec, ImplementsDelivery, Delivered!Spec, Promise, Ended, Owing
=============================================================================
