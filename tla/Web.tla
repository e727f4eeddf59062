--------------------------------- MODULE Web ---------------------------------
(* The proxy, tiny and their clients on one host. A client sends its request, *)
(* all of it, a part or nothing, and waits for the answer or leaves; it may   *)
(* talk to the proxy or to tiny itself.                                       *)
EXTENDS Tiny

CONSTANT Scenarios \* who asks what: functions from Clients to Requests

Requests == [to : {"proxy", "tiny"}, scheme : STRING, path : STRING,
             form : {"whole", "post", "cut", "stub", "silent"}, waits : BOOLEAN]
ASSUME WebAssumption ==
  /\ \A s \in Scenarios : s \in [Clients -> Requests]
  /\ NoConn \notin Clients

VARIABLES
  ask,  \* ask[c]: the request of c
  todo, \* todo[c]: the bytes c has still to send
  got,  \* got[c]: the bytes c has received
  end   \* end[c]: "new", "open", "eof" or "failed"; "left" when c walked away

clientVars == <<ask, todo, got, end>>
vars == <<proxyVars, tinyVars, netVars, clientVars>>

\* The bytes of a request; "cut" stops after a header, "stub" before the first.
Wire(r) ==
  CASE r.form = "whole" -> <<<<"GET", r.scheme, r.path>>, <<"LF">>, <<"hdr">>, <<"CR">>, <<"LF">>>>
    [] r.form = "post"  -> <<<<"POST">>, <<"LF">>, <<"CR">>, <<"LF">>>>
    [] r.form = "cut"   -> <<<<"GET", r.scheme, r.path>>, <<"LF">>, <<"hdr">>>>
    [] r.form = "stub"  -> <<<<"GET", r.scheme, r.path>>, <<"LF">>>>
    [] OTHER            -> <<>>

\* The connection c holds, and c's end of it.
Link(c) == IF ask[c].to = "proxy" THEN front[c] ELSE back[c]
Holds(c, k) ==
  IF ask[c].to = "proxy" THEN front' = [front EXCEPT ![c] = k] /\ UNCHANGED back
                         ELSE back' = [back EXCEPT ![c] = k] /\ UNCHANGED front

Init ==
  /\ ProxyInit /\ TinyInit
  /\ front = [c \in Clients |-> Absent] /\ back = front /\ ring = <<>>
  /\ ask \in Scenarios
  /\ todo = [c \in Clients |-> Wire(ask[c])]
  /\ got = [c \in Clients |-> <<>>] /\ end = [c \in Clients |-> "new"]

\* connect is refused by a process that has not started or is gone.
ClientConnects(c) ==
  /\ end[c] = "new"
  /\ IF ask[c].to = "proxy"
     THEN proxy = "up" /\ calls' = Append(calls, c) /\ UNCHANGED ring
     ELSE tiny.pc \notin {"starting", "down"} /\ ring' = Append(ring, c) /\ UNCHANGED calls
  /\ Holds(c, Fresh)
  /\ end' = [end EXCEPT ![c] = "open"]
  /\ UNCHANGED <<proxy, px, tinyVars, ask, todo, got>>

ClientSends(c) ==
  /\ end[c] = "open" /\ todo[c] # <<>>
  /\ \E n \in {Fits(Link(c), "near", todo[c])} :
       /\ n > 0
       /\ Holds(c, Put(Link(c), "near", SubSeq(todo[c], 1, n)))
       /\ todo' = [todo EXCEPT ![c] = SubSeq(@, n + 1, Len(@))]
  /\ UNCHANGED <<proxyVars, tinyVars, ring, ask, got, end>>

ClientReceives(c) ==
  /\ end[c] = "open" /\ ask[c].waits
  /\ \/ /\ Link(c).data["near"] # <<>>
        /\ got' = [got EXCEPT ![c] = @ \o Link(c).data["near"]]
        /\ Holds(c, Taken(Link(c), "near", SockBuf))
        /\ UNCHANGED end
     \/ /\ AtEof(Link(c), "near") \/ AtError(Link(c), "near")
        /\ end' = [end EXCEPT ![c] = IF AtError(Link(c), "near") THEN "failed" ELSE "eof"]
        /\ \E k \in Shut(Link(c), "near") : Holds(c, k)
        /\ UNCHANGED got
  /\ UNCHANGED <<proxyVars, tinyVars, ring, ask, todo>>

ClientLeaves(c) ==
  /\ end[c] = "open" /\ ~ask[c].waits /\ todo[c] = <<>>
  /\ end' = [end EXCEPT ![c] = "left"]
  /\ \E k \in Shut(Link(c), "near") : Holds(c, k)
  /\ UNCHANGED <<proxyVars, tinyVars, ring, ask, todo, got>>

Listening == tiny.pc \notin {"starting", "down"}
WebTiny == TinyStep /\ UNCHANGED clientVars
WebCgi == CgiRuns /\ UNCHANGED clientVars
WebProxy == ((Listening /\ ProxyListens) \/ ProxyAccept) /\ UNCHANGED <<tinyVars, clientVars>>
WebThread(c) == Thread(c, Listening) /\ UNCHANGED <<tinyVars, clientVars>>

Next ==
  \/ WebProxy \/ WebTiny \/ WebCgi
  \/ \E c \in Clients : \/ WebThread(c) \/ ClientConnects(c) \/ ClientSends(c)
                        \/ ClientReceives(c) \/ ClientLeaves(c)

Spec ==
  /\ Init /\ [][Next]_vars
  /\ WF_vars(WebProxy) /\ WF_vars(WebTiny) /\ WF_vars(WebCgi)
  /\ \A c \in Clients : /\ WF_vars(WebThread(c)) /\ WF_vars(ClientConnects(c))
                        /\ WF_vars(ClientSends(c)) /\ WF_vars(ClientReceives(c))
-----------------------------------------------------------------------------
\* What tiny answers to a GET of path, when it lives to finish.
AnswerTo(path) ==
  IF ~Stat(path).found THEN clienterror("404")
  ELSE IF ~Stat(path).readable THEN clienterror("403")
  ELSE IF is_static(path) THEN <<<<path, "head">>>> \o Body(path)
  ELSE <<<<path, "status">>, <<path, "server">>, <<path, "sum">>>>
Owed(c) ==
  CASE ask[c].form = "post"   -> clienterror("501")
    [] ask[c].form = "silent" -> <<>>
    [] OTHER                  -> AnswerTo(ask[c].path)

\* A request in good order: complete, for a page that exists or not, by a
\* client that stays for the answer.
Proper(r) ==
  /\ r.waits /\ r.form = "whole" /\ r.path # "empty"
  /\ r.scheme = IF r.to = "proxy" THEN "http" ELSE ""

TypeOK ==
  /\ proxy \in {"starting", "up", "down"}
  /\ \A c \in Clients :
       /\ px[c].pc \in Busy \cup {"none", "leaked", "done"}
       /\ \A e \in Ends : /\ Len(front[c].data[e]) <= SockBuf
                          /\ Len(back[c].data[e]) <= SockBuf
       /\ Len(px[c].rio.buf) <= RioBuf /\ Len(px[c].rio.usr) <= MaxLine
       /\ end[c] \in {"new", "open", "eof", "failed", "left"}
  /\ Len(tiny.rio.buf) <= RioBuf /\ Len(tiny.rio.usr) < MaxLine
  /\ tiny.conn \in Clients \cup {NoConn}

\* Descriptors of the proxy: clientfd is open exactly while a thread works for
\* the client, or for ever after an empty connection or a method other than
\* GET; serverfd exactly while a request is with the server. Tiny holds
\* connections only for the client it serves and those that queue for it.
Queued(q) == {q[i] : i \in 1..Len(q)}
DescriptorsGivenBack ==
  \A c \in Clients :
    /\ proxy = "up" /\ ask[c].to = "proxy" =>
         /\ "far" \notin front[c].shut <=> c \in Queued(calls) \/ px[c].pc \notin {"none", "done"}
         /\ px[c].pc = "leaked" => ask[c].form \in {"post", "silent"}
         /\ "near" \notin back[c].shut <=> px[c].pc \in {"send", "relay", "write"}
    /\ "far" \notin back[c].shut <=> c = tiny.conn \/ (c \in Queued(ring) /\ tiny.pc # "down")

\* As long as every request is in good order, no thread spins, and neither
\* process exits, whatever the order of steps: no error path, and no SIGPIPE.
GoodClientsHarmNobody ==
  (\A c \in Clients : Proper(ask[c])) =>
    /\ proxy # "down" /\ tiny.pc \notin {"spin", "down"}
    /\ \A c \in Clients : px[c].pc # "spin" /\ end[c] # "failed"

Fragile == IF \A c \in Clients : Proper(ask[c]) \/ (ask[c].form = "post" /\ ask[c].waits)
           THEN {c \in Clients : ask[c].path = "adder?1"} ELSE Clients
Delivered == INSTANCE Delivery WITH
  owed <- [c \in Clients |-> Owed(c)],
  fragile <- Fragile,
  end <- [c \in Clients |-> CASE end[c] = "new" -> "open" [] end[c] = "left" -> "failed"
                               [] OTHER -> end[c]]
\* Every client receives the answer to its own request, in order, and the end
\* of file only after the last byte unless something died.
ImplementsDelivery == Delivered!Spec

\* A proper client of the proxy gets its whole answer, whatever the other
\* clients of the proxy do short of ending the process; only a client of tiny
\* itself that sends half a request and stays can hold everybody up.
Harmless(r) == Proper(r) \/ (r.to = "proxy" /\ r.form \in {"cut", "silent", "post"})
PatientAreAnswered ==
  \A c \in Clients :
    (/\ Proper(ask[c]) /\ ask[c].to = "proxy" /\ end[c] = "open"
     /\ \A d \in Clients : Harmless(ask[d]))
      ~> (got[c] = Owed(c) \/ ask[c].path = "adder?1") /\ end[c] = "eof"
=============================================================================
