-------------------------------- MODULE Proxy --------------------------------
(* proxy.c: a main thread that accepts and one detached thread per            *)
(* connection. Every call that ends the process ends all its threads: exit in *)
(* parse_uri, unix_error in any csapp wrapper, and SIGPIPE, which nobody      *)
(* ignores.                                                                   *)
EXTENDS Rio

CONSTANT Clients        \* one connection each

VARIABLES
  front, \* front[c]: the connection between client c and the proxy
  back,  \* back[c]: the connection to tiny on behalf of c (the proxy's or c's own)
  calls, \* the listen queue of the proxy: clients that connected
  ring,  \* the listen queue of tiny
  proxy, \* the process: "starting", "up" or "down"
  px     \* px[c]: the thread that serves c

proxyVars == <<calls, proxy, px>>
netVars == <<front, back, ring>>

\* pc "none": no thread; "leaked": the thread returned without closing clientfd;
\* "spin": it loops in read_requesthdrs for ever; "done": it closed both.
Idle == [pc |-> "none", rio |-> rio_readinitb, out |-> <<>>, uri |-> <<>>]
Busy == {"line", "hdr1", "hdrs", "connect", "error", "send", "relay", "write", "spin"}

ProxyInit == calls = <<>> /\ proxy = "starting" /\ px = [c \in Clients |-> Idle]

\* exit, or a signal that kills: the kernel closes every descriptor.
ProxyDies ==
  /\ proxy' = "down"
  /\ px' = [c \in Clients |-> Idle]
  /\ front' = [c \in Clients |-> Abandoned(front[c], "far")]
  /\ back' = [c \in Clients |->
       IF px[c].pc \in {"send", "relay", "write"} THEN Abandoned(back[c], "near") ELSE back[c]]
  /\ UNCHANGED <<calls, ring>>

ProxyListens ==
  /\ proxy = "starting" /\ proxy' = "up"
  /\ UNCHANGED <<calls, px, netVars>>

\* Mutant: the call that line 51 comments out, process_request in the main thread.
ProxyAcceptAlone ==
  /\ proxy = "up" /\ calls # <<>>
  /\ \A c \in Clients : px[c].pc \notin Busy
  /\ px' = [px EXCEPT ![Head(calls)] = [Idle EXCEPT !.pc = "line"]]
  /\ calls' = Tail(calls)
  /\ UNCHANGED <<proxy, netVars>>

\* The main loop: Accept, Getnameinfo, pthread_create.
ProxyAccept ==
  /\ proxy = "up" /\ calls # <<>>
  /\ px' = [px EXCEPT ![Head(calls)] = [Idle EXCEPT !.pc = "line"]]
  /\ calls' = Tail(calls)
  /\ UNCHANGED <<proxy, netVars>>

-----------------------------------------------------------------------------
\* One read by the thread of c from its client, and the end of file or the
\* reset it may find instead (Rio_readlineb).
ReadsClient(c) ==
  /\ LineBytes(px[c].rio) = 0
  /\ \E n \in ReadSizes(front[c], "far") :
       /\ px' = [px EXCEPT ![c].rio = Refill(@, SubSeq(front[c].data["far"], 1, n))]
       /\ front' = [front EXCEPT ![c] = Taken(@, "far", n)]
  /\ UNCHANGED <<calls, proxy, back, ring>>

ClientReset(c) == LineBytes(px[c].rio) = 0 /\ AtError(front[c], "far") /\ ProxyDies

\* The line Rio_readlineb returns, and the end of file without one.
GotLines(c) == Lines(px[c].rio, AtEof(front[c], "far"))
NoLine(c) == AtEof(front[c], "far") /\ px[c].rio = rio_readinitb
Goes(c, pc) == px' = [px EXCEPT ![c].pc = pc] /\ UNCHANGED <<calls, proxy, netVars>>

\* What clienterror writes: status line and headers, then the body.
clienterror(what) == <<<<what, "status">>, <<what, "page">>>>

\* process_request up to the method: an empty connection returns at once, and
\* a method other than GET is answered 501; neither closes clientfd.
RequestLine(c) ==
  /\ proxy = "up" /\ px[c].pc = "line"
  /\ \/ ReadsClient(c)
     \/ ClientReset(c)
     \/ NoLine(c) /\ Goes(c, "leaked")
     \/ \E got \in GotLines(c) :
          /\ px' = [px EXCEPT ![c] =
               IF got.line[1][1] = "GET"
               THEN [@ EXCEPT !.pc = "hdr1", !.uri = got.line[1], !.rio = got.rio]
               ELSE [@ EXCEPT !.pc = "error", !.out = clienterror("501")]]
          /\ UNCHANGED <<calls, proxy, netVars>>

\* read_requesthdrs: lines until a blank one. At end of file buf keeps its last
\* line, so the loop never ends; when no header came at all buf is whatever the
\* stack holds, which may be the blank line of an earlier request.
Headers(c) ==
  /\ proxy = "up" /\ px[c].pc \in {"hdr1", "hdrs"}
  /\ \/ ReadsClient(c)
     \/ ClientReset(c)
     \/ NoLine(c) /\ Goes(c, "spin")
     \/ NoLine(c) /\ px[c].pc = "hdr1" /\ Goes(c, "connect")
     \/ \E got \in GotLines(c) :
          /\ px' = [px EXCEPT ![c].rio = got.rio,
                              ![c].pc = IF got.line = Blank THEN "connect" ELSE "hdrs"]
          /\ UNCHANGED <<calls, proxy, netVars>>

-----------------------------------------------------------------------------
\* parse_uri: exits unless the scheme is http or https. A URI with a port
\* leaves the path in port and no '/' in hostname: the scan for one runs on
\* into the arrays that follow, and truncates port when that is the next one.
SchemeOf(uri) == uri[2]
PathOf(uri) == uri[3]
parse_uriKeepsPath(uri) == {"nowhere"}  \* mutant: the hostname is not cut at its '/'
parse_uri(uri) ==
  CASE SchemeOf(uri) \in {"http", "https"} -> {"server"}
    [] SchemeOf(uri) = "http-port"         -> {"server", "nowhere"}
    [] SchemeOf(uri) = "http-nohost"       -> {"nowhere"}
    [] OTHER                               -> {"exit"}

\* rebuild_request: the path instead of the URI, headers of its own.
rebuild_request(uri) == <<<<"GET", "", PathOf(uri)>>, <<"LF">>, <<"hdr">>, <<"CR">>, <<"LF">>>>

\* open_clientfd: the first address of the host that accepts the connection.
open_clientfd(host, listening) == host = "server" /\ listening

\* parse_uri, then Open_clientfd, whose failure exits as well.
OpensServer(c, listening) ==
  /\ proxy = "up" /\ px[c].pc = "connect"
  /\ \E host \in parse_uri(px[c].uri) :
       \/ /\ open_clientfd(host, listening)
          /\ px' = [px EXCEPT ![c].pc = "send", ![c].out = rebuild_request(px[c].uri)]
          /\ back' = [back EXCEPT ![c] = Fresh]
          /\ ring' = Append(ring, c)
          /\ UNCHANGED <<calls, proxy, front>>
       \/ ~open_clientfd(host, listening) /\ ProxyDies

-----------------------------------------------------------------------------
\* Rio_writen: one write of what is left per step; the step that writes the
\* last byte moves on. Writing again after a reset kills the process.
SigPipe(k, e) == k.err[e] # "no"

WritesServer(c) ==
  /\ proxy = "up" /\ px[c].pc = "send"
  /\ \/ \E n \in {Fits(back[c], "near", px[c].out)} :
          /\ n > 0
          /\ back' = [back EXCEPT ![c] = Put(@, "near", SubSeq(px[c].out, 1, n))]
          /\ px' = [px EXCEPT ![c].out = SubSeq(@, n + 1, Len(@)),
                              ![c].pc = IF n = Len(px[c].out) THEN "relay" ELSE @,
                              ![c].rio = IF n = Len(px[c].out) THEN rio_readinitb ELSE @]
          /\ UNCHANGED <<calls, proxy, front, ring>>
     \/ SigPipe(back[c], "near") /\ ProxyDies

\* Rio_readnb(MAXLINE): a block is forwarded when it is full or the server has
\* closed; a block of no bytes ends the loop and closes both connections.
\* Mutant: rio_readinitb for every block, which forgets the unread bytes.
BlockForgets(c, r) ==
  IF BlockFull(r)
  THEN [px[c] EXCEPT !.pc = "write", !.out = r.usr, !.rio = rio_readinitb]
  ELSE [px[c] EXCEPT !.pc = "relay", !.out = <<>>, !.rio = r]
Block(c, r) ==
  IF BlockFull(r)
  THEN [px[c] EXCEPT !.pc = "write", !.out = r.usr, !.rio = [r EXCEPT !.usr = <<>>]]
  ELSE [px[c] EXCEPT !.pc = "relay", !.out = <<>>, !.rio = r]
\* Mutant: Close(serverfd) is missing.
ReadsServerKeeps(c) ==
  /\ proxy = "up" /\ px[c].pc = "relay"
  /\ \/ \E n \in ReadSizes(back[c], "near") :
          /\ px' = [px EXCEPT ![c] = Block(c, Copied(Refill(@.rio, SubSeq(back[c].data["near"], 1, n))))]
          /\ back' = [back EXCEPT ![c] = Taken(@, "near", n)]
          /\ UNCHANGED <<calls, proxy, front, ring>>
     \/ /\ AtEof(back[c], "near")
        /\ \E f \in Shut(front[c], "far") : front' = [front EXCEPT ![c] = f]
        /\ px' = [px EXCEPT ![c] = [Idle EXCEPT !.pc = "done"]]
        /\ UNCHANGED <<calls, proxy, back, ring>>
ReadsServer(c) ==
  /\ proxy = "up" /\ px[c].pc = "relay"
  /\ \/ \E n \in ReadSizes(back[c], "near") :
          /\ px' = [px EXCEPT ![c] = Block(c, Copied(Refill(@.rio, SubSeq(back[c].data["near"], 1, n))))]
          /\ back' = [back EXCEPT ![c] = Taken(@, "near", n)]
          /\ UNCHANGED <<calls, proxy, front, ring>>
     \/ AtError(back[c], "near") /\ ProxyDies
     \/ /\ AtEof(back[c], "near") /\ px[c].rio.usr # <<>>
        /\ px' = [px EXCEPT ![c].pc = "write", ![c].out = px[c].rio.usr, ![c].rio.usr = <<>>]
        /\ UNCHANGED <<calls, proxy, netVars>>
     \/ /\ AtEof(back[c], "near") /\ px[c].rio.usr = <<>>
        /\ \E f \in Shut(front[c], "far"), b \in Shut(back[c], "near") :
             front' = [front EXCEPT ![c] = f] /\ back' = [back EXCEPT ![c] = b]
        /\ px' = [px EXCEPT ![c] = [Idle EXCEPT !.pc = "done"]]
        /\ UNCHANGED <<calls, proxy, ring>>

\* Rio_writen to the client: a block of the answer, or the 501 page, after
\* which the thread returns with clientfd open.
WritesClient(c) ==
  /\ proxy = "up" /\ px[c].pc \in {"write", "error"}
  /\ \/ \E n \in {Fits(front[c], "far", px[c].out)} :
          /\ n > 0
          /\ front' = [front EXCEPT ![c] = Put(@, "far", SubSeq(px[c].out, 1, n))]
          /\ px' = [px EXCEPT ![c] =
               IF n < Len(@.out) THEN [px[c] EXCEPT !.out = SubSeq(@, n + 1, Len(@))]
               ELSE IF @.pc = "error" THEN [Idle EXCEPT !.pc = "leaked"]
               ELSE Block(c, Copied(@.rio))]
          /\ UNCHANGED <<calls, proxy, back, ring>>
     \/ SigPipe(front[c], "far") /\ ProxyDies

Thread(c, listening) ==
  \/ RequestLine(c) \/ Headers(c) \/ OpensServer(c, listening)
  \/ WritesServer(c) \/ ReadsServer(c) \/ WritesClient(c)
=============================================================================
