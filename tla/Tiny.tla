-------------------------------- MODULE Tiny ---------------------------------
(* tiny.c: one process that serves one connection at a time, and the CGI      *)
(* program it forks. Tiny is the far end of back[conn].                       *)
EXTENDS Proxy

VARIABLES
  tiny, \* [pc, conn, rio, out, path]; pc "starting", "accept", ..., "spin", "down"
  cgi   \* the child: whether it runs, and the output it has still to write

NoConn == "nobody"
tinyVars == <<tiny, cgi>>

TinyInit ==
  /\ tiny = [pc |-> "starting", conn |-> NoConn, rio |-> rio_readinitb,
             out |-> <<>>, path |-> ""]
  /\ cgi = [up |-> FALSE, out |-> <<>>]

\* The files that tiny sees: their kind and their length.
Stat(path) ==
  CASE path = "page"   -> [found |-> TRUE, readable |-> TRUE, size |-> 3]
    [] path = "empty"  -> [found |-> TRUE, readable |-> TRUE, size |-> 0]
    [] path = "secret" -> [found |-> TRUE, readable |-> FALSE, size |-> 3]
    [] path \in {"adder?1&2", "adder?1"} -> [found |-> TRUE, readable |-> TRUE, size |-> 1]
    [] OTHER           -> [found |-> FALSE, readable |-> FALSE, size |-> 0]

\* parse_uri of tiny.c: whatever names cgi-bin is dynamic.
is_static(path) == path \notin {"adder?1&2", "adder?1"}

\* adder.c: QUERY_STRING without an '&' makes strchr return NULL, and the
\* store through it kills the child before it wrote anything.
adder(path) == IF path = "adder?1&2" THEN <<<<path, "sum">>>> ELSE <<>>

Body(path) == [i \in 1..Stat(path).size |-> <<path, i>>]

TinyListens ==
  /\ tiny.pc = "starting" /\ tiny' = [tiny EXCEPT !.pc = "accept"]
  /\ UNCHANGED <<cgi, proxyVars, netVars>>

TinyDies ==
  /\ tiny' = [tiny EXCEPT !.pc = "down", !.conn = NoConn, !.rio = rio_readinitb, !.out = <<>>]
  /\ back' = [c \in Clients |->
       IF c = tiny.conn \/ \E i \in 1..Len(ring) : ring[i] = c
       THEN Abandoned(back[c], "far") ELSE back[c]]
  /\ UNCHANGED <<cgi, ring, front, proxyVars>>

TinyAccept ==
  /\ tiny.pc = "accept" /\ ring # <<>>
  /\ tiny' = [tiny EXCEPT !.pc = "line", !.conn = Head(ring), !.rio = rio_readinitb]
  /\ ring' = Tail(ring)
  /\ UNCHANGED <<cgi, front, back, proxyVars>>

-----------------------------------------------------------------------------
\* Rio_readlineb, as in the proxy, on the copy of csapp.c that tiny links.
TinyReads ==
  /\ LineBytes(tiny.rio) = 0
  /\ \E n \in ReadSizes(back[tiny.conn], "far") :
       /\ tiny' = [tiny EXCEPT !.rio = Refill(@, SubSeq(back[tiny.conn].data["far"], 1, n))]
       /\ back' = [back EXCEPT ![tiny.conn] = Taken(@, "far", n)]
  /\ UNCHANGED <<cgi, front, ring, proxyVars>>
TinyReset == LineBytes(tiny.rio) = 0 /\ AtError(back[tiny.conn], "far") /\ TinyDies
TinyLines == Lines(tiny.rio, AtEof(back[tiny.conn], "far"))
TinyNoLine == AtEof(back[tiny.conn], "far") /\ tiny.rio = rio_readinitb
TinyGoes(t) == tiny' = t /\ UNCHANGED <<cgi, netVars, proxyVars>>

\* doit up to the method; a return here goes to Close(connfd) in main.
Doit ==
  /\ tiny.pc = "line"
  /\ \/ TinyReads
     \/ TinyReset
     \/ TinyNoLine /\ TinyGoes([tiny EXCEPT !.pc = "close"])
     \/ \E got \in TinyLines :
          TinyGoes(IF got.line[1][1] = "GET"
                   THEN [tiny EXCEPT !.pc = "hdr1", !.path = PathOf(got.line[1]), !.rio = got.rio]
                   ELSE [tiny EXCEPT !.pc = "page", !.out = clienterror("501")])

\* read_requesthdrs: here a spinning loop holds the only process there is.
TinyHeaders ==
  /\ tiny.pc \in {"hdr1", "hdrs"}
  /\ \/ TinyReads
     \/ TinyReset
     \/ TinyNoLine /\ TinyGoes([tiny EXCEPT !.pc = "spin"])
     \/ TinyNoLine /\ tiny.pc = "hdr1" /\ TinyGoes([tiny EXCEPT !.pc = "serve"])
     \/ \E got \in TinyLines :
          TinyGoes([tiny EXCEPT !.rio = got.rio,
                                !.pc = IF got.line = Blank THEN "serve" ELSE "hdrs"])

\* The rest of doit: 404, 403, or the headers of the answer.
Serve ==
  /\ tiny.pc = "serve"
  /\ \E file \in {Stat(tiny.path)} :
       TinyGoes(
         IF ~file.found THEN [tiny EXCEPT !.pc = "page", !.out = clienterror("404")]
         ELSE IF ~file.readable THEN [tiny EXCEPT !.pc = "page", !.out = clienterror("403")]
         ELSE IF is_static(tiny.path)
         THEN [tiny EXCEPT !.pc = "head", !.out = <<<<tiny.path, "head">>>>]
         ELSE [tiny EXCEPT !.pc = "cgi", !.out = <<<<tiny.path, "status">>, <<tiny.path, "server">>>>])

\* rio_writen; a client that is gone kills tiny by SIGPIPE, once it knows.
TinySigPipe == back[tiny.conn].err["far"] # "no"
AfterWrite == [page |-> "close", head |-> "map", body |-> "close", cgi |-> "fork"]
TinyWrites ==
  /\ tiny.pc \in DOMAIN AfterWrite
  /\ \/ \E n \in {Fits(back[tiny.conn], "far", tiny.out)} :
          /\ n > 0
          /\ back' = [back EXCEPT ![tiny.conn] = Put(@, "far", SubSeq(tiny.out, 1, n))]
          /\ tiny' = [tiny EXCEPT !.out = SubSeq(@, n + 1, Len(@)),
                                  !.pc = IF n = Len(tiny.out) THEN AfterWrite[@] ELSE @]
          /\ UNCHANGED <<cgi, front, ring, proxyVars>>
     \/ TinySigPipe /\ TinyDies

\* serve_static after the headers: Mmap of no bytes fails and exits.
Mmap(size) == size > 0
MapFile ==
  /\ tiny.pc = "map"
  /\ IF ~Mmap(Stat(tiny.path).size) THEN TinyDies
     ELSE TinyGoes([tiny EXCEPT !.pc = "body", !.out = Body(tiny.path)])

\* serve_dynamic: Fork, Dup2, Execve in the child; Wait in the parent.
ForkCgi ==
  /\ tiny.pc = "fork"
  /\ tiny' = [tiny EXCEPT !.pc = "wait"]
  /\ cgi' = [up |-> TRUE, out |-> adder(tiny.path)]
  /\ UNCHANGED <<netVars, proxyVars>>
CgiRuns ==
  /\ cgi.up
  /\ \/ /\ cgi.out = <<>> /\ cgi' = [cgi EXCEPT !.up = FALSE] /\ UNCHANGED back
     \/ \E n \in {Fits(back[tiny.conn], "far", cgi.out)} :
          /\ n > 0
          /\ back' = [back EXCEPT ![tiny.conn] = Put(@, "far", SubSeq(cgi.out, 1, n))]
          /\ cgi' = [cgi EXCEPT !.out = SubSeq(@, n + 1, Len(@))]
     \/ /\ cgi.out # <<>> /\ TinySigPipe
        /\ cgi' = [up |-> FALSE, out |-> <<>>] /\ UNCHANGED back
  /\ UNCHANGED <<tiny, front, ring, proxyVars>>
WaitCgi ==
  /\ tiny.pc = "wait" /\ ~cgi.up
  /\ TinyGoes([tiny EXCEPT !.pc = "close"])

TinyCloses ==
  /\ tiny.pc = "close"
  /\ \E b \in Shut(back[tiny.conn], "far") : back' = [back EXCEPT ![tiny.conn] = b]
  /\ tiny' = [tiny EXCEPT !.pc = "accept", !.conn = NoConn, !.path = "", !.rio = rio_readinitb]
  /\ UNCHANGED <<cgi, front, ring, proxyVars>>

TinyStep ==
  \/ TinyListens \/ TinyAccept \/ Doit \/ TinyHeaders \/ Serve \/ TinyWrites
  \/ MapFile \/ ForkCgi \/ WaitCgi \/ TinyCloses
=============================================================================
