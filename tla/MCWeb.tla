-------------------------------- MODULE MCWeb --------------------------------
(* The clients of the instance of Web that TLC checks: one that asks the      *)
(* proxy for a page or for a sum, next to one that may do anything.           *)
EXTENDS Web

Via(scheme, path, form, waits) ==
  [to |-> "proxy", scheme |-> scheme, path |-> path, form |-> form, waits |-> waits]
Direct(path, form, waits) ==
  [to |-> "tiny", scheme |-> "", path |-> path, form |-> form, waits |-> waits]

Orderly == {Via("http", p, "whole", TRUE) : p \in {"page", "adder?1&2"}}
Anything ==
  {Via("http", p, "whole", TRUE) : p \in {"page", "absent", "adder?1"}} \cup
  {Via("http", "page", "whole", FALSE), Via("http", "page", "cut", FALSE),
   Via("http", "page", "stub", FALSE), Via("http", "page", "silent", FALSE),
   Via("http", "page", "post", TRUE), Via("http-port", "page", "whole", TRUE),
   Via("ftp", "page", "whole", TRUE),
   Direct("page", "whole", FALSE), Direct("secret", "whole", TRUE),
   Direct("page", "cut", FALSE), Direct("page", "stub", FALSE),
   Direct("page", "silent", FALSE), Direct("page", "post", TRUE),
   Direct("empty", "whole", TRUE), Direct("adder?1&2", "whole", FALSE)}

CONSTANTS first, second
TwoClients ==
  {[c \in {first, second} |-> IF c = first THEN r ELSE s] : r \in Orderly, s \in Anything}
=============================================================================
