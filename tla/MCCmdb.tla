------------------------------- MODULE MCCmdb -------------------------------
(***************************************************************************)
(* Topologies for Cmdb.                                                    *)
(***************************************************************************)
EXTENDS Cmdb

CONSTANTS
  h1, h2, h3, lo,                   \* addresses
  wrk, curl, nginx, httpd, redis,   \* processes
  http, resp                        \* ports

Connect(ca, cp, sa, sp, port) ==
  [caddr |-> ca, cproc |-> cp, saddr |-> sa, sproc |-> sp, port |-> port]

\* wrk -> nginx
Pair == {Connect(h1, wrk, h2, nginx, http)}

\* two clients on one host, and their servers on different ports of two hosts,
\* one of which has no agent; and a connection of a loopback address
TwoPorts == {Connect(h1, wrk, h2, nginx, http),
             Connect(h1, curl, h3, redis, resp),
             Connect(lo, redis, lo, redis, resp)}

\* two processes of one host, each with a server of its own on the same port:
\* OneClientPerPort does not hold, and NoFalseFlow is violated
SamePort == {Connect(h1, wrk, h2, nginx, http),
             Connect(h1, curl, h3, httpd, http)}
=============================================================================
