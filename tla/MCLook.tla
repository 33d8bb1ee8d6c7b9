------------------------------- MODULE MCLook -------------------------------
(* Flows around a web server for model checking Look.  nginx also proxies  *)
(* to a port of its own, by the address of the host.                       *)
EXTENDS Look, TLC

CONSTANTS wrk_nginx, nginx_nginx

Symmetry == Permutations(Writer)

Proc(addr, pname) == [addr |-> addr, pname |-> pname, pgid |-> 1]

MCSrc ==
  [f \in Flow |->
     IF f = wrk_nginx THEN Proc("10.0.0.11", "wrk") ELSE Proc("10.0.0.10", "nginx")]

MCDst == [f \in Flow |-> Proc("10.0.0.10", "nginx")]
=============================================================================
