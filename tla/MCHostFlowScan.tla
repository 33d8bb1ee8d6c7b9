--------------------------- MODULE MCHostFlowScan ---------------------------
(* Sockets of a host 10.0.0.10 for model checking HostFlowScan.            *)
EXTENDS HostFlowScan

CONSTANTS listener, accepted1, accepted2, connected, p1, p2, p3,
          nginx, redis, sshd, shawk

Socket(kind, family, laddr, lport, raddr, rport) ==
  [kind |-> kind, family |-> family,
   laddr |-> laddr, lport |-> lport, raddr |-> raddr, rport |-> rport]

Host == <<10, 0, 0, 10>>
Client == <<10, 0, 0, 11>>
AnyAddr == <<0, 0, 0, 0>>
AnyAddr6 == <<0, 0, 0, 0, 0, 0, 0, 0>>
Host6 == <<8193, 3512, 0, 0, 0, 0, 0, 10>>
Server6 == <<8193, 3512, 0, 0, 0, 0, 0, 12>>

\* a server's port 80, with two connections of one client, and a connection
\* over IPv6 that the host made itself
MCSock ==
  [i \in Inode |->
     CASE i = listener -> Socket("listener", "v4", AnyAddr, 80, AnyAddr, 0)
       [] i = accepted1 -> Socket("accepted", "v4", Host, 80, Client, 4001)
       [] i = accepted2 -> Socket("accepted", "v4", Host, 80, Client, 4002)
       [] OTHER -> Socket("connected", "v6", Host6, 4001, Server6, 5432)]

MCWho ==
  [p \in Pid |-> CASE p = p1 -> nginx [] p = p2 -> redis [] p = p3 -> sshd
                   [] OTHER -> shawk]

\* two servers that may share a port, one with connections to it and one with
\* a connection of its own; sshd and the agent only connect
MCOpens ==
  [p \in Pid |->
     Inode \cap (CASE p = p1 -> {listener, accepted1, accepted2}
                   [] p = p2 -> {listener, connected}
                   [] OTHER -> {connected})]

Wildcards == {AnyAddr, <<127, 0, 0, 1>>, AnyAddr6}
=============================================================================
