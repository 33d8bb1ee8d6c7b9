---------------------------- MODULE HostFlowScan ----------------------------
(***************************************************************************)
(* One scan of the polling agent: GetHostFlows of probe/netlink, beside    *)
(* the processes of the host, which fork, exit, open and close sockets     *)
(* while it walks /proc.                                                   *)
(*                                                                         *)
(* First BuildUserEntries links socket inodes to processes, one system     *)
(* call at a time; then the socket table is dumped (by netlink, or from    *)
(* /proc/net/tcp when that fails), and its connections are grouped into    *)
(* host flows.                                                             *)
(*                                                                         *)
(* The kernel (external) names a process by its pid, which it does not     *)
(* assign twice during a scan.  A socket is named by its inode; addresses, *)
(* ports and who opened it are constant.  An address is the sequence of    *)
(* its numbers.  The address filter, which no agent sets, is left out.     *)
(***************************************************************************)
EXTENDS Naturals, FiniteSets, SequencesExt

CONSTANTS
  Pid,          \* process ids
  Self,         \* the agent's own
  Ident,        \* a process's name and process group
  Who,          \* Who[p]: those of the process that gets pid p
  Spaced,       \* those whose name has a space in it
  Denied,       \* those whose /proc/<pid>/fd the agent may not open
  Inode,        \* sockets
  Sock,         \* Sock[i]: kind, family, laddr, lport, raddr, rport of socket i
  Opens,        \* Opens[p]: the sockets that the program of pid p may open
  Wildcard,     \* "0.0.0.0", "127.0.0.1" and "::"
  DirCap,       \* directory entries that fit the 4096 bytes of a dirent.Stream
  MaxEvents,    \* bound on what processes do during the scan
  MaxExits,     \* bound on the exits and on the listeners closed among that
  NoEnt         \* nil

ASSUME PidAssumption ==
  /\ Self \in Pid /\ Who \in [Pid -> Ident] /\ NoEnt \notin Ident
  /\ Opens \in [Pid -> SUBSET Inode]
  /\ DirCap \in Nat \ {0}
  /\ IsFiniteSet(Pid)

ASSUME SockAssumption ==
  /\ IsFiniteSet(Inode) /\ NoEnt \notin Inode
  /\ \A i \in Inode : /\ Sock[i].kind \in {"listener", "accepted", "connected"}
                      /\ Sock[i].laddr \in Seq(Nat) /\ Sock[i].raddr \in Seq(Nat)

VARIABLES
  proc,         \* proc[p]: the process with pid p
  fds,          \* fds[p]: its sockets
  tcp,          \* tcp[i]: the state of socket i
  used,         \* pids that have been in use
  events, exits,
  held,         \* <<d, i>>: process d has had socket i during the scan
  kept,         \* <<p, i>>: pid p has had socket i since the scan began
  pc,           \* the next system call of the scan
  todo,         \* pids read from /proc that are still to be visited
  pid,          \* the pid that is being visited
  fdTodo,       \* descriptors of pid, by their sockets, still to be visited
  fd,           \* the descriptor that is being visited
  stat,         \* /proc/<pid>/stat once it is parsed
  userEnts,     \* userEnts[i]: the process found for inode i
  conns, left,  \* the dumped sockets, and those that are not yet grouped
  lportEnt,     \* lportEnt[n]: the process found for listening port n
  flows         \* probe.HostFlows

kernel == <<proc, fds, tcp, used, events, exits, held, kept>>
walk == <<todo, pid, fdTodo, fd, stat, userEnts>>
table == <<conns, left, lportEnt, flows>>
vars == <<kernel, pc, walk, table>>

-----------------------------------------------------------------------------
(* Processes *)

Alive(p) == proc[p] # NoEnt
Live == {p \in Pid : Alive(p)}
Port == {Sock[i].lport : i \in Inode}

Born(i) ==
  CASE Sock[i].kind = "listener" -> "listen"
    [] Sock[i].kind = "accepted" -> "established"
    [] Sock[i].kind = "connected" -> "syn_sent"

\* a connection that no process has any more lingers without an inode
Released(F, i) ==
  IF \E p \in Pid : i \in F[p] THEN tcp[i]
  ELSE IF tcp[i] = "established" THEN "time_wait"
  ELSE IF tcp[i] = "time_wait" THEN "time_wait" ELSE "closed"

HeldBy(P, F) == UNION {{<<P[p], i>> : i \in F[p]} : p \in Pid}

\* up to the dump of the socket table: the rest of the scan reads nothing
\* that a process could change
Happens ==
  /\ pc \notin {"group", "done", "failed", "unread"}
  /\ events < MaxEvents
  /\ events' = events + 1
  /\ held' = held \cup HeldBy(proc', fds')
  /\ kept' = {h \in kept : h[2] \in fds'[h[1]]}
  /\ UNCHANGED <<pc, walk, table>>

Fork(p, q) ==
  /\ Alive(p) /\ p # Self /\ q \notin used
  /\ proc' = [proc EXCEPT ![q] = Who[q]]
  /\ fds' = [fds EXCEPT ![q] = fds[p]]
  /\ used' = used \cup {q}
  /\ UNCHANGED <<tcp, exits>>
  /\ Happens

Exit(p) ==
  /\ Alive(p) /\ p # Self
  /\ exits < MaxExits
  /\ exits' = exits + 1
  /\ proc' = [proc EXCEPT ![p] = NoEnt]
  /\ fds' = [fds EXCEPT ![p] = {}]
  /\ tcp' = [i \in Inode |-> Released(fds', i)]
  /\ UNCHANGED used
  /\ Happens

Open(p, i) ==
  /\ Alive(p) /\ i \in Opens[p] /\ tcp[i] = "closed"
  /\ Sock[i].kind = "accepted" =>
       \E l \in Inode : tcp[l] = "listen" /\ Sock[l].lport = Sock[i].lport
  /\ fds' = [fds EXCEPT ![p] = @ \cup {i}]
  /\ tcp' = [tcp EXCEPT ![i] = Born(i)]
  /\ UNCHANGED <<proc, used, exits>>
  /\ Happens

Close(p, i) ==
  /\ i \in fds[p]
  /\ IF Sock[i].kind = "listener"
     THEN exits < MaxExits /\ exits' = exits + 1 ELSE UNCHANGED exits
  /\ fds' = [fds EXCEPT ![p] = @ \ {i}]
  /\ tcp' = [tcp EXCEPT ![i] = Released(fds', i)]
  /\ UNCHANGED <<proc, used>>
  /\ Happens

Established(i) ==
  /\ tcp[i] = "syn_sent"
  /\ tcp' = [tcp EXCEPT ![i] = "established"]
  /\ UNCHANGED <<proc, fds, used, exits>>
  /\ Happens

Kernel ==
  \/ \E p, q \in Pid : Fork(p, q)
  \/ \E p \in Pid : Exit(p)
  \/ \E p \in Pid, i \in Inode : Open(p, i) \/ Close(p, i)
  \/ \E i \in Inode : Established(i)

-----------------------------------------------------------------------------
(* BuildUserEntries *)

\* The stream fills its buffer once and takes the zeros after the entries for
\* the end, so it returns the entries that fit (external: dirent.Stream.Read).
Listings(S) ==
  {L \in SUBSET S :
     Cardinality(L) = IF Cardinality(S) <= DirCap THEN Cardinality(S) ELSE DirCap}

\* dirent.Open(root) and the first stream.Read
ReadRoot ==
  /\ pc = "root"
  /\ \/ todo' \in Listings(Live) /\ pc' = "pids"
     \/ pc' = "failed" /\ UNCHANGED todo
  /\ UNCHANGED <<kernel, pid, fdTodo, fd, stat, userEnts, table>>

MutNextPid(p) ==
  /\ pc = "pids" /\ p \in todo
  /\ todo' = todo \ {p}
  /\ pid' = p
  /\ pc' = IF p = Self THEN "pids" ELSE "stat"
  /\ UNCHANGED <<kernel, fdTodo, fd, stat, userEnts, table>>

\* skip self process; otherwise go on to its fd directory, no stat parsed
NextPid(p) ==
  /\ pc = "pids" /\ p \in todo
  /\ todo' = todo \ {p}
  /\ pid' = p
  /\ stat' = NoEnt
  /\ pc' = IF p = Self THEN "pids" ELSE "stat"
  /\ UNCHANGED <<kernel, fdTodo, fd, userEnts, table>>

\* BuildUserEntries returns, and its variables are gone
PidsEnd ==
  /\ pc = "pids" /\ todo = {}
  /\ pid' = Self /\ stat' = NoEnt
  /\ pc' = "dump"
  /\ UNCHANGED <<kernel, todo, fdTodo, fd, userEnts, table>>

\* os.Stat(fdDir); every error ends the scan, not only that the process is gone
StatFdDir ==
  /\ pc = "stat"
  /\ pc' \in IF Alive(pid) THEN {"open", "failed"} ELSE {"failed"}
  /\ UNCHANGED <<kernel, walk, table>>

MutOpenFdDir ==
  /\ pc = "open"
  /\ pc' \in IF ~Alive(pid) THEN {"failed"}
             ELSE {IF proc[pid] \in Denied THEN "dump" ELSE "list", "failed"}
  /\ UNCHANGED <<kernel, walk, table>>

\* dirent.Open(fdDir); EACCES is passed over, any other error ends the scan:
\* EMFILE too, as the deferred Close keeps the streams of all processes open
OpenFdDir ==
  /\ pc = "open"
  /\ pc' \in IF ~Alive(pid) THEN {"failed"}
             ELSE {IF proc[pid] \in Denied THEN "pids" ELSE "list", "failed"}
  /\ UNCHANGED <<kernel, walk, table>>

\* the first fdStream.Read
ReadFdDir ==
  /\ pc = "list"
  /\ \/ Alive(pid) /\ fdTodo' \in Listings(fds[pid]) /\ pc' = "fds"
     \/ pc' = "failed" /\ UNCHANGED fdTodo
  /\ UNCHANGED <<kernel, todo, pid, fd, stat, userEnts, table>>

\* os.Readlink; ENOENT, a descriptor that is gone, is passed over, any other
\* error ends the scan
ReadLink(i) ==
  /\ pc = "fds" /\ i \in fdTodo
  /\ fdTodo' = fdTodo \ {i}
  /\ fd' = i
  /\ pc' \in {IF i \in fds[pid] THEN "ent" ELSE "fds", "failed"}
  /\ UNCHANGED <<kernel, todo, pid, stat, userEnts, table>>

FdsEnd ==
  /\ pc = "fds" /\ fdTodo = {}
  /\ fd' = NoEnt
  /\ pc' = "pids"
  /\ UNCHANGED <<kernel, todo, pid, fdTodo, stat, userEnts, table>>

\* parseProcStat, once per pid: the file is not there or cannot be opened, or
\* Fscan splits at the space in a name and does not find the numbers it wants
ParseProcStat ==
  /\ pc = "ent" /\ stat = NoEnt
  /\ \/ Alive(pid) /\ proc[pid] \notin Spaced /\ stat' = proc[pid] /\ pc' = "ent"
     \/ pc' = "failed" /\ UNCHANGED stat
  /\ UNCHANGED <<kernel, todo, pid, fdTodo, fd, userEnts, table>>

MutSetUserEnt ==
  /\ pc = "ent" /\ stat # NoEnt
  /\ userEnts' = [userEnts EXCEPT ![fd] = pid]
  /\ pc' = "fds"
  /\ UNCHANGED <<kernel, todo, pid, fdTodo, fd, stat, table>>

SetUserEnt ==
  /\ pc = "ent" /\ stat # NoEnt
  /\ userEnts' = [userEnts EXCEPT ![fd] = stat]
  /\ pc' = "fds"
  /\ UNCHANGED <<kernel, todo, pid, fdTodo, fd, stat, table>>

-----------------------------------------------------------------------------
(* The socket table and the host flows *)

\* a dumped socket: its inode is 0, here NoEnt, when no process has it
Dumped ==
  {[sock |-> i, state |-> tcp[i], laddr |-> Sock[i].laddr, raddr |-> Sock[i].raddr,
    inode |-> IF tcp[i] = "time_wait" THEN NoEnt ELSE i] :
   i \in {j \in Inode : tcp[j] # "closed"}}

\* the sockets that listen on all addresses or on 127.0.0.1
Listening(C) == {c \in C : c.state = "listen" /\ c.laddr \in Wildcard}

\* the listening sockets of a port, in any order; the last one counts
LportEnts(C) ==
  {e \in [Port -> Ident \cup {NoEnt}] :
     \A n \in Port :
       LET L == {c \in Listening(C) : Sock[c.sock].lport = n}
       IN  IF L = {} THEN e[n] = NoEnt ELSE \E c \in L : e[n] = userEnts[c.inode]}

NetlinkConnections ==
  /\ pc = "dump"
  /\ conns' = Dumped
  /\ left' = Dumped
  /\ lportEnt' \in LportEnts(Dumped)
  /\ pc' = "group"
  /\ UNCHANGED <<kernel, walk, flows>>

NetlinkError ==
  /\ pc = "dump"
  /\ pc' = "procfs"
  /\ UNCHANGED <<kernel, walk, table>>

\* the bytes of an address as /proc/net/tcp prints them on a host
PrintedAddress(addr, order) == IF order = "big" THEN addr ELSE Reverse(addr)

decodeAddress(src) == Reverse(src)

\* /proc/net/tcp has the IPv4 sockets and tells nothing about processes; on a
\* host of the other byte order the addresses come out reversed
ProcfsConnections ==
  /\ pc = "procfs"
  /\ \E order \in {"little", "big"} :
       conns' = {[c EXCEPT !.inode = NoEnt,
                           !.laddr = decodeAddress(PrintedAddress(@, order)),
                           !.raddr = decodeAddress(PrintedAddress(@, order))] :
                   c \in {d \in Dumped : Sock[d.sock].family = "v4"}}
  /\ left' = conns'
  /\ lportEnt' = [n \in Port |-> NoEnt]
  /\ pc' = "group"
  /\ UNCHANGED <<kernel, walk, flows>>

\* ReadFile failed
ProcfsError ==
  /\ pc = "procfs"
  /\ pc' = "unread"
  /\ UNCHANGED <<kernel, walk, table>>

IsFlow(c) == c.state \notin {"listen", "syn_sent"}

Direction(c) ==
  IF \E l \in Listening(conns) : Sock[l.sock].lport = Sock[c.sock].lport
  THEN "passive" ELSE "active"

\* Direction, Local and Peer of the flow: the port that is "many" is left out
UniqKey(c) ==
  LET s == Sock[c.sock]
  IN  <<Direction(c), c.laddr, c.raddr,
        IF Direction(c) = "passive" THEN s.lport ELSE s.rport>>

Ent(c) ==
  LET ent == IF c.inode = NoEnt THEN NoEnt ELSE userEnts[c.inode]
  IN  IF ent = NoEnt /\ Direction(c) = "passive"
      THEN lportEnt[Sock[c.sock].lport] ELSE ent

NewFlow(c) == [key |-> UniqKey(c), process |-> Ent(c), connections |-> 1]

MutMerged(g, h) == [g EXCEPT !.process = IF @ = NoEnt THEN h.process ELSE @]

\* one more connection of flow g; it fills in the process if g has none
Merged(g, h) ==
  [g EXCEPT !.connections = @ + 1,
            !.process = IF @ = NoEnt THEN h.process ELSE @]

\* HostFlows.Insert
Inserted(F, h) ==
  LET same == {g \in F : g.key = h.key}
  IN  IF same = {} THEN F \cup {h} ELSE (F \ same) \cup {Merged(g, h) : g \in same}

Group(c) ==
  /\ pc = "group" /\ c \in left
  /\ left' = left \ {c}
  /\ flows' = IF IsFlow(c) THEN Inserted(flows, NewFlow(c)) ELSE flows
  /\ UNCHANGED <<kernel, pc, walk, conns, lportEnt>>

\* SetLookupedName fills in the names of the flows, which nothing reads
Return ==
  /\ pc = "group" /\ left = {}
  /\ pc' = "done"
  /\ UNCHANGED <<kernel, walk, table>>

-----------------------------------------------------------------------------
\* any processes, with any of the sockets; listeners may be shared, and a port
\* is listened on before it accepts
Init ==
  /\ \E L \in SUBSET Pid :
       Self \in L /\ proc = [p \in Pid |-> IF p \in L THEN Who[p] ELSE NoEnt]
  /\ fds \in [Pid -> SUBSET Inode]
  /\ \A p \in Pid : \A i \in fds[p] : Alive(p) /\ i \in Opens[p]
  /\ \A p, q \in Pid : \A i \in fds[p] \cap fds[q] :
       p = q \/ Sock[i].kind = "listener"
  /\ tcp = [i \in Inode |->
              IF \E p \in Pid : i \in fds[p] THEN Born(i) ELSE "closed"]
  /\ \A i \in Inode : tcp[i] # "closed" /\ Sock[i].kind = "accepted" =>
       \E l \in Inode : tcp[l] = "listen" /\ Sock[l].lport = Sock[i].lport
  /\ used = Live
  /\ events = 0 /\ exits = 0
  /\ held = HeldBy(proc, fds)
  /\ kept = UNION {{<<p, i>> : i \in fds[p]} : p \in Pid}
  /\ pc = "root"
  /\ todo = {} /\ pid = Self /\ fdTodo = {} /\ fd = NoEnt /\ stat = NoEnt
  /\ userEnts = [i \in Inode |-> NoEnt]
  /\ conns = {} /\ left = {} /\ flows = {}
  /\ lportEnt = [n \in Port |-> NoEnt]

Walk ==
  \/ ReadRoot
  \/ \E p \in Pid : NextPid(p)
  \/ PidsEnd
  \/ StatFdDir
  \/ OpenFdDir
  \/ ReadFdDir
  \/ \E i \in Inode : ReadLink(i)
  \/ FdsEnd
  \/ ParseProcStat
  \/ SetUserEnt

Build ==
  \/ NetlinkConnections
  \/ NetlinkError
  \/ ProcfsConnections
  \/ ProcfsError
  \/ \E c \in left : Group(c)
  \/ Return

Next == Kernel \/ Walk \/ Build

Spec == Init /\ [][Next]_vars

-----------------------------------------------------------------------------
(* Every connection of the dump is counted in exactly one flow, whatever   *)
(* the order in which they are inserted (probe.go:127-137).                *)
ConnectionsCounted ==
  LET seen == {c \in conns \ left : IsFlow(c)}
  IN  /\ \A g \in flows :
           g.connections = Cardinality({c \in seen : UniqKey(c) = g.key})
      /\ \A c \in seen : Cardinality({g \in flows : g.key = UniqKey(c)}) = 1

\* process d had connection c or a socket that listens on its port
Had(d, c) ==
  \E i \in Inode :
    /\ <<d, i>> \in held
    /\ \/ i = c.sock
       \/ Sock[i].kind = "listener" /\ Sock[i].lport = Sock[c.sock].lport

(* A flow never names a process that had nothing to do with it: its        *)
(* process had one of its connections, or listened on their port, at some  *)
(* time during the scan (connections.go:88-126, netutil_linux.go:359-373). *)
ProcessHadSocket ==
  \A g \in flows :
    g.process # NoEnt =>
      \E c \in conns : UniqKey(c) = g.key /\ Had(g.process, c)

\* the scan has read the socket table by netlink
ByNetlink == \A c \in conns : c.inode = NoEnt => c.state = "time_wait"

\* the directories of the scan fitted the buffer of a dirent.Stream
DirsFit ==
  /\ Cardinality(used) <= DirCap
  /\ \A p \in Pid : Cardinality({i \in Inode : <<Who[p], i>> \in held}) <= DirCap

(* "Then it links each connection and each process" (README.md:27): at the *)
(* end a flow has a process if a process that may be looked at has had one *)
(* of its connections all the time.  The directories must fit one read:    *)
(* the stream returns no more of them (netutil_linux.go:276, 326).         *)
ConnectionsLinked ==
  pc = "done" /\ ByNetlink /\ DirsFit =>
    \A c \in conns, p \in Pid \ {Self} :
      /\ IsFlow(c) /\ <<p, c.sock>> \in kept /\ proc[p] \notin Denied
      => \A g \in flows : g.key = UniqKey(c) => g.process # NoEnt

(* Type invariant.                                                         *)
TypeOK ==
  /\ proc \in [Pid -> Ident \cup {NoEnt}]
  /\ fds \in [Pid -> SUBSET Inode]
  /\ \A i \in Inode :
       tcp[i] \in {"listen", "syn_sent", "established"}
         <=> \E p \in Pid : i \in fds[p]
  /\ stat \in Ident \cup {NoEnt}
  /\ userEnts \in [Inode -> Ident \cup {NoEnt}]
  /\ lportEnt \in [Port -> Ident \cup {NoEnt}]
  /\ \A g \in flows : g.process \in Ident \cup {NoEnt}
=============================================================================
