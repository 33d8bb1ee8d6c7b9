------------------------- MODULE HostFlowScanProofs -------------------------
(***************************************************************************)
(* Proofs about a scan of the polling agent for any processes and sockets, *)
(* any size of a directory buffer and any number of events during it.      *)
(***************************************************************************)
EXTENDS HostFlowScan, FiniteSetTheorems, TLAPS

-----------------------------------------------------------------------------
(* The inductive invariant *)

State == {"closed", "listen", "syn_sent", "established", "time_wait"}
InUse == {"listen", "syn_sent", "established"}

(* The processes and their sockets: a process keeps its identity, a dead   *)
(* one has no sockets, and a socket is in a state that its kind can have.  *)
KernelInv ==
  /\ proc \in [Pid -> Ident \cup {NoEnt}]
  /\ fds \in [Pid -> SUBSET Inode]
  /\ tcp \in [Inode -> State]
  /\ \A p \in Pid : /\ proc[p] \in {Who[p], NoEnt}
                    /\ proc[p] = NoEnt => fds[p] = {}
                    /\ p \notin used => proc[p] = NoEnt
  /\ \A i \in Inode :
       /\ tcp[i] \in InUse <=> \E p \in Pid : i \in fds[p]
       /\ tcp[i] # "closed" => (tcp[i] = "listen" <=> Sock[i].kind = "listener")

(* held remembers what processes have, and kept nothing else. *)
MemoryInv ==
  /\ used \subseteq Pid
  /\ held \subseteq Ident \X Inode
  /\ \A p \in Pid : \A i \in fds[p] : <<Who[p], i>> \in held
  /\ kept \subseteq Pid \X Inode
  /\ \A h \in kept : h[2] \in fds[h[1]]

Places == {"root", "pids", "stat", "open", "list", "fds", "ent", "dump", "procfs",
           "group", "done", "failed", "unread"}

(* The walk: what it has found about a socket was true at some time of the *)
(* scan.                                                                   *)
WalkInv ==
  /\ pc \in Places
  /\ todo \subseteq Pid /\ pid \in Pid /\ fdTodo \subseteq Inode
  /\ stat \in {NoEnt, Who[pid]}
  /\ pc = "ent" => fd \in Inode /\ <<Who[pid], fd>> \in held
  /\ userEnts \in [Inode -> Ident \cup {NoEnt}]
  /\ \A i \in Inode : userEnts[i] # NoEnt => <<userEnts[i], i>> \in held

Dump == [sock : Inode, state : State \ {"closed"}, laddr : Seq(Nat), raddr : Seq(Nat),
         inode : Inode \cup {NoEnt}]

(* The table is empty up to the dump; then it is what the kernel has. *)
TableInv ==
  /\ conns \subseteq Dump /\ IsFiniteSet(conns) /\ left \subseteq conns
  /\ \A c \in conns : /\ c.state = tcp[c.sock] /\ c.inode \in {NoEnt, c.sock}
  /\ pc \notin {"group", "done"} => conns = {} /\ flows = {}
  /\ pc = "done" => left = {}
  /\ lportEnt \in [Port -> Ident \cup {NoEnt}]
  /\ \A n \in Port : lportEnt[n] # NoEnt =>
       \E i \in Inode : /\ <<lportEnt[n], i>> \in held
                        /\ Sock[i].kind = "listener" /\ Sock[i].lport = n

Seen == {c \in conns \ left : IsFlow(c)}
OfKey(k) == {c \in Seen : UniqKey(c) = k}

(* A flow counts the connections of its key, and names a process that had  *)
(* one of them, or listened for it, if any was found.                      *)
FlowOK(g) ==
  /\ g \in [key : {UniqKey(c) : c \in Seen}, process : Ident \cup {NoEnt},
            connections : Nat]
  /\ g.connections = Cardinality(OfKey(g.key))
  /\ g.process # NoEnt => \E c \in OfKey(g.key) : Had(g.process, c)
  /\ \A c \in OfKey(g.key) : Ent(c) # NoEnt => g.process # NoEnt

(* The flows are those of the connections seen so far, one of each key. *)
FlowInv ==
  /\ \A g \in flows : FlowOK(g)
  /\ \A c \in Seen : \E g \in flows : g.key = UniqKey(c)
  /\ \A g, h \in flows : g.key = h.key => g = h

(* Where the walk is with a socket that a process has had all the time. *)
Linked(h) ==
  h[1] # Self /\ Who[h[1]] \notin Denied =>
    \/ pc \in {"root", "failed"}
    \/ h[1] \in todo
    \/ pid = h[1] /\ pc \in {"stat", "open", "list"}
    \/ pid = h[1] /\ pc \in {"fds", "ent"} /\ h[2] \in fdTodo
    \/ pid = h[1] /\ pc = "ent" /\ fd = h[2]
    \/ userEnts[h[2]] # NoEnt

LinkInv ==
  /\ pc \in {"dump", "procfs", "group", "done"} => todo = {}
  /\ DirsFit => \A h \in kept : Linked(h)

-----------------------------------------------------------------------------
(* The kernel *)

(* A socket is born into a state of its kind. *)
LEMMA BornState ==
  ASSUME NEW i \in Inode
  PROVE  /\ Born(i) \in InUse
         /\ Born(i) = "listen" <=> Sock[i].kind = "listener"
  BY SockAssumption DEF Born, InUse

(* A process has a socket while it is in use, whoever else has it.         *)
LEMMA HeldByHas ==
  ASSUME NEW P, NEW F, NEW p \in Pid, NEW i \in F[p]
  PROVE  <<P[p], i>> \in HeldBy(P, F)
  BY DEF HeldBy

(* At first every socket is in the state in which it is born. *)
LEMMA InitKernel == Init => KernelInv /\ MemoryInv
  <1> SUFFICES ASSUME Init PROVE KernelInv /\ MemoryInv
    OBVIOUS
  <1>1. PICK L \in SUBSET Pid : proc = [p \in Pid |-> IF p \in L THEN Who[p] ELSE NoEnt]
    BY DEF Init
  <1>2. /\ proc \in [Pid -> Ident \cup {NoEnt}] /\ fds \in [Pid -> SUBSET Inode]
        /\ \A p \in Pid : proc[p] \in {Who[p], NoEnt}
    BY <1>1, PidAssumption DEF Init
  <1>3. \A p \in Pid : /\ proc[p] = NoEnt => fds[p] = {}
                       /\ p \notin used => proc[p] = NoEnt
    BY <1>2 DEF Init, Alive, Live
  <1>4. tcp \in [Inode -> State]
    BY BornState DEF Init, State, InUse
  <1>5. ASSUME NEW i \in Inode
        PROVE  /\ tcp[i] \in InUse <=> \E p \in Pid : i \in fds[p]
               /\ tcp[i] # "closed" => (tcp[i] = "listen" <=> Sock[i].kind = "listener")
    <2>1. tcp[i] = IF \E p \in Pid : i \in fds[p] THEN Born(i) ELSE "closed"
      BY DEF Init
    <2> QED BY <2>1, BornState DEF InUse
  <1>6. KernelInv
    BY <1>2, <1>3, <1>4, <1>5 DEF KernelInv
  <1>7. used \subseteq Pid
    BY DEF Init, Live
  <1>8. held \subseteq Ident \X Inode /\ \A p \in Pid : \A i \in fds[p] : <<Who[p], i>> \in held
    <2>1. \A p \in Pid : fds[p] # {} => proc[p] = Who[p] /\ Who[p] \in Ident
      BY <1>2, <1>3, PidAssumption
    <2>2. held = HeldBy(proc, fds)
      BY DEF Init
    <2>3. held \subseteq Ident \X Inode
      BY <1>2, <2>1, <2>2 DEF HeldBy
    <2> QED BY <1>2, <2>1, <2>2, <2>3, HeldByHas
  <1>9. kept \subseteq Pid \X Inode /\ \A h \in kept : h[2] \in fds[h[1]]
    BY <1>2 DEF Init
  <1> QED BY <1>6, <1>7, <1>8, <1>9 DEF MemoryInv

(* What Happens remembers. *)
LEMMA HappensMemory ==
  ASSUME KernelInv, MemoryInv, KernelInv', used' \subseteq Pid, Happens
  PROVE  MemoryInv' /\ held \subseteq held' /\ kept' \subseteq kept
  <1>1. /\ held' = held \cup HeldBy(proc', fds')
        /\ kept' = {h \in kept : h[2] \in fds'[h[1]]}
    BY DEF Happens
  <1>2. \A p \in Pid : fds'[p] # {} => proc'[p] = Who[p] /\ Who[p] \in Ident
    BY PidAssumption DEF KernelInv
  <1>3. fds' \in [Pid -> SUBSET Inode]
    BY DEF KernelInv
  <1>4. held' \subseteq Ident \X Inode
    <2>1. HeldBy(proc', fds') \subseteq Ident \X Inode
      BY <1>2, <1>3 DEF HeldBy
    <2> QED BY <1>1, <2>1 DEF MemoryInv
  <1>5. \A p \in Pid : \A i \in fds'[p] : <<Who[p], i>> \in held'
    BY <1>1, <1>2, HeldByHas
  <1>6. /\ kept' \subseteq Pid \X Inode /\ kept' \subseteq kept
        /\ \A h \in kept' : h[2] \in fds'[h[1]]
    BY <1>1 DEF MemoryInv
  <1> QED BY <1>1, <1>4, <1>5, <1>6 DEF MemoryInv

(* fork *)
LEMMA ForkKernel ==
  ASSUME KernelInv, MemoryInv, NEW p \in Pid, NEW q \in Pid, Fork(p, q)
  PROVE  KernelInv' /\ used' \subseteq Pid /\ used \subseteq used'
  <1>1. /\ Who[q] \in Ident /\ proc[q] = NoEnt /\ fds[q] = {} /\ p # q
        /\ tcp' = tcp /\ used' = used \cup {q}
    <2>1. proc[p] # NoEnt /\ q \notin used /\ tcp' = tcp /\ used' = used \cup {q}
      BY DEF Fork, Alive
    <2>2. proc[q] = NoEnt /\ fds[q] = {}
      BY <2>1 DEF KernelInv
    <2> QED BY <2>1, <2>2, PidAssumption
  <1>2. proc' \in [Pid -> Ident \cup {NoEnt}] /\ fds' \in [Pid -> SUBSET Inode]
    BY <1>1 DEF KernelInv, Fork
  <1>3. /\ \A r \in Pid \ {q} : proc'[r] = proc[r] /\ fds'[r] = fds[r]
        /\ proc'[q] = Who[q] /\ fds'[q] = fds[p]
    BY DEF KernelInv, Fork
  <1>4. ASSUME NEW r \in Pid
        PROVE  /\ proc'[r] \in {Who[r], NoEnt}
               /\ proc'[r] = NoEnt => fds'[r] = {}
               /\ r \notin used' => proc'[r] = NoEnt
    <2>1. CASE r = q
      BY <1>1, <1>3, <2>1, PidAssumption
    <2>2. CASE r # q
      BY <1>1, <1>3, <2>2 DEF KernelInv
    <2> QED BY <2>1, <2>2
  <1>5. \A i \in Inode : (\E r \in Pid : i \in fds'[r]) <=> (\E r \in Pid : i \in fds[r])
    BY <1>1, <1>3
  <1> QED BY <1>1, <1>2, <1>4, <1>5 DEF KernelInv, MemoryInv

(* What becomes of a socket that a process lets go. *)
LEMMA ReleasedState ==
  ASSUME KernelInv, NEW F \in [Pid -> SUBSET Inode], NEW i \in Inode,
         \A p \in Pid : F[p] \subseteq fds[p]
  PROVE  /\ Released(F, i) \in State
         /\ Released(F, i) \in InUse <=> \E p \in Pid : i \in F[p]
         /\ Released(F, i) # "closed" =>
              (Released(F, i) = "listen" <=> Sock[i].kind = "listener")
  <1>1. CASE \E p \in Pid : i \in F[p]
    BY <1>1 DEF KernelInv, Released, State, InUse
  <1>2. CASE ~\E p \in Pid : i \in F[p]
    BY <1>2 DEF KernelInv, Released, State, InUse
  <1> QED BY <1>1, <1>2

(* exit *)
LEMMA ExitKernel ==
  ASSUME KernelInv, MemoryInv, NEW p \in Pid, Exit(p)
  PROVE  KernelInv' /\ used' = used
  <1>1. proc' \in [Pid -> Ident \cup {NoEnt}] /\ fds' \in [Pid -> SUBSET Inode]
    BY DEF KernelInv, Exit
  <1>2. /\ \A r \in Pid \ {p} : proc'[r] = proc[r] /\ fds'[r] = fds[r]
        /\ proc'[p] = NoEnt /\ fds'[p] = {} /\ used' = used
    BY DEF KernelInv, Exit
  <1>3. \A r \in Pid : /\ proc'[r] \in {Who[r], NoEnt}
                       /\ proc'[r] = NoEnt => fds'[r] = {}
                       /\ r \notin used' => proc'[r] = NoEnt
    BY <1>2 DEF KernelInv
  <1>4. \A r \in Pid : fds'[r] \subseteq fds[r]
    BY <1>2
  <1>5. tcp' = [i \in Inode |-> Released(fds', i)]
    BY DEF Exit
  <1>6. tcp' \in [Inode -> State]
    BY <1>1, <1>4, <1>5, ReleasedState
  <1>7. \A i \in Inode :
          /\ tcp'[i] \in InUse <=> \E r \in Pid : i \in fds'[r]
          /\ tcp'[i] # "closed" => (tcp'[i] = "listen" <=> Sock[i].kind = "listener")
    BY <1>1, <1>4, <1>5, ReleasedState
  <1> QED BY <1>1, <1>2, <1>3, <1>6, <1>7 DEF KernelInv

(* socket, accept and connect *)
LEMMA OpenKernel ==
  ASSUME KernelInv, MemoryInv, NEW p \in Pid, NEW i \in Inode, Open(p, i)
  PROVE  KernelInv' /\ used' = used
  <1>1. /\ proc' = proc /\ used' = used /\ proc[p] # NoEnt
        /\ fds' \in [Pid -> SUBSET Inode] /\ tcp' \in [Inode -> State]
    BY BornState DEF KernelInv, Open, Alive, State, InUse
  <1>2. /\ \A r \in Pid \ {p} : fds'[r] = fds[r]
        /\ fds'[p] = fds[p] \cup {i}
        /\ \A j \in Inode \ {i} : tcp'[j] = tcp[j]
        /\ tcp'[i] = Born(i)
    BY DEF KernelInv, Open
  <1>3. \A r \in Pid : proc'[r] = NoEnt => fds'[r] = {}
    BY <1>1, <1>2 DEF KernelInv
  <1>4. ASSUME NEW j \in Inode
        PROVE  /\ tcp'[j] \in InUse <=> \E r \in Pid : j \in fds'[r]
               /\ tcp'[j] # "closed" => (tcp'[j] = "listen" <=> Sock[j].kind = "listener")
    <2>1. CASE j = i
      BY <1>2, <2>1, BornState DEF InUse
    <2>2. CASE j # i
      <3>1. (\E r \in Pid : j \in fds'[r]) <=> (\E r \in Pid : j \in fds[r])
        BY <1>2, <2>2
      <3> QED BY <1>2, <2>2, <3>1 DEF KernelInv
    <2> QED BY <2>1, <2>2
  <1> QED BY <1>1, <1>3, <1>4 DEF KernelInv

(* close *)
LEMMA CloseKernel ==
  ASSUME KernelInv, MemoryInv, NEW p \in Pid, NEW i \in Inode, Close(p, i)
  PROVE  KernelInv' /\ used' = used
  <1>1. proc' = proc /\ used' = used /\ fds' \in [Pid -> SUBSET Inode]
    BY DEF KernelInv, Close
  <1>2. /\ \A r \in Pid \ {p} : fds'[r] = fds[r]
        /\ fds'[p] = fds[p] \ {i}
        /\ \A j \in Inode \ {i} : tcp'[j] = tcp[j]
        /\ tcp'[i] = Released(fds', i)
    BY DEF KernelInv, Close
  <1>3. \A r \in Pid : fds'[r] \subseteq fds[r]
    BY <1>2
  <1>4. tcp' \in [Inode -> State]
    BY <1>1, <1>3, ReleasedState DEF KernelInv, Close
  <1>5. ASSUME NEW j \in Inode
        PROVE  /\ tcp'[j] \in InUse <=> \E r \in Pid : j \in fds'[r]
               /\ tcp'[j] # "closed" => (tcp'[j] = "listen" <=> Sock[j].kind = "listener")
    <2>1. CASE j = i
      BY <1>1, <1>2, <1>3, <2>1, ReleasedState
    <2>2. CASE j # i
      <3>1. (\E r \in Pid : j \in fds'[r]) <=> (\E r \in Pid : j \in fds[r])
        BY <1>2, <2>2
      <3> QED BY <1>2, <2>2, <3>1 DEF KernelInv
    <2> QED BY <2>1, <2>2
  <1>6. \A r \in Pid : proc'[r] = NoEnt => fds'[r] = {}
    BY <1>1, <1>3 DEF KernelInv
  <1> QED BY <1>1, <1>4, <1>5, <1>6 DEF KernelInv

(* the handshake *)
LEMMA EstablishedKernel ==
  ASSUME KernelInv, MemoryInv, NEW i \in Inode, Established(i)
  PROVE  KernelInv' /\ used' = used
  <1>1. UNCHANGED <<proc, fds, used>>
    BY DEF Established
  <1>2. tcp' \in [Inode -> State]
    BY DEF KernelInv, Established, State
  <1>3. tcp[i] = "syn_sent" /\ tcp'[i] = "established" /\ \A j \in Inode \ {i} : tcp'[j] = tcp[j]
    BY DEF KernelInv, Established
  <1> QED BY <1>1, <1>2, <1>3 DEF KernelInv, InUse

(* Whatever processes do, the scan forgets nothing that it relies on.      *)
LEMMA KernelStep ==
  ASSUME KernelInv, MemoryInv, Kernel
  PROVE  /\ KernelInv' /\ MemoryInv'
         /\ held \subseteq held' /\ kept' \subseteq kept /\ used \subseteq used'
         /\ pc \notin {"group", "done", "failed", "unread"}
         /\ UNCHANGED <<pc, walk, table>>
  <1>0. used \subseteq Pid
    BY DEF MemoryInv
  <1>1. KernelInv' /\ used' \subseteq Pid /\ used \subseteq used' /\ Happens
    <2>1. ASSUME NEW p \in Pid, NEW q \in Pid, Fork(p, q)
          PROVE  KernelInv' /\ used' \subseteq Pid /\ used \subseteq used' /\ Happens
      BY <2>1, ForkKernel DEF Fork
    <2>2. ASSUME NEW p \in Pid, Exit(p)
          PROVE  KernelInv' /\ used' \subseteq Pid /\ used \subseteq used' /\ Happens
      BY <1>0, <2>2, ExitKernel DEF Exit
    <2>3. ASSUME NEW p \in Pid, NEW i \in Inode, Open(p, i)
          PROVE  KernelInv' /\ used' \subseteq Pid /\ used \subseteq used' /\ Happens
      BY <1>0, <2>3, OpenKernel DEF Open
    <2>4. ASSUME NEW p \in Pid, NEW i \in Inode, Close(p, i)
          PROVE  KernelInv' /\ used' \subseteq Pid /\ used \subseteq used' /\ Happens
      BY <1>0, <2>4, CloseKernel DEF Close
    <2>5. ASSUME NEW i \in Inode, Established(i)
          PROVE  KernelInv' /\ used' \subseteq Pid /\ used \subseteq used' /\ Happens
      BY <1>0, <2>5, EstablishedKernel DEF Established
    <2> QED BY <2>1, <2>2, <2>3, <2>4, <2>5 DEF Kernel
  <1>2. MemoryInv' /\ held \subseteq held' /\ kept' \subseteq kept
    BY <1>1, HappensMemory
  <1>3. /\ pc \notin {"group", "done", "failed", "unread"}
        /\ UNCHANGED <<pc, walk, table>>
    BY <1>1 DEF Happens
  <1> QED BY <1>1, <1>2, <1>3

(* The steps of the scan leave the kernel alone. *)
LEMMA ScanKernel ==
  ASSUME KernelInv, MemoryInv, Walk \/ Build \/ UNCHANGED vars
  PROVE  UNCHANGED kernel /\ KernelInv' /\ MemoryInv'
  <1>1. CASE Walk
    <2>1. UNCHANGED kernel
      BY <1>1 DEF Walk, ReadRoot, NextPid, PidsEnd, StatFdDir, OpenFdDir, ReadFdDir,
                  ReadLink, FdsEnd, ParseProcStat, SetUserEnt
    <2> QED BY <2>1 DEF kernel, KernelInv, MemoryInv
  <1>2. CASE Build
    <2>1. UNCHANGED kernel
      BY <1>2 DEF Build, NetlinkConnections, NetlinkError, ProcfsConnections,
                  ProcfsError, Group, Return
    <2> QED BY <2>1 DEF kernel, KernelInv, MemoryInv
  <1>3. CASE UNCHANGED vars
    BY <1>3 DEF vars, kernel, KernelInv, MemoryInv
  <1> QED BY <1>1, <1>2, <1>3

-----------------------------------------------------------------------------
(* The walk through /proc *)

(* Every step of the walk finds what is, or was, so. *)
LEMMA WalkStep ==
  ASSUME KernelInv, MemoryInv, WalkInv, Walk
  PROVE  WalkInv'
  <1>0. Self \in Pid /\ Who \in [Pid -> Ident] /\ NoEnt \notin Ident
    BY PidAssumption
  <1>1. CASE ReadRoot
    <2>1. todo' \subseteq Pid
      BY <1>1 DEF ReadRoot, Listings, Live, WalkInv
    <2> QED BY <1>1, <2>1 DEF ReadRoot, kernel, WalkInv, Places, Alive
  <1>2. ASSUME NEW p \in Pid, NextPid(p) PROVE WalkInv'
    BY <1>2 DEF NextPid, kernel, WalkInv, Places
  <1>3. CASE PidsEnd
    BY <1>0, <1>3 DEF PidsEnd, kernel, WalkInv, Places
  <1>4. CASE StatFdDir
    BY <1>4 DEF StatFdDir, kernel, walk, WalkInv, Places, Alive
  <1>5. CASE OpenFdDir
    BY <1>5 DEF OpenFdDir, kernel, walk, WalkInv, Places, Alive
  <1>6. CASE ReadFdDir
    <2>1. fdTodo' \subseteq Inode
      BY <1>6 DEF ReadFdDir, Listings, KernelInv, WalkInv
    <2> QED BY <1>6, <2>1 DEF ReadFdDir, kernel, WalkInv, Places, Alive
  <1>7. ASSUME NEW i \in Inode, ReadLink(i) PROVE WalkInv'
    <2>1. i \in fds[pid] => <<Who[pid], i>> \in held
      BY DEF MemoryInv, WalkInv
    <2> QED BY <1>7, <2>1 DEF ReadLink, kernel, WalkInv, Places
  <1>8. CASE FdsEnd
    BY <1>8 DEF FdsEnd, kernel, WalkInv, Places
  <1>9. CASE ParseProcStat
    <2>1. Alive(pid) => proc[pid] = Who[pid]
      BY DEF KernelInv, WalkInv, Alive
    <2> QED BY <1>9, <2>1 DEF ParseProcStat, kernel, WalkInv, Places
  <1>10. CASE SetUserEnt
    <2>1. stat = Who[pid] /\ stat \in Ident /\ fd \in Inode /\ <<stat, fd>> \in held
      BY <1>0, <1>10 DEF SetUserEnt, WalkInv
    <2>2. /\ userEnts' \in [Inode -> Ident \cup {NoEnt}] /\ userEnts'[fd] = stat
          /\ \A i \in Inode \ {fd} : userEnts'[i] = userEnts[i]
      BY <1>10, <2>1 DEF SetUserEnt, WalkInv
    <2>3. \A i \in Inode : userEnts'[i] # NoEnt => <<userEnts'[i], i>> \in held
      BY <2>1, <2>2 DEF WalkInv
    <2> QED BY <1>10, <2>2, <2>3 DEF SetUserEnt, kernel, WalkInv, Places
  <1> QED BY <1>1, <1>2, <1>3, <1>4, <1>5, <1>6, <1>7, <1>8, <1>9, <1>10 DEF Walk

(* The walk is over, and what it found is kept. *)
LEMMA WalkElse ==
  ASSUME KernelInv, MemoryInv, WalkInv, Kernel \/ Build \/ UNCHANGED vars
  PROVE  WalkInv'
  <1>1. CASE Kernel
    <2>1. held \subseteq held' /\ pc # "failed" /\ UNCHANGED <<pc, walk>>
      BY <1>1, KernelStep
    <2> QED BY <2>1 DEF WalkInv, walk
  <1>2. CASE Build
    <2>1. UNCHANGED <<proc, held, walk>>
      BY <1>2 DEF Build, NetlinkConnections, NetlinkError, ProcfsConnections, ProcfsError,
                  Group, Return, kernel
    <2>2. pc' \in Places \ {"ent", "failed"}
      BY <1>2 DEF Build, NetlinkConnections, NetlinkError, ProcfsConnections, ProcfsError,
                  Group, Return, Places
    <2> QED BY <2>1, <2>2 DEF WalkInv, walk
  <1>3. CASE UNCHANGED vars
    BY <1>3 DEF vars, kernel, walk, WalkInv, Alive
  <1> QED BY <1>1, <1>2, <1>3

-----------------------------------------------------------------------------
(* The socket table *)

(* The values of a function on a finite set are finitely many. *)
LEMMA FiniteImage ==
  ASSUME NEW S, IsFiniteSet(S), NEW f, f = [x \in S |-> f[x]]
  PROVE  IsFiniteSet({f[x] : x \in S})
  <1> DEFINE T == {f[x] : x \in S}
  <1>1. f \in [S -> T]
    OBVIOUS
  <1>2. \A t \in T : \E x \in S : f[x] = t
    OBVIOUS
  <1> HIDE DEF T
  <1>3. f \in Surjection(S, T)
    BY <1>1, <1>2 DEF Surjection
  <1>4. IsFiniteSet(T)
    BY <1>3, FS_Surjection
  <1> QED BY <1>4 DEF T

(* What both ways to read the table say of a socket that they list. *)
Listed(c) ==
  c \in Dump /\ c.state = tcp[c.sock] /\ c.inode \in {NoEnt, c.sock}

(* The table that netlink dumps. *)
LEMMA DumpedTable ==
  ASSUME KernelInv
  PROVE  /\ IsFiniteSet(Dumped)
         /\ \A c \in Dumped : Listed(c) /\ (c.state = "listen" => c.inode = c.sock)
  <1> DEFINE S == {j \in Inode : tcp[j] # "closed"}
             f == [i \in S |-> [sock |-> i, state |-> tcp[i], laddr |-> Sock[i].laddr,
                                raddr |-> Sock[i].raddr,
                                inode |-> IF tcp[i] = "time_wait" THEN NoEnt ELSE i]]
  <1>1. IsFiniteSet(S)
    BY SockAssumption, FS_Subset
  <1>2. Dumped = {f[i] : i \in S}
    BY DEF Dumped
  <1>3. IsFiniteSet({f[i] : i \in S})
    <2>1. f = [i \in S |-> f[i]]
      OBVIOUS
    <2> HIDE DEF f, S
    <2> QED BY <1>1, <2>1, FiniteImage
  <1>4. ASSUME NEW i \in S
        PROVE  Listed(f[i]) /\ (f[i].state = "listen" => f[i].inode = f[i].sock)
    <2>1. /\ i \in Inode /\ tcp[i] \in State \ {"closed"}
          /\ Sock[i].laddr \in Seq(Nat) /\ Sock[i].raddr \in Seq(Nat)
      BY SockAssumption DEF KernelInv
    <2>2. f[i] = [sock |-> i, state |-> tcp[i], laddr |-> Sock[i].laddr,
                  raddr |-> Sock[i].raddr,
                  inode |-> IF tcp[i] = "time_wait" THEN NoEnt ELSE i]
      OBVIOUS
    <2> HIDE DEF f
    <2> QED BY <2>1, <2>2 DEF Listed, Dump
  <1> HIDE DEF S, f
  <1> QED BY <1>2, <1>3, <1>4

(* A decoded address is an address, if not always the one of the socket. *)
LEMMA DecodedAddress ==
  ASSUME NEW a \in Seq(Nat), NEW order
  PROVE  decodeAddress(PrintedAddress(a, order)) \in Seq(Nat)
  <1>1. ASSUME NEW s \in Seq(Nat) PROVE Reverse(s) \in Seq(Nat)
    BY <1>1 DEF Reverse
  <1>2. PrintedAddress(a, order) \in Seq(Nat)
    BY <1>1 DEF PrintedAddress
  <1> QED BY <1>1, <1>2 DEF decodeAddress

(* A socket as /proc/net/tcp lists it. *)
Printed(c, order) == [c EXCEPT !.inode = NoEnt,
                               !.laddr = decodeAddress(PrintedAddress(@, order)),
                               !.raddr = decodeAddress(PrintedAddress(@, order))]

(* The table that /proc/net/tcp lists. *)
LEMMA PrintedTable ==
  ASSUME KernelInv, NEW order
  PROVE  LET D == {d \in Dumped : Sock[d.sock].family = "v4"}
         IN  /\ IsFiniteSet({Printed(c, order) : c \in D})
             /\ \A c \in D : Listed(Printed(c, order))
  <1> DEFINE D == {d \in Dumped : Sock[d.sock].family = "v4"}
             f == [c \in D |-> Printed(c, order)]
  <1>1. IsFiniteSet(D)
    BY DumpedTable, FS_Subset
  <1>2. IsFiniteSet({f[c] : c \in D})
    BY <1>1, FiniteImage
  <1>3. {f[c] : c \in D} = {Printed(c, order) : c \in D}
    OBVIOUS
  <1>4. ASSUME NEW c \in D PROVE Listed(Printed(c, order))
    <2>1. c \in Dump /\ Listed(c)
      BY DumpedTable DEF Listed
    <2> DEFINE l == decodeAddress(PrintedAddress(c.laddr, order))
               m == decodeAddress(PrintedAddress(c.raddr, order))
    <2>2. l \in Seq(Nat) /\ m \in Seq(Nat)
      BY <2>1, DecodedAddress DEF Dump
    <2>3. Printed(c, order) = [c EXCEPT !.inode = NoEnt, !.laddr = l, !.raddr = m]
      BY DEF Printed
    <2> HIDE DEF l, m
    <2>4. /\ Printed(c, order) \in Dump /\ Printed(c, order).inode = NoEnt
          /\ Printed(c, order).sock = c.sock /\ Printed(c, order).state = c.state
      BY <2>1, <2>2, <2>3 DEF Dump
    <2> QED BY <2>1, <2>4 DEF Listed
  <1> QED BY <1>2, <1>3, <1>4

(* Every step keeps the table what the kernel had. *)
LEMMA TableStep ==
  ASSUME KernelInv, MemoryInv, WalkInv, TableInv, [Next]_vars
  PROVE  TableInv'
  <1>1. CASE Kernel
    <2>1. /\ held \subseteq held' /\ pc \notin {"group", "done"}
          /\ UNCHANGED <<pc, conns, left, lportEnt, flows>>
      BY <1>1, KernelStep DEF table
    <2>2. conns = {} /\ flows = {}
      BY <2>1 DEF TableInv
    <2> QED BY <2>1, <2>2 DEF TableInv
  <1>2. CASE Walk
    <2>1. UNCHANGED <<tcp, held, conns, left, lportEnt, flows>>
      BY <1>2 DEF Walk, ReadRoot, NextPid, PidsEnd, StatFdDir, OpenFdDir, ReadFdDir,
                  ReadLink, FdsEnd, ParseProcStat, SetUserEnt, kernel, table
    <2>2. pc \notin {"group", "done"} /\ pc' \notin {"group", "done"}
      BY <1>2 DEF Walk, ReadRoot, NextPid, PidsEnd, StatFdDir, OpenFdDir, ReadFdDir,
                  ReadLink, FdsEnd, ParseProcStat, SetUserEnt
    <2> QED BY <2>1, <2>2 DEF TableInv
  <1>3. CASE NetlinkConnections
    <2>1. /\ conns' = Dumped /\ left' = Dumped /\ UNCHANGED <<tcp, held, flows>>
          /\ lportEnt' \in LportEnts(Dumped) /\ pc' = "group" /\ flows = {}
      BY <1>3 DEF NetlinkConnections, kernel, TableInv
    <2>2. lportEnt' \in [Port -> Ident \cup {NoEnt}]
      BY <2>1 DEF LportEnts
    <2>3. ASSUME NEW n \in Port, lportEnt'[n] # NoEnt
          PROVE  \E i \in Inode : /\ <<lportEnt'[n], i>> \in held
                                  /\ Sock[i].kind = "listener" /\ Sock[i].lport = n
      <3>1. PICK c \in Listening(Dumped) :
              Sock[c.sock].lport = n /\ lportEnt'[n] = userEnts[c.inode]
        BY <2>1, <2>3 DEF LportEnts
      <3>2. c \in Dumped /\ c.state = "listen"
        BY <3>1 DEF Listening
      <3>3. c.sock \in Inode /\ tcp[c.sock] = "listen" /\ c.inode = c.sock
        BY <3>2, DumpedTable DEF Listed, Dump
      <3>4. Sock[c.sock].kind = "listener"
        BY <3>3 DEF KernelInv
      <3> QED BY <2>3, <3>1, <3>3, <3>4 DEF WalkInv
    <2> QED BY <2>1, <2>2, <2>3, DumpedTable DEF TableInv, Listed
  <1>4. CASE NetlinkError \/ ProcfsError
    BY <1>4 DEF NetlinkError, ProcfsError, kernel, table, TableInv
  <1>5. CASE ProcfsConnections
    <2>1. PICK order \in {"little", "big"} :
            conns' = {Printed(c, order) :
                        c \in {d \in Dumped : Sock[d.sock].family = "v4"}}
      BY <1>5 DEF ProcfsConnections, Printed
    <2>2. /\ left' = conns' /\ UNCHANGED <<tcp, held, flows>>
          /\ lportEnt' = [n \in Port |-> NoEnt] /\ pc' = "group"
      BY <1>5 DEF ProcfsConnections, kernel
    <2>3. IsFiniteSet(conns') /\ \A c \in conns' : Listed(c)
      BY <2>1, PrintedTable
    <2> QED BY <2>2, <2>3 DEF TableInv, Listed
  <1>6. ASSUME NEW c \in left, Group(c) PROVE TableInv'
    BY <1>6 DEF Group, kernel, TableInv
  <1>7. CASE Return
    BY <1>7 DEF Return, kernel, table, TableInv
  <1>8. CASE UNCHANGED vars
    BY <1>8 DEF vars, kernel, table, TableInv
  <1> QED BY <1>1, <1>2, <1>3, <1>4, <1>5, <1>6, <1>7, <1>8 DEF Next, Build

-----------------------------------------------------------------------------
(* The host flows *)

(* The process of a connection has had it, or listened on its port. *)
LEMMA EntHad ==
  ASSUME WalkInv, TableInv, NEW c \in conns
  PROVE  /\ Ent(c) \in Ident \cup {NoEnt}
         /\ Ent(c) # NoEnt => Had(Ent(c), c)
  <1>1. c.sock \in Inode /\ c.inode \in {NoEnt, c.sock} /\ Sock[c.sock].lport \in Port
    BY DEF TableInv, Dump, Port
  <1>2. CASE c.inode # NoEnt /\ userEnts[c.inode] # NoEnt
    <2>1. Ent(c) = userEnts[c.sock]
      BY <1>1, <1>2 DEF Ent
    <2> QED BY <1>1, <1>2, <2>1 DEF WalkInv, Had
  <1>3. CASE ~(c.inode # NoEnt /\ userEnts[c.inode] # NoEnt) /\ Direction(c) = "passive"
    <2>1. Ent(c) = lportEnt[Sock[c.sock].lport]
      BY <1>3 DEF Ent
    <2>2. PICK n \in Port : n = Sock[c.sock].lport
      BY <1>1
    <2>3. lportEnt[n] \in Ident \cup {NoEnt}
      BY DEF TableInv
    <2>4. lportEnt[n] # NoEnt =>
            \E i \in Inode : /\ <<lportEnt[n], i>> \in held
                             /\ Sock[i].kind = "listener" /\ Sock[i].lport = n
      BY DEF TableInv
    <2> QED BY <2>1, <2>2, <2>3, <2>4 DEF Had
  <1>4. CASE ~(c.inode # NoEnt /\ userEnts[c.inode] # NoEnt) /\ Direction(c) # "passive"
    BY <1>4 DEF Ent
  <1> QED BY <1>2, <1>3, <1>4

(* What is said of a connection stays once the table is read. *)
LEMMA ConnFrame ==
  ASSUME UNCHANGED <<conns, userEnts, lportEnt, held>>, NEW c
  PROVE  /\ UniqKey(c)' = UniqKey(c) /\ Ent(c)' = Ent(c)
         /\ \A d : Had(d, c)' = Had(d, c)
  <1>1. Direction(c)' = Direction(c)
    BY DEF Direction, Listening
  <1> QED BY <1>1 DEF UniqKey, Ent, Had

(* A step that groups nothing keeps the flows. *)
LEMMA FlowFrame ==
  ASSUME FlowInv, UNCHANGED <<conns, userEnts, lportEnt, held, flows>>, Seen' = Seen
  PROVE  FlowInv'
  <1>1. \A k : OfKey(k)' = OfKey(k)
    BY ConnFrame DEF OfKey
  <1>2. {UniqKey(c) : c \in Seen}' = {UniqKey(c) : c \in Seen}
    BY ConnFrame
  <1>3. \A g : FlowOK(g) => FlowOK(g)'
    BY <1>1, <1>2, ConnFrame DEF FlowOK
  <1> QED BY <1>3, ConnFrame DEF FlowInv

(* Without flows nothing is to be shown. *)
LEMMA NoFlows ==
  ASSUME flows' = {}, conns' = left' \/ conns' = {}
  PROVE  FlowInv'
  BY DEF FlowInv, Seen

(* A connection is counted in the flow of its key, which it makes if there *)
(* is none.                                                                *)
LEMMA GroupFlow ==
  ASSUME WalkInv, TableInv, FlowInv, NEW c \in left, Group(c)
  PROVE  FlowInv'
  <1>a. PICK k : k = UniqKey(c)
    OBVIOUS
  <1>b. PICK h : h = NewFlow(c)
    OBVIOUS
  <1>0. /\ UNCHANGED <<conns, userEnts, lportEnt, held>> /\ left' = left \ {c}
        /\ c \in conns /\ IsFiniteSet(conns)
    BY DEF Group, kernel, walk, TableInv
  <1>1. CASE ~IsFlow(c)
    <2>1. Seen' = Seen /\ flows' = flows
      BY <1>0, <1>1 DEF Seen, Group
    <2> QED BY <1>0, <2>1, FlowFrame
  <1>2. CASE IsFlow(c)
    <2>1. /\ Seen' = Seen \cup {c} /\ c \notin Seen /\ flows' = Inserted(flows, h)
          /\ IsFiniteSet(Seen)
      BY <1>0, <1>2, <1>b, FS_Subset DEF Seen, Group
    <2>2. /\ OfKey(k)' = OfKey(k) \cup {c} /\ c \notin OfKey(k) /\ IsFiniteSet(OfKey(k))
          /\ \A j : j # k => OfKey(j)' = OfKey(j)
          /\ {UniqKey(d) : d \in Seen}' = {UniqKey(d) : d \in Seen} \cup {k}
      BY <1>0, <1>a, <2>1, ConnFrame, FS_Subset DEF OfKey
    <2>3. /\ Cardinality(OfKey(k)') = Cardinality(OfKey(k)) + 1
          /\ Cardinality(OfKey(k)) \in Nat
      BY <2>2, FS_AddElement, FS_CardinalityType
    <2>4. /\ Ent(c) \in Ident \cup {NoEnt} /\ (Ent(c) # NoEnt => Had(Ent(c), c))
          /\ h = [key |-> k, process |-> Ent(c), connections |-> 1]
      BY <1>0, <1>a, <1>b, EntHad DEF NewFlow
    <2>5. \A d : /\ UniqKey(d)' = UniqKey(d) /\ Ent(d)' = Ent(d)
                 /\ \A e : Had(e, d)' = Had(e, d)
      BY <1>0, ConnFrame
    <2>6. ASSUME NEW g \in flows, g.key # k PROVE FlowOK(g)'
      BY <2>2, <2>5, <2>6 DEF FlowInv, FlowOK
    <2>7. CASE \A g \in flows : g.key # k
      <3>1. flows' = flows \cup {h}
        BY <2>1, <2>4, <2>7 DEF Inserted
      <3>2. OfKey(k) = {}
        BY <2>7 DEF FlowInv, OfKey
      <3>3. Cardinality(OfKey(k)) = 0
        BY <3>2, FS_EmptySet
      <3>4. FlowOK(h)'
        <4>1. h \in [key : {UniqKey(d) : d \in Seen}', process : Ident \cup {NoEnt},
                     connections : Nat]
          BY <2>2, <2>4
        <4>2. h.key = k /\ h.process = Ent(c) /\ h.connections = 1
          BY <2>4
        <4>3. OfKey(k)' = {c} /\ h.connections = Cardinality(OfKey(k)')
          BY <2>2, <2>3, <3>2, <3>3, <4>2
        <4>4. h.process # NoEnt => \E d \in OfKey(k)' : Had(h.process, d)
          BY <2>4, <4>2, <4>3
        <4>5. \A d \in OfKey(k)' : Ent(d) # NoEnt => h.process # NoEnt
          BY <4>2, <4>3
        <4> QED BY <2>5, <4>1, <4>2, <4>3, <4>4, <4>5 DEF FlowOK
      <3>5. \A g \in flows' : FlowOK(g)'
        BY <2>6, <2>7, <3>1, <3>4
      <3>6. \A d \in Seen' : \E g \in flows' : g.key = UniqKey(d)'
        BY <1>a, <2>1, <2>4, <2>5, <3>1 DEF FlowInv
      <3>7. \A f, g \in flows' : f.key = g.key => f = g
        BY <2>4, <2>7, <3>1 DEF FlowInv
      <3> QED BY <3>5, <3>6, <3>7 DEF FlowInv
    <2>8. ASSUME NEW g \in flows, g.key = k PROVE FlowInv'
      <3>0. PICK m : m = Merged(g, h)
        OBVIOUS
      <3>1. {f \in flows : f.key = k} = {g}
        BY <2>8 DEF FlowInv
      <3>2. flows' = (flows \ {g}) \cup {m}
        <4>1. {f \in flows : f.key = h.key} = {g}
          BY <2>4, <3>1
        <4> QED BY <2>1, <3>0, <4>1 DEF Inserted
      <3>3. /\ FlowOK(g) /\ g \in [key : {UniqKey(d) : d \in Seen},
                                   process : Ident \cup {NoEnt}, connections : Nat]
            /\ h.process = Ent(c)
        BY <2>4 DEF FlowInv, FlowOK
      <3>4. /\ m.key = k /\ m.connections = g.connections + 1
            /\ m.process = IF g.process = NoEnt THEN Ent(c) ELSE g.process
            /\ m \in [key : {UniqKey(d) : d \in Seen}, process : Ident \cup {NoEnt},
                      connections : Nat]
        <4>1. m = [g EXCEPT !.connections = g.connections + 1,
                            !.process = IF g.process = NoEnt THEN Ent(c) ELSE g.process]
          BY <3>0, <3>3 DEF Merged
        <4>2. m.key = k
          BY <2>8, <3>3, <4>1
        <4>3. m.connections = g.connections + 1
          BY <3>3, <4>1
        <4>4. m.process = IF g.process = NoEnt THEN Ent(c) ELSE g.process
          BY <3>3, <4>1
        <4>5. m \in [key : {UniqKey(d) : d \in Seen}, process : Ident \cup {NoEnt},
                     connections : Nat]
          <5>1. /\ g.connections + 1 \in Nat
                /\ (IF g.process = NoEnt THEN Ent(c) ELSE g.process) \in Ident \cup {NoEnt}
            BY <2>4, <3>3
          <5> QED BY <3>3, <4>1, <5>1
        <4> QED BY <4>2, <4>3, <4>4, <4>5
      <3>5. FlowOK(m)'
        <4>1. m \in [key : {UniqKey(d) : d \in Seen}', process : Ident \cup {NoEnt},
                     connections : Nat]
          BY <2>2, <3>4
        <4>2. m.connections = Cardinality(OfKey(k)')
          BY <2>3, <2>8, <3>3, <3>4 DEF FlowOK
        <4>3. m.process # NoEnt => \E d \in OfKey(k)' : Had(m.process, d)
          BY <2>2, <2>4, <2>8, <3>3, <3>4 DEF FlowOK
        <4>4. \A d \in OfKey(k)' : Ent(d) # NoEnt => m.process # NoEnt
          BY <2>2, <2>8, <3>3, <3>4 DEF FlowOK
        <4> QED BY <2>5, <3>4, <4>1, <4>2, <4>3, <4>4 DEF FlowOK
      <3>6. \A f \in flows' : FlowOK(f)'
        BY <2>6, <3>1, <3>2, <3>5
      <3>7. \A d \in Seen' : \E f \in flows' : f.key = UniqKey(d)'
        <4>1. \A d \in Seen' : \E f \in flows : f.key = UniqKey(d)
          BY <1>a, <2>1, <2>8 DEF FlowInv
        <4> QED BY <2>5, <2>8, <3>2, <3>4, <4>1
      <3>8. \A e, f \in flows' : e.key = f.key => e = f
        BY <3>1, <3>2, <3>4 DEF FlowInv
      <3> QED BY <3>6, <3>7, <3>8 DEF FlowInv
    <2> QED BY <2>7, <2>8
  <1> QED BY <1>1, <1>2

(* Every step keeps the flows those of the connections seen so far. *)
LEMMA FlowStep ==
  ASSUME KernelInv, MemoryInv, WalkInv, TableInv, FlowInv, [Next]_vars
  PROVE  FlowInv'
  <1>1. CASE Kernel \/ Walk \/ NetlinkError \/ ProcfsError
    <2>1. UNCHANGED <<conns, left, flows>> /\ pc \notin {"group", "done"}
      <3>1. CASE Kernel
        BY <3>1, KernelStep DEF table
      <3>2. CASE Walk
        BY <3>2 DEF Walk, ReadRoot, NextPid, PidsEnd, StatFdDir, OpenFdDir, ReadFdDir,
                    ReadLink, FdsEnd, ParseProcStat, SetUserEnt, table
      <3>3. CASE NetlinkError \/ ProcfsError
        BY <3>3 DEF NetlinkError, ProcfsError, table
      <3> QED BY <1>1, <3>1, <3>2, <3>3
    <2> QED BY <2>1, NoFlows DEF TableInv
  <1>2. CASE NetlinkConnections \/ ProcfsConnections
    <2>1. flows' = {} /\ conns' = left'
      BY <1>2 DEF NetlinkConnections, ProcfsConnections, TableInv
    <2> QED BY <2>1, NoFlows
  <1>3. ASSUME NEW c \in left, Group(c) PROVE FlowInv'
    BY <1>3, GroupFlow
  <1>4. CASE Return \/ UNCHANGED vars
    <2>1. UNCHANGED <<conns, left, userEnts, lportEnt, held, flows>>
      BY <1>4 DEF Return, vars, kernel, walk, table
    <2>2. Seen' = Seen
      BY <2>1 DEF Seen
    <2> QED BY <2>1, <2>2, FlowFrame
  <1> QED BY <1>1, <1>2, <1>3, <1>4 DEF Next, Build

-----------------------------------------------------------------------------
(* Processes that keep their sockets *)

(* A directory that fits the buffer is listed in full. *)
LEMMA FullListing ==
  ASSUME NEW S, NEW T, IsFiniteSet(T), S \subseteq T, Cardinality(T) <= DirCap,
         NEW L \in Listings(S)
  PROVE  L = S
  <1>1. IsFiniteSet(S) /\ Cardinality(S) <= Cardinality(T)
    BY FS_Subset
  <1>2. Cardinality(S) \in Nat /\ Cardinality(T) \in Nat /\ DirCap \in Nat
    BY <1>1, FS_CardinalityType, PidAssumption
  <1>3. L \in SUBSET S /\ Cardinality(L) = Cardinality(S)
    BY <1>1, <1>2 DEF Listings
  <1> QED BY <1>1, <1>3, FS_Subset

(* The sockets that a process may have had are finitely many. *)
LEMMA HeldFinite ==
  ASSUME NEW p
  PROVE  IsFiniteSet({i \in Inode : <<Who[p], i>> \in held})
  BY SockAssumption, FS_Subset

(* If the directories fit in the end they have always done. *)
LEMMA DirsFitBefore ==
  ASSUME MemoryInv, MemoryInv', used \subseteq used', held \subseteq held', DirsFit'
  PROVE  DirsFit
  <1>0. DirCap \in Nat /\ IsFiniteSet(used) /\ IsFiniteSet(used')
    BY PidAssumption, FS_Subset DEF MemoryInv
  <1>1. Cardinality(used) <= DirCap
    <2>1. Cardinality(used) <= Cardinality(used') /\ Cardinality(used') <= DirCap
      BY <1>0, FS_Subset DEF DirsFit
    <2>2. Cardinality(used) \in Nat /\ Cardinality(used') \in Nat
      BY <1>0, FS_CardinalityType
    <2> QED BY <1>0, <2>1, <2>2
  <1>2. ASSUME NEW p \in Pid
        PROVE  Cardinality({i \in Inode : <<Who[p], i>> \in held}) <= DirCap
    <2> DEFINE A == {i \in Inode : <<Who[p], i>> \in held}
               B == {i \in Inode : <<Who[p], i>> \in held'}
    <2>1. IsFiniteSet(A) /\ IsFiniteSet(B)
      BY SockAssumption, FS_Subset
    <2>2. A \subseteq B /\ Cardinality(B) <= DirCap
      BY DEF DirsFit
    <2> HIDE DEF A, B
    <2>3. Cardinality(A) <= Cardinality(B)
      BY <2>1, <2>2, FS_Subset
    <2>4. Cardinality(A) \in Nat /\ Cardinality(B) \in Nat
      BY <2>1, FS_CardinalityType
    <2>5. Cardinality(A) <= DirCap
      BY <1>0, <2>2, <2>3, <2>4
    <2> QED BY <2>5 DEF A
  <1> QED BY <1>1, <1>2 DEF DirsFit

(* Every step of the walk brings such a socket closer to its process. *)
LEMMA LinkWalk ==
  ASSUME KernelInv, MemoryInv, WalkInv, LinkInv, DirsFit, Walk,
         NEW h \in kept, Linked(h)
  PROVE  Linked(h)'
  <1> SUFFICES ASSUME h[1] # Self, Who[h[1]] \notin Denied, Linked(h)
               PROVE  Linked(h)'
    BY DEF Linked
  <1>0. /\ h[1] \in Pid /\ h[2] \in Inode /\ h[2] \in fds[h[1]]
        /\ proc[h[1]] = Who[h[1]] /\ proc[h[1]] # NoEnt /\ h[1] \in used
    <2>1. h[1] \in Pid /\ h[2] \in Inode /\ h[2] \in fds[h[1]]
      BY DEF MemoryInv
    <2> QED BY <2>1 DEF KernelInv
  <1>1. CASE ReadRoot
    <2>1. Live \subseteq used /\ IsFiniteSet(used) /\ Cardinality(used) <= DirCap
      BY PidAssumption, FS_Subset DEF MemoryInv, KernelInv, Live, Alive, DirsFit
    <2>2. todo' = Live \/ pc' = "failed"
      BY <1>1, <2>1, FullListing DEF ReadRoot
    <2> QED BY <1>0, <2>2 DEF Live, Alive, Linked
  <1>2. ASSUME NEW p \in Pid, NextPid(p) PROVE Linked(h)'
    BY <1>2 DEF NextPid, Linked
  <1>3. CASE PidsEnd
    BY <1>3 DEF PidsEnd, Linked
  <1>4. CASE StatFdDir
    BY <1>4 DEF StatFdDir, walk, Linked
  <1>5. CASE OpenFdDir
    BY <1>0, <1>5 DEF OpenFdDir, walk, Linked
  <1>6. CASE ReadFdDir
    <2>1. CASE pc' = "failed"
      BY <2>1 DEF Linked
    <2>2. CASE pc' # "failed"
      <3> DEFINE T == {i \in Inode : <<Who[pid], i>> \in held}
      <3>1. fds[pid] \subseteq T /\ Cardinality(T) <= DirCap
        BY DEF MemoryInv, WalkInv, KernelInv, DirsFit
      <3>2. IsFiniteSet(T)
        BY HeldFinite
      <3> HIDE DEF T
      <3>3. fdTodo' = fds[pid] /\ pc' = "fds" /\ UNCHANGED <<todo, pid, userEnts>>
        BY <1>6, <2>2, <3>1, <3>2, FullListing DEF ReadFdDir
      <3> QED BY <1>0, <1>6, <3>3 DEF ReadFdDir, Linked
    <2> QED BY <2>1, <2>2
  <1>7. ASSUME NEW i \in Inode, ReadLink(i) PROVE Linked(h)'
    BY <1>0, <1>7 DEF ReadLink, Linked
  <1>8. CASE FdsEnd
    BY <1>8 DEF FdsEnd, Linked
  <1>9. CASE ParseProcStat
    BY <1>9 DEF ParseProcStat, Linked
  <1>10. CASE SetUserEnt
    <2>1. stat # NoEnt /\ fd \in Inode /\ userEnts' = [userEnts EXCEPT ![fd] = stat]
          /\ pc = "ent" /\ pc' = "fds" /\ UNCHANGED <<todo, pid, fdTodo, fd>>
      BY <1>10 DEF SetUserEnt, WalkInv
    <2>2. userEnts'[fd] # NoEnt /\ \A i \in Inode \ {fd} : userEnts'[i] = userEnts[i]
      BY <2>1 DEF WalkInv
    <2> QED BY <1>0, <2>1, <2>2 DEF Linked
  <1> QED BY <1>1, <1>2, <1>3, <1>4, <1>5, <1>6, <1>7, <1>8, <1>9, <1>10 DEF Walk

(* Every step leaves such a socket on its way. *)
LEMMA LinkStep ==
  ASSUME KernelInv, MemoryInv, WalkInv, LinkInv, [Next]_vars
  PROVE  LinkInv'
  <1>1. CASE Kernel
    <2>1. /\ MemoryInv' /\ held \subseteq held' /\ kept' \subseteq kept
          /\ used \subseteq used' /\ UNCHANGED <<pc, todo, pid, fdTodo, fd, userEnts>>
      BY <1>1, KernelStep DEF walk
    <2>2. DirsFit' => DirsFit
      BY <2>1, DirsFitBefore
    <2>3. \A h : Linked(h)' = Linked(h)
      BY <2>1 DEF Linked
    <2> QED BY <2>1, <2>2, <2>3 DEF LinkInv
  <1>2. ASSUME Walk \/ Build \/ UNCHANGED vars
        PROVE  kept' = kept /\ DirsFit' = DirsFit
    <2>1. UNCHANGED <<kept, used, held>>
      BY <1>2, ScanKernel DEF kernel
    <2> QED BY <2>1 DEF DirsFit
  <1>3. CASE Walk
    <2>1. pc' \in {"dump", "procfs", "group", "done"} => todo' = {}
      BY <1>3 DEF Walk, ReadRoot, NextPid, PidsEnd, StatFdDir, OpenFdDir, ReadFdDir,
                  ReadLink, FdsEnd, ParseProcStat, SetUserEnt, walk
    <2> QED BY <1>2, <1>3, <2>1, LinkWalk DEF LinkInv
  <1>4. CASE Build
    <2>1. /\ UNCHANGED <<todo, pid, fdTodo, fd, userEnts>>
          /\ pc \in {"dump", "procfs", "group", "done"}
      BY <1>4 DEF Build, NetlinkConnections, NetlinkError, ProcfsConnections, ProcfsError,
                  Group, Return, walk
    <2>2. \A h : Linked(h) => Linked(h)'
      BY <2>1 DEF LinkInv, Linked
    <2> QED BY <1>2, <1>4, <2>1, <2>2 DEF LinkInv
  <1>5. CASE UNCHANGED vars
    <2>1. UNCHANGED <<pc, todo, pid, fdTodo, fd, userEnts>>
      BY <1>5 DEF vars, walk
    <2>2. \A h : Linked(h)' = Linked(h)
      BY <2>1 DEF Linked
    <2> QED BY <1>2, <1>5, <2>1, <2>2 DEF LinkInv
  <1> QED BY <1>1, <1>3, <1>4, <1>5 DEF Next

-----------------------------------------------------------------------------
(* Theorems *)

ScanInv == KernelInv /\ MemoryInv /\ WalkInv /\ TableInv /\ FlowInv /\ LinkInv

(* The scan starts with nothing found. *)
LEMMA InitScan == Init => ScanInv
  <1> SUFFICES ASSUME Init PROVE ScanInv
    OBVIOUS
  <1>1. KernelInv /\ MemoryInv
    BY InitKernel
  <1>2. WalkInv
    BY PidAssumption DEF Init, WalkInv, Places
  <1>3. TableInv
    BY FS_EmptySet DEF Init, TableInv
  <1>4. FlowInv
    BY DEF Init, FlowInv, Seen
  <1>5. LinkInv
    BY DEF Init, LinkInv, Linked
  <1> QED BY <1>1, <1>2, <1>3, <1>4, <1>5 DEF ScanInv

(* The invariant holds at every step of the scan and of the kernel. *)
LEMMA ScanInvariant == Spec => []ScanInv
  <1>1. ASSUME ScanInv, [Next]_vars PROVE ScanInv'
    <2>0. KernelInv /\ MemoryInv /\ WalkInv /\ TableInv /\ FlowInv /\ LinkInv
      BY <1>1 DEF ScanInv
    <2>1. Kernel \/ Walk \/ Build \/ UNCHANGED vars
      BY <1>1 DEF Next
    <2>2. KernelInv' /\ MemoryInv'
      BY <2>0, <2>1, KernelStep, ScanKernel
    <2>3. WalkInv'
      BY <2>0, <2>1, WalkStep, WalkElse
    <2>4. TableInv' /\ FlowInv' /\ LinkInv'
      BY <1>1, <2>0, TableStep, FlowStep, LinkStep
    <2> QED BY <2>2, <2>3, <2>4 DEF ScanInv
  <1> QED BY <1>1, InitScan, PTL DEF Spec

(* Each variable keeps its type, and a socket is in a state of an open     *)
(* socket exactly as long as a process has it.                             *)
THEOREM TypeCorrect == Spec => []TypeOK
  <1>1. ASSUME ScanInv PROVE TypeOK
    <2>1. stat \in Ident \cup {NoEnt}
      BY <1>1, PidAssumption DEF ScanInv, WalkInv
    <2>2. \A g \in flows : g.process \in Ident \cup {NoEnt}
      BY <1>1 DEF ScanInv, FlowInv, FlowOK
    <2> QED BY <1>1, <2>1, <2>2
            DEF ScanInv, KernelInv, WalkInv, TableInv, TypeOK, InUse
  <1> QED BY <1>1, ScanInvariant, PTL

(* Every connection of the dump is counted in exactly one host flow,       *)
(* whatever their number and the order in which they are inserted.         *)
THEOREM EachConnectionCountedOnce == Spec => []ConnectionsCounted
  <1>1. ASSUME ScanInv PROVE ConnectionsCounted
    <2>1. \A g \in flows : g.connections = Cardinality(OfKey(g.key))
      BY <1>1 DEF ScanInv, FlowInv, FlowOK
    <2>2. ASSUME NEW c \in Seen
          PROVE  Cardinality({g \in flows : g.key = UniqKey(c)}) = 1
      <3>1. PICK g \in flows : g.key = UniqKey(c)
        BY <1>1 DEF ScanInv, FlowInv
      <3>2. {f \in flows : f.key = UniqKey(c)} = {g}
        BY <1>1, <3>1 DEF ScanInv, FlowInv
      <3> QED BY <3>2, FS_Singleton
    <2> QED BY <2>1, <2>2 DEF ConnectionsCounted, Seen, OfKey
  <1> QED BY <1>1, ScanInvariant, PTL

(* However processes fork, exit, open and close during the scan, a flow    *)
(* names no process that had nothing to do with it.                        *)
THEOREM FlowNamesAnOwner == Spec => []ProcessHadSocket
  <1>1. ASSUME ScanInv PROVE ProcessHadSocket
    BY <1>1 DEF ScanInv, FlowInv, FlowOK, OfKey, Seen, ProcessHadSocket
  <1> QED BY <1>1, ScanInvariant, PTL

(* A process that may be looked at and keeps a connection is found for its *)
(* flow, if the directories fit one read.                                  *)
THEOREM KeptConnectionsLinked == Spec => []ConnectionsLinked
  <1>1. ASSUME ScanInv PROVE ConnectionsLinked
    <2> SUFFICES ASSUME pc = "done", ByNetlink, DirsFit, NEW c \in conns,
                        NEW p \in Pid \ {Self}, IsFlow(c), <<p, c.sock>> \in kept,
                        proc[p] \notin Denied, NEW g \in flows, g.key = UniqKey(c)
                 PROVE  g.process # NoEnt
      BY DEF ConnectionsLinked
    <2>0. KernelInv /\ MemoryInv /\ TableInv /\ FlowInv /\ LinkInv
      BY <1>1 DEF ScanInv
    <2>1. c.sock \in Inode /\ c.sock \in fds[p]
      BY <2>0 DEF TableInv, Dump, MemoryInv
    <2>2. proc[p] = Who[p] /\ tcp[c.sock] \in InUse
      BY <2>0, <2>1 DEF KernelInv
    <2>3. userEnts[c.sock] # NoEnt
      <3>1. Linked(<<p, c.sock>>) /\ todo = {}
        BY <2>0 DEF LinkInv
      <3> QED BY <2>2, <3>1 DEF Linked
    <2>4. c.inode = c.sock /\ c.inode # NoEnt
      BY <2>0, <2>1, <2>2 DEF TableInv, ByNetlink, InUse
    <2>5. Ent(c) # NoEnt
      BY <2>3, <2>4 DEF Ent
    <2>6. c \in OfKey(g.key)
      BY <2>0 DEF TableInv, OfKey, Seen
    <2> QED BY <2>0, <2>5, <2>6 DEF FlowInv, FlowOK
  <1> QED BY <1>1, ScanInvariant, PTL
=============================================================================
