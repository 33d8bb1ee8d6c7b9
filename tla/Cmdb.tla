-------------------------------- MODULE Cmdb --------------------------------
(***************************************************************************)
(* The connection management database and the transactions in which the    *)
(* agents of several hosts report their flows: InsertOrUpdateHostFlows of  *)
(* db/db.go, one action per SQL statement, over the tables of              *)
(* assets/schema/flows.sql.                                                *)
(*                                                                         *)
(* A row is named by its UNIQUE columns instead of its serial id, which    *)
(* they determine: a process by address and (pgid, pname), an active node  *)
(* by its process, a passive node by its process and port, a flow by its   *)
(* two nodes.  Upserts of a key then only add the row.  The counts and     *)
(* timestamps a row carries are left out.                                  *)
(*                                                                         *)
(* PostgreSQL (external) runs the transactions at READ COMMITTED: a        *)
(* statement sees the committed rows and its own, an upsert waits while    *)
(* another transaction holds the same key.                                 *)
(***************************************************************************)
EXTENDS Naturals, FiniteSets

CONSTANTS
  Conn,         \* the TCP connections of the system: records with the client's
                \*   caddr and cproc, the server's saddr, sproc and port
  Agent,        \* the host addresses where an agent runs
  Loopback,     \* "127.0.0.1" and "::1"
  Unknown,      \* pgid 0 and the empty name: no process information
  Anonymous,    \* the processes a flow may come without (flow.Process = nil)
  MaxFlows,     \* bound on the flows in one call
  NoRow         \* the peer node has not been found yet

VARIABLES
  rows,         \* the committed rows of all tables
  own,          \* own[a]: the rows agent a's open transaction has upserted
  pc,           \* pc[a]: the next statement of agent a
  batch,        \* batch[a]: the flows of its call it has come to
  cur,          \* cur[a]: the flow it is at
  peer,         \* peer[a]: the peer node of cur[a]
  reported      \* the flows of the calls that returned nil

vars == <<rows, own, pc, batch, cur, peer, reported>>

-----------------------------------------------------------------------------
(* Rows *)

Process(addr, proc) == [table |-> "processes", addr |-> addr, proc |-> proc]
ActiveNode(addr, proc) ==
  [table |-> "active_nodes", addr |-> addr, proc |-> proc]
PassiveNode(addr, proc, port) ==
  [table |-> "passive_nodes", addr |-> addr, proc |-> proc, port |-> port]
Flow(src, dst) == [table |-> "flows", src |-> src, dst |-> dst]

In(table, R) == {r \in R : r.table = table}

-----------------------------------------------------------------------------
(* Host flows: an agent sees the connections its host opened and the ones  *)
(* it accepted, loopback connections among them.                           *)

Addr == {c.caddr : c \in Conn} \cup {c.saddr : c \in Conn}
Proc == {c.cproc : c \in Conn} \cup {c.sproc : c \in Conn} \cup {Unknown}
Port == {c.port : c \in Conn}

Active(c, p) == [direction |-> "active", conn |-> c, proc |-> p]
Passive(c, p) == [direction |-> "passive", conn |-> c, proc |-> p]

\* the local process of a flow, or none if it could not be told
Names(p, proc) == p = proc \/ (proc \in Anonymous /\ p = Unknown)

Seen(a, addr) == addr \in {a} \cup Loopback

HostFlows(a) ==
  {f \in {Active(c, p) : c \in Conn, p \in Proc} :
     Seen(a, f.conn.caddr) /\ Names(f.proc, f.conn.cproc)}
  \cup
  {f \in {Passive(c, p) : c \in Conn, p \in Proc} :
     Seen(a, f.conn.saddr) /\ Names(f.proc, f.conn.sproc)}

Local(f) == IF f.direction = "active" THEN f.conn.caddr ELSE f.conn.saddr
Remote(f) == IF f.direction = "active" THEN f.conn.saddr ELSE f.conn.caddr

\* the port that is not "many" is the server's on either side
UniqKey(f) == <<f.direction, Local(f), Remote(f), f.conn.port>>

Skipped(f) == Local(f) \in Loopback \/ Remote(f) \in Loopback

-----------------------------------------------------------------------------
Init ==
  /\ rows = {}
  /\ own = [a \in Agent |-> {}]
  /\ pc = [a \in Agent |-> "idle"]
  /\ batch = [a \in Agent |-> {}]
  /\ cur = [a \in Agent |-> NoRow]
  /\ peer = [a \in Agent |-> NoRow]
  /\ reported = {}

Visible(a) == rows \cup own[a]

\* INSERT ... ON CONFLICT DO UPDATE: wait for the key, then hold it
Upsert(a, row) ==
  /\ \A b \in Agent \ {a} : row \notin own[b]
  /\ own' = [own EXCEPT ![a] = @ \cup {row}]

Goto(a, label) == pc' = [pc EXCEPT ![a] = label]

\* db.Begin; a call without flows returns before it
Begin(a) ==
  /\ pc[a] = "idle"
  /\ Goto(a, "next")
  /\ UNCHANGED <<rows, own, batch, cur, peer, reported>>

\* for _, flow := range flows; flows have pairwise different UniqKeys
NextFlow(a, f) ==
  /\ pc[a] = "next"
  /\ Cardinality(batch[a]) < MaxFlows
  /\ \A g \in batch[a] : UniqKey(g) # UniqKey(f)
  /\ batch' = [batch EXCEPT ![a] = @ \cup {f}]
  /\ cur' = [cur EXCEPT ![a] = f]
  /\ peer' = [peer EXCEPT ![a] = NoRow]
  /\ Goto(a, IF Skipped(f) THEN "next" ELSE "process")
  /\ UNCHANGED <<rows, own, reported>>

\* insertProcessesSQL for the local process
UpsertLocalProcess(a) ==
  /\ pc[a] = "process"
  /\ Upsert(a, Process(Local(cur[a]), cur[a].proc))
  /\ Goto(a, "node")
  /\ UNCHANGED <<rows, batch, cur, peer, reported>>

\* insertPassiveNodesSQL or insertActiveNodesSQL for the local process
LocalNode(f) ==
  IF f.direction = "passive"
  THEN PassiveNode(f.conn.saddr, f.proc, f.conn.port)
  ELSE ActiveNode(f.conn.caddr, f.proc)

UpsertLocalNode(a) ==
  /\ pc[a] = "node"
  /\ Upsert(a, LocalNode(cur[a]))
  /\ Goto(a, "find")
  /\ UNCHANGED <<rows, batch, cur, peer, reported>>

MutActiveNodes(R, port, addr) ==
  {n \in In("active_nodes", R) : n.addr = addr}

\* findActiveNodesSQL: the active nodes of an address that have a flow to any
\* passive node with the port
ActiveNodes(R, port, addr) ==
  {n \in In("active_nodes", R) :
     n.addr = addr /\ \E f \in In("flows", R) : f.src = n /\ f.dst.port = port}

\* findPassiveNodesSQL
PassiveNodes(R, addr, port) ==
  {n \in In("passive_nodes", R) : n.addr = addr /\ n.port = port}

PeerNodes(R, f) ==
  IF f.direction = "passive"
  THEN ActiveNodes(R, f.conn.port, f.conn.caddr)
  ELSE PassiveNodes(R, f.conn.saddr, f.conn.port)

MutFindPeerNode(a) ==
  /\ pc[a] = "find"
  /\ \E n \in PeerNodes(Visible(a), cur[a]) : peer' = [peer EXCEPT ![a] = n]
  /\ Goto(a, "next")
  /\ UNCHANGED <<rows, own, batch, cur, reported>>

\* QueryRow takes the first row, and no ORDER BY says which that is
FindPeerNode(a) ==
  /\ pc[a] = "find"
  /\ \E n \in PeerNodes(Visible(a), cur[a]) : peer' = [peer EXCEPT ![a] = n]
  /\ Goto(a, "flow")
  /\ UNCHANGED <<rows, own, batch, cur, reported>>

\* pgx.ErrNoRows
NoPeerNode(a) ==
  /\ pc[a] = "find"
  /\ PeerNodes(Visible(a), cur[a]) = {}
  /\ Goto(a, "peerprocess")
  /\ UNCHANGED <<rows, own, batch, cur, peer, reported>>

\* insertProcessesSQL with pgid 0 and no name
UpsertPeerProcess(a) ==
  /\ pc[a] = "peerprocess"
  /\ Upsert(a, Process(Remote(cur[a]), Unknown))
  /\ Goto(a, "peernode")
  /\ UNCHANGED <<rows, batch, cur, peer, reported>>

PeerNode(f) ==
  IF f.direction = "passive"
  THEN ActiveNode(f.conn.caddr, Unknown)
  ELSE PassiveNode(f.conn.saddr, Unknown, f.conn.port)

MutUpsertPeerNode(a) ==
  /\ pc[a] = "peernode"
  /\ Upsert(a, PeerNode(cur[a]))
  /\ Goto(a, "flow")
  /\ UNCHANGED <<rows, batch, cur, peer, reported>>

UpsertPeerNode(a) ==
  /\ pc[a] = "peernode"
  /\ Upsert(a, PeerNode(cur[a]))
  /\ peer' = [peer EXCEPT ![a] = PeerNode(cur[a])]
  /\ Goto(a, "flow")
  /\ UNCHANGED <<rows, batch, cur, reported>>

FlowOf(f, n) ==
  IF f.direction = "passive" THEN Flow(n, LocalNode(f)) ELSE Flow(LocalNode(f), n)

\* insertFlowsSQL
UpsertFlow(a) ==
  /\ pc[a] = "flow"
  /\ Upsert(a, FlowOf(cur[a], peer[a]))
  /\ Goto(a, "next")
  /\ UNCHANGED <<rows, batch, cur, peer, reported>>

\* the call is over, and with it the transaction
Return(a) ==
  /\ own' = [own EXCEPT ![a] = {}]
  /\ batch' = [batch EXCEPT ![a] = {}]
  /\ cur' = [cur EXCEPT ![a] = NoRow]
  /\ peer' = [peer EXCEPT ![a] = NoRow]
  /\ Goto(a, "idle")

\* tx.Commit, and InsertOrUpdateHostFlows returns nil
Commit(a) ==
  /\ pc[a] = "next"
  /\ batch[a] # {}
  /\ rows' = rows \cup own[a]
  /\ reported' = reported \cup batch[a]
  /\ Return(a)

\* tx.Commit took effect, but its answer did not come within the 10 seconds
CommitTimeout(a) ==
  /\ pc[a] = "next"
  /\ batch[a] # {}
  /\ rows' = rows \cup own[a]
  /\ Return(a)
  /\ UNCHANGED reported

\* a statement or the commit failed (a deadlock's victim, a timeout, a lost
\* connection): the deferred Rollback, or the server, undoes the transaction
Rollback(a) ==
  /\ pc[a] # "idle"
  /\ Return(a)
  /\ UNCHANGED <<rows, reported>>

Next ==
  \E a \in Agent :
    \/ Begin(a)
    \/ \E f \in HostFlows(a) : NextFlow(a, f)
    \/ UpsertLocalProcess(a)
    \/ UpsertLocalNode(a)
    \/ FindPeerNode(a)
    \/ NoPeerNode(a)
    \/ UpsertPeerProcess(a)
    \/ UpsertPeerNode(a)
    \/ UpsertFlow(a)
    \/ Commit(a)
    \/ CommitTimeout(a)
    \/ Rollback(a)

Spec == Init /\ [][Next]_vars

-----------------------------------------------------------------------------
ProcessRow == {Process(x, p) : x \in Addr, p \in Proc}
ActiveRow == {ActiveNode(x, p) : x \in Addr, p \in Proc}
PassiveRow == {PassiveNode(x, p, n) : x \in Addr, p \in Proc, n \in Port}
FlowRow == {Flow(s, d) : s \in ActiveRow, d \in PassiveRow}
Row == ProcessRow \cup ActiveRow \cup PassiveRow \cup FlowRow

HostFlow == UNION {HostFlows(a) : a \in Agent}

(* Type invariant; in particular a flow only ever joins an active to a     *)
(* passive node.                                                           *)
TypeOK ==
  /\ rows \subseteq Row
  /\ own \in [Agent -> SUBSET Row]
  /\ pc \in [Agent -> {"idle", "next", "process", "node", "find",
                       "peerprocess", "peernode", "flow"}]
  /\ batch \in [Agent -> SUBSET HostFlow]
  /\ cur \in [Agent -> HostFlow \cup {NoRow}]
  /\ peer \in [Agent -> ActiveRow \cup PassiveRow \cup {NoRow}]
  /\ reported \subseteq HostFlow

-----------------------------------------------------------------------------
(* The dependency graph *)

Flows == In("flows", rows)

\* flow f stands for connection c, with at most placeholders for processes
Depicts(f, c) ==
  /\ f.src.addr = c.caddr /\ f.src.proc \in {c.cproc, Unknown}
  /\ f.dst.addr = c.saddr /\ f.dst.proc \in {c.sproc, Unknown}
  /\ f.dst.port = c.port

\* flow f names both processes of connection c
Matches(f, c) ==
  f = Flow(ActiveNode(c.caddr, c.cproc), PassiveNode(c.saddr, c.sproc, c.port))

(* What NoFalseFlow needs: a host's connections to a port are all made by  *)
(* one process, and a port of a host is served by one process.             *)
OneClientPerPort ==
  \A c, d \in Conn : c.caddr = d.caddr /\ c.port = d.port => c.cproc = d.cproc
OneServerPerPort ==
  \A c, d \in Conn : c.saddr = d.saddr /\ c.port = d.port => c.sproc = d.sproc

(* No false dependency: every flow in the CMDB stands for a connection     *)
(* that exists between the two processes it names, whatever transactions   *)
(* overlap and fail (db.go:189-273).                                       *)
NoFalseFlow == \A f \in Flows : \E c \in Conn : Depicts(f, c)

\* R has a flow that joins the two hosts of r at its port, at the node of the
\* process that reported it
StoredIn(R, r) ==
  \E f \in In("flows", R) :
    /\ f.src.addr = r.conn.caddr /\ f.dst.addr = r.conn.saddr
    /\ f.dst.port = r.conn.port
    /\ LocalNode(r) = IF r.direction = "active" THEN f.src ELSE f.dst

(* What a call that returned nil was given is in the CMDB, loopback flows  *)
(* apart: a flow between the two hosts, with the reporting process at its  *)
(* end (db.go:134-278).                                                    *)
ReportedIsStored == \A r \in reported : ~Skipped(r) => StoredIn(rows, r)

(* Once both hosts of a connection have reported it with their processes,  *)
(* the CMDB has the flow between the two processes: "matching the          *)
(* connection information related to multiple hosts" (README.md:23).       *)
MatchedOnceBothReported ==
  \A c \in Conn :
    /\ {c.caddr, c.saddr} \cap Loopback = {}
    /\ {Active(c, c.cproc), Passive(c, c.sproc)} \subseteq reported
    => \E f \in Flows : Matches(f, c)
=============================================================================
