----------------------------- MODULE CmdbProofs -----------------------------
(***************************************************************************)
(* Proofs about the CMDB for any connections, any agents and any           *)
(* overlapping of their transactions.                                      *)
(***************************************************************************)
EXTENDS Cmdb, TLAPS

-----------------------------------------------------------------------------
(* Rows and host flows *)

(* The addresses, processes and ports of a host flow are a connection's. *)
LEMMA HostFlowFields ==
  ASSUME NEW f \in HostFlow
  PROVE  /\ f.conn \in Conn
         /\ \/ f.direction = "active" /\ f.proc \in {f.conn.cproc, Unknown}
            \/ f.direction = "passive" /\ f.proc \in {f.conn.sproc, Unknown}
  <1>1. PICK a \in Agent : f \in HostFlows(a)
    BY DEF HostFlow
  <1> QED BY <1>1 DEF HostFlows, Active, Passive, Names

(* The rows that are upserted for a host flow. *)
LEMMA HostFlowTypes ==
  ASSUME NEW f \in HostFlow
  PROVE  /\ Process(Local(f), f.proc) \in Row
         /\ LocalNode(f) \in Row
         /\ Process(Remote(f), Unknown) \in Row
         /\ PeerNode(f) \in Row /\ PeerNode(f) \in ActiveRow \cup PassiveRow
         /\ f.direction = "passive" =>
              LocalNode(f) \in PassiveRow /\ PeerNode(f) \in ActiveRow
         /\ f.direction = "active" =>
              LocalNode(f) \in ActiveRow /\ PeerNode(f) \in PassiveRow
  <1>1. /\ f.conn \in Conn
        /\ f.direction \in {"active", "passive"}
        /\ f.proc \in Proc
        /\ f.conn.caddr \in Addr /\ f.conn.saddr \in Addr
        /\ f.conn.port \in Port /\ Unknown \in Proc
    BY HostFlowFields DEF Proc, Addr, Port
  <1>2. Local(f) \in Addr /\ Remote(f) \in Addr
    BY <1>1 DEF Local, Remote
  <1>3. Process(Local(f), f.proc) \in ProcessRow
        /\ Process(Remote(f), Unknown) \in ProcessRow
    BY <1>1, <1>2 DEF ProcessRow
  <1>4. CASE f.direction = "passive"
    <2>1. LocalNode(f) \in PassiveRow
      BY <1>1, <1>4 DEF LocalNode, PassiveRow
    <2>2. PeerNode(f) \in ActiveRow
      BY <1>1, <1>4 DEF PeerNode, ActiveRow
    <2> QED BY <1>3, <1>4, <2>1, <2>2 DEF Row
  <1>5. CASE f.direction = "active"
    <2>1. LocalNode(f) \in ActiveRow
      BY <1>1, <1>5 DEF LocalNode, ActiveRow
    <2>2. PeerNode(f) \in PassiveRow
      BY <1>1, <1>5 DEF PeerNode, PassiveRow
    <2> QED BY <1>3, <1>5, <2>1, <2>2 DEF Row
  <1> QED BY <1>1, <1>4, <1>5

(* The four tables are told apart by their tags. *)
LEMMA RowTables ==
  ASSUME NEW r \in Row
  PROVE  /\ r.table = "processes" => r \in ProcessRow
         /\ r.table = "active_nodes" => r \in ActiveRow
         /\ r.table = "passive_nodes" => r \in PassiveRow
         /\ r.table = "flows" => r \in FlowRow
BY DEF Row, ProcessRow, ActiveRow, PassiveRow, FlowRow, Process, ActiveNode,
       PassiveNode, Flow

(* The peer a lookup finds is a node of the other kind. *)
LEMMA PeerNodeTypes ==
  ASSUME NEW f \in HostFlow, NEW R \in SUBSET Row, NEW n \in PeerNodes(R, f)
  PROVE  /\ n \in R
         /\ f.direction = "passive" => n \in ActiveRow
         /\ f.direction = "active" => n \in PassiveRow
  <1>1. CASE f.direction = "passive"
    BY <1>1, RowTables DEF PeerNodes, ActiveNodes, In
  <1>2. CASE f.direction = "active"
    BY <1>2, RowTables DEF PeerNodes, PassiveNodes, In
  <1> QED BY <1>1, <1>2, HostFlowFields

-----------------------------------------------------------------------------
(* Type correctness *)

(* What an agent is at: a flow of its own, and before the last statement a *)
(* peer node of the kind that flow needs.                                  *)
AtFlow ==
  \A a \in Agent :
    /\ pc[a] \notin {"idle", "next"} => cur[a] \in HostFlow
    /\ pc[a] = "flow" =>
         peer[a] \in IF cur[a].direction = "passive" THEN ActiveRow
                                                     ELSE PassiveRow

TypeInv == TypeOK /\ AtFlow

(* The flow row is one of the flows table. *)
LEMMA FlowOfType ==
  ASSUME NEW f \in HostFlow,
         NEW n \in IF f.direction = "passive" THEN ActiveRow ELSE PassiveRow
  PROVE  FlowOf(f, n) \in FlowRow
  <1>1. CASE f.direction = "passive"
    BY <1>1, HostFlowTypes DEF FlowOf, FlowRow
  <1>2. CASE f.direction = "active"
    BY <1>2, HostFlowTypes DEF FlowOf, FlowRow
  <1> QED BY <1>1, <1>2, HostFlowFields

(* One upsert of a row keeps the types. *)
LEMMA UpsertType ==
  ASSUME own \in [Agent -> SUBSET Row], NEW a \in Agent, NEW r \in Row,
         Upsert(a, r)
  PROVE  own' \in [Agent -> SUBSET Row]
BY DEF Upsert

LEMMA InitTypeInv == Init => TypeInv
BY DEF Init, TypeInv, TypeOK, AtFlow

LEMMA NextTypeInv == TypeInv /\ [Next]_vars => TypeInv'
  <1> SUFFICES ASSUME TypeInv, [Next]_vars PROVE TypeInv'
    OBVIOUS
  <1> USE DEF TypeInv, TypeOK, AtFlow, Goto
  <1>1. ASSUME NEW a \in Agent, Begin(a) PROVE TypeInv'
    BY <1>1 DEF Begin
  <1>2. ASSUME NEW a \in Agent, NEW f \in HostFlows(a), NextFlow(a, f)
        PROVE  TypeInv'
    <2>1. f \in HostFlow
      BY <1>2 DEF HostFlow
    <2> QED BY <1>2, <2>1 DEF NextFlow
  <1>3. ASSUME NEW a \in Agent, UpsertLocalProcess(a) PROVE TypeInv'
    <2>1. own' \in [Agent -> SUBSET Row]
      BY <1>3, HostFlowTypes, UpsertType DEF UpsertLocalProcess
    <2> QED BY <1>3, <2>1 DEF UpsertLocalProcess
  <1>4. ASSUME NEW a \in Agent, UpsertLocalNode(a) PROVE TypeInv'
    <2>1. own' \in [Agent -> SUBSET Row]
      BY <1>4, HostFlowTypes, UpsertType DEF UpsertLocalNode
    <2> QED BY <1>4, <2>1 DEF UpsertLocalNode
  <1>5. ASSUME NEW a \in Agent, FindPeerNode(a) PROVE TypeInv'
    <2>1. Visible(a) \in SUBSET Row /\ cur[a] \in HostFlow
      BY <1>5 DEF Visible, FindPeerNode
    <2>2. PICK n \in PeerNodes(Visible(a), cur[a]) :
            peer' = [peer EXCEPT ![a] = n]
      BY <1>5 DEF FindPeerNode
    <2>3. n \in IF cur[a].direction = "passive" THEN ActiveRow ELSE PassiveRow
      BY <2>1, PeerNodeTypes, HostFlowFields
    <2> QED BY <1>5, <2>1, <2>2, <2>3 DEF FindPeerNode
  <1>6. ASSUME NEW a \in Agent, NoPeerNode(a) PROVE TypeInv'
    BY <1>6 DEF NoPeerNode
  <1>7. ASSUME NEW a \in Agent, UpsertPeerProcess(a) PROVE TypeInv'
    <2>1. own' \in [Agent -> SUBSET Row]
      BY <1>7, HostFlowTypes, UpsertType DEF UpsertPeerProcess
    <2> QED BY <1>7, <2>1 DEF UpsertPeerProcess
  <1>8. ASSUME NEW a \in Agent, UpsertPeerNode(a) PROVE TypeInv'
    <2>1. own' \in [Agent -> SUBSET Row]
      BY <1>8, HostFlowTypes, UpsertType DEF UpsertPeerNode
    <2>2. PeerNode(cur[a]) \in IF cur[a].direction = "passive" THEN ActiveRow
                                                               ELSE PassiveRow
      BY <1>8, HostFlowTypes, HostFlowFields DEF UpsertPeerNode
    <2> QED BY <1>8, <2>1, <2>2 DEF UpsertPeerNode
  <1>9. ASSUME NEW a \in Agent, UpsertFlow(a) PROVE TypeInv'
    <2>1. FlowOf(cur[a], peer[a]) \in Row
      BY <1>9, FlowOfType DEF UpsertFlow, Row
    <2>2. own' \in [Agent -> SUBSET Row]
      BY <1>9, <2>1, UpsertType DEF UpsertFlow
    <2> QED BY <1>9, <2>2 DEF UpsertFlow
  <1>10. ASSUME NEW a \in Agent, Commit(a) \/ CommitTimeout(a) \/ Rollback(a)
         PROVE  TypeInv'
    BY <1>10 DEF Commit, CommitTimeout, Rollback, Return
  <1>11. CASE UNCHANGED vars
    BY <1>11 DEF vars
  <1> QED BY <1>1, <1>2, <1>3, <1>4, <1>5, <1>6, <1>7, <1>8, <1>9, <1>10, <1>11
          DEF Next

(* The tables and the transactions keep their types; in particular a flow  *)
(* only ever joins an active node to a passive one.                        *)
THEOREM TypeCorrect == Spec => []TypeOK
  <1>1. TypeInv => TypeOK
    BY DEF TypeInv
  <1> QED BY InitTypeInv, NextTypeInv, <1>1, PTL DEF Spec

-----------------------------------------------------------------------------
(* No false dependency *)

(* A passive node stands for a connection's server, or holds its place. *)
Serves(n, c) ==
  n.addr = c.saddr /\ n.port = c.port /\ n.proc \in {c.sproc, Unknown}

GoodRow(r) ==
  /\ r.table = "passive_nodes" => \E c \in Conn : Serves(r, c)
  /\ r.table = "flows" => \E c \in Conn : Depicts(r, c)

(* Also the uncommitted rows are good, and so is the flow about to be      *)
(* upserted: the strengthening that makes NoFalseFlow inductive.           *)
GraphInv ==
  /\ \A r \in rows : GoodRow(r)
  /\ \A a \in Agent : \A r \in own[a] : GoodRow(r)
  /\ \A a \in Agent :
       pc[a] = "flow" => Depicts(FlowOf(cur[a], peer[a]), cur[a].conn)

(* The rows upserted for the two ends of a host flow are good. *)
LEMMA EndRowsGood ==
  ASSUME NEW f \in HostFlow
  PROVE  /\ \A x, p : GoodRow(Process(x, p))
         /\ GoodRow(LocalNode(f)) /\ GoodRow(PeerNode(f))
         /\ Depicts(FlowOf(f, PeerNode(f)), f.conn)
  <1>1. /\ f.conn \in Conn
        /\ \/ f.direction = "active" /\ f.proc \in {f.conn.cproc, Unknown}
           \/ f.direction = "passive" /\ f.proc \in {f.conn.sproc, Unknown}
    BY HostFlowFields
  <1>2. \A x, p : GoodRow(Process(x, p))
    BY DEF GoodRow, Process
  <1>3. GoodRow(LocalNode(f))
    BY <1>1 DEF GoodRow, LocalNode, PassiveNode, ActiveNode, Serves
  <1>4. GoodRow(PeerNode(f))
    BY <1>1 DEF GoodRow, PeerNode, PassiveNode, ActiveNode, Serves
  <1>5. Depicts(FlowOf(f, PeerNode(f)), f.conn)
    BY <1>1 DEF Depicts, FlowOf, Flow, PeerNode, LocalNode, PassiveNode,
                ActiveNode
  <1> QED BY <1>2, <1>3, <1>4, <1>5

(* Where a host's connections to a port belong to one process and a port   *)
(* is served by one process, the node a lookup finds is the right one.     *)
LEMMA FoundPeerIsRight ==
  ASSUME OneClientPerPort, OneServerPerPort,
         NEW f \in HostFlow, NEW R, \A r \in R : GoodRow(r),
         NEW n \in PeerNodes(R, f)
  PROVE  Depicts(FlowOf(f, n), f.conn)
  <1>1. /\ f.conn \in Conn
        /\ \/ f.direction = "active" /\ f.proc \in {f.conn.cproc, Unknown}
           \/ f.direction = "passive" /\ f.proc \in {f.conn.sproc, Unknown}
    BY HostFlowFields
  <1>2. CASE f.direction = "passive"
    <2>1. /\ n.addr = f.conn.caddr
          /\ \E g \in R : /\ g.table = "flows"
                          /\ g.src = n /\ g.dst.port = f.conn.port
      BY <1>2 DEF PeerNodes, ActiveNodes, In
    <2>2. PICK d \in Conn : /\ n.addr = d.caddr /\ f.conn.port = d.port
                            /\ n.proc \in {d.cproc, Unknown}
      BY <2>1 DEF GoodRow, Depicts
    <2>3. n.proc \in {f.conn.cproc, Unknown}
      BY <1>1, <2>1, <2>2 DEF OneClientPerPort
    <2> QED BY <1>1, <1>2, <2>1, <2>3
            DEF Depicts, FlowOf, Flow, LocalNode, PassiveNode
  <1>3. CASE f.direction = "active"
    <2>1. /\ n \in R /\ n.table = "passive_nodes"
          /\ n.addr = f.conn.saddr /\ n.port = f.conn.port
      BY <1>3 DEF PeerNodes, PassiveNodes, In
    <2>2. PICK d \in Conn : Serves(n, d)
      BY <2>1 DEF GoodRow
    <2>3. n.proc \in {f.conn.sproc, Unknown}
      BY <1>1, <2>1, <2>2 DEF Serves, OneServerPerPort
    <2> QED BY <1>1, <1>3, <2>1, <2>3
            DEF Depicts, FlowOf, Flow, LocalNode, ActiveNode
  <1> QED BY <1>1, <1>2, <1>3

(* An upsert of a good row, on the way to any statement but the last,      *)
(* keeps the invariant.                                                    *)
LEMMA UpsertGood ==
  ASSUME TypeInv, GraphInv, NEW a \in Agent, NEW r, GoodRow(r), Upsert(a, r),
         UNCHANGED rows,
         NEW l, pc' = [pc EXCEPT ![a] = l], l # "flow",
         UNCHANGED <<cur, peer>>
  PROVE  GraphInv'
BY DEF TypeInv, TypeOK, GraphInv, Upsert

LEMMA NextGraphInv ==
  ASSUME OneClientPerPort, OneServerPerPort, TypeInv, GraphInv, [Next]_vars
  PROVE  GraphInv'
  <1> USE DEF Goto
  <1>0. ASSUME NEW a \in Agent, pc[a] \notin {"idle", "next"}
        PROVE  cur[a] \in HostFlow
    BY <1>0 DEF TypeInv, AtFlow
  <1>1. ASSUME NEW a \in Agent, Begin(a) PROVE GraphInv'
    BY <1>1 DEF Begin, GraphInv, TypeInv, TypeOK
  <1>2. ASSUME NEW a \in Agent, NEW f \in HostFlows(a), NextFlow(a, f)
        PROVE  GraphInv'
    BY <1>2 DEF NextFlow, GraphInv, TypeInv, TypeOK
  <1>3. ASSUME NEW a \in Agent, UpsertLocalProcess(a) PROVE GraphInv'
    BY <1>0, <1>3, EndRowsGood, UpsertGood DEF UpsertLocalProcess
  <1>4. ASSUME NEW a \in Agent, UpsertLocalNode(a) PROVE GraphInv'
    BY <1>0, <1>4, EndRowsGood, UpsertGood DEF UpsertLocalNode
  <1>5. ASSUME NEW a \in Agent, FindPeerNode(a) PROVE GraphInv'
    <2>1. PICK n \in PeerNodes(Visible(a), cur[a]) :
            peer' = [peer EXCEPT ![a] = n]
      BY <1>5 DEF FindPeerNode
    <2>2. \A r \in Visible(a) : GoodRow(r)
      BY DEF GraphInv, Visible
    <2>3. Depicts(FlowOf(cur[a], n), cur[a].conn)
      BY <1>0, <1>5, <2>1, <2>2, FoundPeerIsRight DEF FindPeerNode
    <2> QED BY <1>5, <2>1, <2>3 DEF FindPeerNode, GraphInv, TypeInv, TypeOK
  <1>6. ASSUME NEW a \in Agent, NoPeerNode(a) PROVE GraphInv'
    BY <1>6 DEF NoPeerNode, GraphInv, TypeInv, TypeOK
  <1>7. ASSUME NEW a \in Agent, UpsertPeerProcess(a) PROVE GraphInv'
    BY <1>0, <1>7, EndRowsGood, UpsertGood DEF UpsertPeerProcess
  <1>8. ASSUME NEW a \in Agent, UpsertPeerNode(a) PROVE GraphInv'
    <2>1. /\ GoodRow(PeerNode(cur[a]))
          /\ Depicts(FlowOf(cur[a], PeerNode(cur[a])), cur[a].conn)
      BY <1>0, <1>8, EndRowsGood DEF UpsertPeerNode
    <2> QED BY <1>8, <2>1
            DEF UpsertPeerNode, Upsert, GraphInv, TypeInv, TypeOK
  <1>9. ASSUME NEW a \in Agent, UpsertFlow(a) PROVE GraphInv'
    <2>1. Depicts(FlowOf(cur[a], peer[a]), cur[a].conn) /\ cur[a].conn \in Conn
      BY <1>0, <1>9, HostFlowFields DEF UpsertFlow, GraphInv
    <2>2. GoodRow(FlowOf(cur[a], peer[a]))
      <3>1. FlowOf(cur[a], peer[a]).table = "flows"
        BY DEF FlowOf, Flow
      <3> QED BY <2>1, <3>1 DEF GoodRow
    <2> QED BY <1>9, <2>2, UpsertGood DEF UpsertFlow
  <1>10. ASSUME NEW a \in Agent, Commit(a) \/ CommitTimeout(a) \/ Rollback(a)
         PROVE  GraphInv'
    BY <1>10 DEF Commit, CommitTimeout, Rollback, Return, GraphInv, TypeInv,
                 TypeOK
  <1>11. CASE UNCHANGED vars
    BY <1>11 DEF vars, GraphInv
  <1> QED BY <1>1, <1>2, <1>3, <1>4, <1>5, <1>6, <1>7, <1>8, <1>9, <1>10, <1>11
          DEF Next

(* Where a host's connections to a port all belong to one process, and a   *)
(* port of a host to one server process, no overlapping, failing or        *)
(* half-answered transaction ever stores a false dependency.               *)
THEOREM GraphIsTrue ==
  OneClientPerPort /\ OneServerPerPort => (Spec => []NoFalseFlow)
  <1> SUFFICES ASSUME OneClientPerPort, OneServerPerPort
               PROVE  Spec => []NoFalseFlow
    OBVIOUS
  <1>1. Init => GraphInv
    BY DEF Init, GraphInv
  <1>2. TypeInv /\ GraphInv /\ [Next]_vars => GraphInv'
    BY NextGraphInv
  <1>3. GraphInv => NoFalseFlow
    BY DEF GraphInv, GoodRow, NoFalseFlow, Flows, In
  <1> QED BY InitTypeInv, NextTypeInv, <1>1, <1>2, <1>3, PTL DEF Spec

-----------------------------------------------------------------------------
(* A nil result means that the flows are stored *)

(* The flows a call has dealt with are in what its transaction sees. *)
StoredInv ==
  /\ \A r \in reported : ~Skipped(r) => StoredIn(rows, r)
  /\ \A a \in Agent : \A r \in batch[a] :
       (pc[a] = "next" \/ r # cur[a]) /\ ~Skipped(r) => StoredIn(Visible(a), r)
  /\ \A a \in Agent : pc[a] = "idle" => batch[a] = {}

LEMMA StoredMonotone ==
  ASSUME NEW R, NEW T, R \subseteq T, NEW r, StoredIn(R, r)
  PROVE  StoredIn(T, r)
BY DEF StoredIn, In

(* The address and port of the peer node fit the host flow. *)
PeerFits ==
  \A a \in Agent : pc[a] = "flow" => StoredIn({FlowOf(cur[a], peer[a])}, cur[a])

(* A node with the peer's address and port, from a lookup or upserted,     *)
(* makes a flow that stores the host flow.                                 *)
LEMMA FittingFlow ==
  ASSUME NEW f \in HostFlow, NEW R, NEW n,
         n \in PeerNodes(R, f) \/ n = PeerNode(f)
  PROVE  StoredIn({FlowOf(f, n)}, f)
  <1> DEFINE g == FlowOf(f, n)
  <1>1. g.table = "flows"
    BY DEF FlowOf, Flow
  <1>2. CASE f.direction = "passive"
    <2>1. n.addr = f.conn.caddr
      BY <1>2 DEF PeerNodes, ActiveNodes, PeerNode, ActiveNode, In
    <2>2. g.src = n /\ g.dst = LocalNode(f)
      BY <1>2 DEF FlowOf, Flow
    <2>3. LocalNode(f).addr = f.conn.saddr /\ LocalNode(f).port = f.conn.port
      BY <1>2 DEF LocalNode, PassiveNode
    <2>4. f.direction # "active"
      BY <1>2
    <2> HIDE DEF g
    <2>5. g \in In("flows", {g})
      BY <1>1 DEF In
    <2>6. StoredIn({g}, f)
      BY <2>1, <2>2, <2>3, <2>4, <2>5 DEF StoredIn
    <2> QED BY <2>6 DEF g
  <1>3. CASE f.direction = "active"
    <2>1. n.addr = f.conn.saddr /\ n.port = f.conn.port
      BY <1>3 DEF PeerNodes, PassiveNodes, PeerNode, PassiveNode, In
    <2>2. g.src = LocalNode(f) /\ g.dst = n
      BY <1>3 DEF FlowOf, Flow
    <2>3. LocalNode(f).addr = f.conn.caddr
      BY <1>3 DEF LocalNode, ActiveNode
    <2> HIDE DEF g
    <2>4. g \in In("flows", {g})
      BY <1>1 DEF In
    <2>5. StoredIn({g}, f)
      BY <1>3, <2>1, <2>2, <2>3, <2>4 DEF StoredIn
    <2> QED BY <2>5 DEF g
  <1> QED BY <1>2, <1>3, HostFlowFields

LEMMA NextPeerFits ==
  ASSUME TypeInv, PeerFits, [Next]_vars
  PROVE  PeerFits'
  <1> USE DEF Goto, TypeInv, TypeOK
  <1>1. ASSUME NEW a \in Agent, FindPeerNode(a) PROVE PeerFits'
    <2>1. PICK n \in PeerNodes(Visible(a), cur[a]) :
            peer' = [peer EXCEPT ![a] = n]
      BY <1>1 DEF FindPeerNode
    <2>2. StoredIn({FlowOf(cur[a], n)}, cur[a])
      BY <1>1, <2>1, FittingFlow DEF FindPeerNode, AtFlow
    <2>3. /\ cur'[a] = cur[a] /\ peer'[a] = n
          /\ \A b \in Agent \ {a} :
               pc'[b] = pc[b] /\ cur'[b] = cur[b] /\ peer'[b] = peer[b]
      BY <1>1, <2>1 DEF FindPeerNode
    <2> QED BY <2>2, <2>3 DEF PeerFits
  <1>2. ASSUME NEW a \in Agent, UpsertPeerNode(a) PROVE PeerFits'
    <2>1. StoredIn({FlowOf(cur[a], PeerNode(cur[a]))}, cur[a])
      BY <1>2, FittingFlow DEF UpsertPeerNode, AtFlow
    <2>2. /\ cur'[a] = cur[a] /\ peer'[a] = PeerNode(cur[a])
          /\ \A b \in Agent \ {a} :
               pc'[b] = pc[b] /\ cur'[b] = cur[b] /\ peer'[b] = peer[b]
      BY <1>2 DEF UpsertPeerNode
    <2> QED BY <2>1, <2>2 DEF PeerFits
  <1>3. ASSUME NEW a \in Agent,
               \/ Begin(a) \/ UpsertLocalProcess(a) \/ UpsertLocalNode(a)
               \/ NoPeerNode(a) \/ UpsertPeerProcess(a) \/ UpsertFlow(a)
               \/ Commit(a) \/ CommitTimeout(a) \/ Rollback(a)
               \/ \E f \in HostFlows(a) : NextFlow(a, f)
        PROVE  PeerFits'
    <2>1. /\ pc'[a] # "flow"
          /\ \A b \in Agent \ {a} :
               pc'[b] = pc[b] /\ cur'[b] = cur[b] /\ peer'[b] = peer[b]
      BY <1>3 DEF Begin, UpsertLocalProcess, UpsertLocalNode, NoPeerNode,
                  UpsertPeerProcess, UpsertFlow, Commit, CommitTimeout,
                  Rollback, Return, NextFlow
    <2> QED BY <2>1 DEF PeerFits
  <1>4. CASE UNCHANGED vars
    BY <1>4 DEF vars, PeerFits
  <1> QED BY <1>1, <1>2, <1>3, <1>4 DEF Next

(* A step that is not the end of a's call loses nothing that was stored,   *)
(* when it takes up no new flow.                                           *)
LEMMA StatementKeepsStored ==
  ASSUME TypeInv, StoredInv, NEW a \in Agent,
         UNCHANGED <<rows, reported, batch, cur>>,
         \A b \in Agent : own[b] \subseteq own'[b],
         \A b \in Agent \ {a} : pc'[b] = pc[b],
         pc'[a] # "idle",
         pc'[a] = "next" => batch[a] = {} \/ StoredIn(Visible(a)', cur[a])
  PROVE  StoredInv'
  <1>1. \A b \in Agent : Visible(b) \subseteq Visible(b)'
    BY DEF Visible
  <1>2. ASSUME NEW b \in Agent, NEW r \in batch[b], ~Skipped(r),
               pc'[b] = "next" \/ r # cur[b]
        PROVE  StoredIn(Visible(b)', r)
    <2>1. CASE pc[b] = "next" \/ r # cur[b]
      BY <1>1, <1>2, <2>1, StoredMonotone DEF StoredInv
    <2>2. CASE ~(pc[b] = "next" \/ r # cur[b])
      BY <1>2, <2>2 DEF TypeInv, TypeOK
    <2> QED BY <2>1, <2>2
  <1>3. \A r \in reported : ~Skipped(r) => StoredIn(rows, r)
    BY DEF StoredInv
  <1> QED BY <1>2, <1>3 DEF StoredInv, StoredIn, In

LEMMA NextStoredInv ==
  ASSUME TypeInv, PeerFits, StoredInv, [Next]_vars
  PROVE  StoredInv'
  <1> USE DEF Goto
  <1>1. ASSUME NEW a \in Agent, NEW f \in HostFlows(a), NextFlow(a, f)
        PROVE  StoredInv'
    <2>1. /\ UNCHANGED <<rows, reported, own>>
          /\ \A b \in Agent : Visible(b)' = Visible(b)
      BY <1>1 DEF NextFlow, Visible
    <2>2. /\ pc[a] = "next"
          /\ batch'[a] = batch[a] \cup {f} /\ cur'[a] = f
          /\ pc'[a] = "next" => Skipped(f)
      BY <1>1 DEF NextFlow, TypeInv, TypeOK
    <2>3. \A b \in Agent \ {a} :
            batch'[b] = batch[b] /\ cur'[b] = cur[b] /\ pc'[b] = pc[b]
      BY <1>1 DEF NextFlow, TypeInv, TypeOK
    <2>4. \A b \in Agent : \A r \in batch'[b] :
            (pc'[b] = "next" \/ r # cur'[b]) /\ ~Skipped(r)
              => StoredIn(Visible(b), r)
      BY <2>2, <2>3 DEF StoredInv
    <2>5. ASSUME NEW b \in Agent, NEW r \in batch'[b], ~Skipped(r),
                 pc'[b] = "next" \/ r # cur'[b]
          PROVE  StoredIn(Visible(b)', r)
      BY <2>1, <2>4, <2>5
    <2>6. \A b \in Agent : pc'[b] = "idle" => batch'[b] = {}
      BY <1>1, <2>3 DEF NextFlow, StoredInv, TypeInv, TypeOK
    <2>7. \A r \in reported' : ~Skipped(r) => StoredIn(rows', r)
      BY <2>1 DEF StoredInv
    <2> QED BY <2>5, <2>6, <2>7 DEF StoredInv
  <1>2. ASSUME NEW a \in Agent,
               \/ Begin(a) \/ UpsertLocalProcess(a) \/ UpsertLocalNode(a)
               \/ FindPeerNode(a) \/ NoPeerNode(a) \/ UpsertPeerProcess(a)
               \/ UpsertPeerNode(a)
        PROVE  StoredInv'
    <2>1. /\ UNCHANGED <<rows, reported, batch, cur>>
          /\ \A b \in Agent : own[b] \subseteq own'[b]
          /\ \A b \in Agent \ {a} : pc'[b] = pc[b]
      BY <1>2 DEF TypeInv, TypeOK, Begin, UpsertLocalProcess, UpsertLocalNode,
                  FindPeerNode, NoPeerNode, UpsertPeerProcess, UpsertPeerNode,
                  Upsert
    <2>2. pc'[a] # "idle" /\ (pc'[a] = "next" => Begin(a))
      BY <1>2 DEF TypeInv, TypeOK, Begin, UpsertLocalProcess, UpsertLocalNode,
                  FindPeerNode, NoPeerNode, UpsertPeerProcess, UpsertPeerNode
    <2>3. Begin(a) => batch[a] = {}
      BY DEF Begin, StoredInv
    <2> QED BY <2>1, <2>2, <2>3, StatementKeepsStored
  <1>3. ASSUME NEW a \in Agent, UpsertFlow(a) PROVE StoredInv'
    <2>1. /\ UNCHANGED <<rows, reported, batch, cur>>
          /\ \A b \in Agent : own[b] \subseteq own'[b]
          /\ \A b \in Agent \ {a} : pc'[b] = pc[b]
          /\ pc'[a] = "next"
          /\ FlowOf(cur[a], peer[a]) \in Visible(a)'
      BY <1>3 DEF TypeInv, TypeOK, UpsertFlow, Upsert, Visible
    <2>2. StoredIn({FlowOf(cur[a], peer[a])}, cur[a])
      BY <1>3 DEF UpsertFlow, PeerFits
    <2>3. StoredIn(Visible(a)', cur[a])
      BY <2>1, <2>2, StoredMonotone
    <2> QED BY <2>1, <2>3, StatementKeepsStored
  <1>4. ASSUME NEW a \in Agent, Commit(a) \/ CommitTimeout(a) \/ Rollback(a)
        PROVE  StoredInv'
    <2>1. /\ batch'[a] = {}
          /\ \A b \in Agent \ {a} : /\ batch'[b] = batch[b] /\ own'[b] = own[b]
                                     /\ cur'[b] = cur[b] /\ pc'[b] = pc[b]
          /\ rows \subseteq rows'
      BY <1>4 DEF Commit, CommitTimeout, Rollback, Return, TypeInv, TypeOK
    <2>2. \A b \in Agent \ {a} : Visible(b) \subseteq Visible(b)'
      BY <2>1 DEF Visible
    <2>3. ASSUME NEW b \in Agent, NEW r \in batch'[b], ~Skipped(r),
                 pc'[b] = "next" \/ r # cur'[b]
          PROVE  StoredIn(Visible(b)', r)
      BY <2>1, <2>2, <2>3, StoredMonotone DEF StoredInv
    <2>4. ASSUME NEW r \in reported', ~Skipped(r) PROVE StoredIn(rows', r)
      <3>1. CASE r \in reported
        BY <2>1, <2>4, <3>1, StoredMonotone DEF StoredInv
      <3>2. CASE r \notin reported
        <4>1. Commit(a) /\ r \in batch[a] /\ pc[a] = "next"
          BY <1>4, <3>2 DEF Commit, CommitTimeout, Rollback
        <4>2. StoredIn(Visible(a), r) /\ rows' = Visible(a)
          BY <2>4, <4>1 DEF StoredInv, Commit, Visible
        <4> QED BY <4>2
      <3> QED BY <3>1, <3>2
    <2>5. \A b \in Agent : pc'[b] = "idle" => batch'[b] = {}
      BY <2>1 DEF StoredInv
    <2> QED BY <2>3, <2>4, <2>5 DEF StoredInv, StoredIn, In
  <1>5. CASE UNCHANGED vars
    BY <1>5 DEF vars, StoredInv, Visible, StoredIn, In
  <1> QED BY <1>1, <1>2, <1>3, <1>4, <1>5 DEF Next

(* A call that returned nil has stored every flow it was given, whatever   *)
(* other agents' transactions did meanwhile.                               *)
THEOREM NilMeansStored == Spec => []ReportedIsStored
  <1>1. Init => PeerFits /\ StoredInv
    BY DEF Init, PeerFits, StoredInv
  <1>2. StoredInv => ReportedIsStored
    BY DEF StoredInv, ReportedIsStored
  <1>3. TypeInv /\ PeerFits /\ StoredInv /\ [Next]_vars
          => PeerFits' /\ StoredInv'
    BY NextPeerFits, NextStoredInv
  <1> QED BY InitTypeInv, NextTypeInv, <1>1, <1>2, <1>3, PTL DEF Spec
=============================================================================
