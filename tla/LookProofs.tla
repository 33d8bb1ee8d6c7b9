----------------------------- MODULE LookProofs -----------------------------
(***************************************************************************)
(* Proofs about shawk look for any flows, any number of agents, any time   *)
(* zones and any --since and --until.                                      *)
(***************************************************************************)
EXTENDS Look, FiniteSetTheorems, TLAPS

(* A query returns some of the flows it chose from, one for each of their  *)
(* processes.                                                              *)
LEMMA DistinctOnResult ==
  ASSUME NEW node, NEW F, F \subseteq Flow, NEW R \in DistinctOn(F, node)
  PROVE  /\ R \subseteq F
         /\ OnePerProcess(R, node)
         /\ \A f \in F : Shown(f, R, node)
  <1> DEFINE Same(f, g) == node[f].addr = node[g].addr /\ node[f].pname = node[g].pname
             Group(f) == {g \in R : Same(f, g)}
  <1>1. R \subseteq F /\ \A f \in F : Cardinality(Group(f)) = 1
    BY DEF DistinctOn
  <1>2. IsFiniteSet(R)
    <2>1. IsFiniteSet(F)
      BY TimeAssumption, FS_Subset
    <2> QED BY <1>1, <2>1, FS_Subset
  <1>3. ASSUME NEW f \in F PROVE \E h : Group(f) = {h}
    <2> DEFINE G == Group(f)
    <2>1. G \subseteq R
      OBVIOUS
    <2>2. IsFiniteSet(G)
      BY <1>2, <2>1, FS_Subset
    <2>3. Cardinality(G) = 1
      BY <1>1
    <2> HIDE DEF G
    <2>4. \E h : G = {h}
      BY <2>2, <2>3, FS_Singleton
    <2> QED BY <2>4 DEF G
  <1>4. OnePerProcess(R, node)
    <2> SUFFICES ASSUME NEW f \in R, NEW g \in R, Same(f, g) PROVE f = g
      BY DEF OnePerProcess
    <2>1. f \in Group(f) /\ g \in Group(f)
      OBVIOUS
    <2> QED BY <1>1, <1>3, <2>1
  <1>5. ASSUME NEW f \in F PROVE Shown(f, R, node)
    <2>1. PICK h : Group(f) = {h}
      BY <1>3
    <2>2. h \in R /\ Same(f, h)
      BY <2>1
    <2> QED BY <2>2 DEF Shown
  <1> QED BY <1>1, <1>4, <1>5

-----------------------------------------------------------------------------
(* Type correctness *)

(* A transaction has begun by now, so that the times it leaves are past.   *)
StartInv == \A w \in Writer : start[w] # Never => start[w] \in 0..now

TypeInv == TypeOK /\ StartInv

(* The initial state is typed. *)
LEMMA InitType == Init => TypeInv
  BY TimeAssumption DEF Init, TypeInv, TypeOK, StartInv, OnePerProcess

(* Every step preserves the types. *)
LEMMA NextType ==
  ASSUME TypeInv, [Next]_vars
  PROVE  TypeInv'
  <1>0. TypeOK /\ StartInv
    BY DEF TypeInv
  <1>1. CASE Tick
    BY <1>0, <1>1, TimeAssumption DEF Tick, TypeInv, TypeOK, StartInv, store
  <1>2. ASSUME NEW w \in Writer, Begin(w) PROVE TypeInv'
    BY <1>0, <1>2, TimeAssumption DEF Begin, TypeInv, TypeOK, StartInv
  <1>3. ASSUME NEW w \in Writer, Commit(w) PROVE TypeInv'
    <2>1. /\ start' \in [Writer -> (0..MaxTime) \cup {Never}]
          /\ upserts' \in [Writer -> SUBSET Flow] /\ now' = now
      BY <1>0, <1>3 DEF Commit, End, TypeOK
    <2>2. updated' \in [Flow -> Int \cup {Never}] /\ due' \subseteq Flow
      <3>0. start[w] \in (0..MaxTime) \cup {Never} /\ start[w] # Never
        BY <1>0, <1>3 DEF Commit, TypeOK
      <3>1. start[w] \in Int /\ zone.cmdb \in Int
        <4>1. start[w] \in 0..MaxTime /\ zone.cmdb \in Zone
          BY <1>0, <3>0 DEF TypeOK
        <4>2. start[w] \in Int
          BY <4>1
        <4>3. zone.cmdb \in Int
          BY <4>1, TimeAssumption
        <4> QED BY <4>2, <4>3
      <3>2. \A f \in Flow : updated[f] \in Int \cup {Never}
        BY <1>0 DEF TypeOK
      <3>3. start[w] + zone.cmdb \in Int
        BY <3>1
      <3>4. updated' \in [Flow -> Int \cup {Never}]
        BY <1>3, <3>2, <3>3 DEF Commit
      <3> QED BY <1>0, <1>3, <3>4 DEF Commit, TypeOK
    <2>3. StartInv'
      BY <1>0, <1>3 DEF Commit, End, TypeOK, StartInv
    <2> QED BY <1>0, <1>3, <2>1, <2>2, <2>3 DEF Commit, End, TypeInv, TypeOK
  <1>4. ASSUME NEW w \in Writer, Rollback(w) PROVE TypeInv'
    <2>1. /\ start' \in [Writer -> (0..MaxTime) \cup {Never}]
          /\ upserts' \in [Writer -> SUBSET Flow] /\ now' = now
      BY <1>0, <1>4 DEF Rollback, End, TypeOK
    <2>2. StartInv'
      BY <1>0, <1>4 DEF Rollback, End, TypeOK, StartInv
    <2> QED BY <1>0, <1>4, <2>1, <2>2 DEF Rollback, End, TypeInv, TypeOK
  <1>5. ASSUME NEW w \in Writer, NEW f \in Flow, Upsert(w, f) PROVE TypeInv'
    BY <1>0, <1>5 DEF Upsert, TypeInv, TypeOK, StartInv
  <1>6. ASSUME NEW depth, DepthError(depth) PROVE TypeInv'
    BY <1>0, <1>6 DEF DepthError, store, TypeInv, TypeOK, StartInv
  <1>7. ASSUME NEW depth, NEW s \in Times, NEW u \in Times, LookStart(depth, s, u)
        PROVE  TypeInv'
    <2>1. {s, u} \subseteq Int \cup {Never}
      BY <1>0, TimeAssumption DEF Times, TypeOK
    <2> QED BY <1>0, <1>7, <2>1 DEF LookStart, store, TypeInv, TypeOK, StartInv
  <1>8. ASSUME NEW from, NEW to, SetUntil(from, to) PROVE TypeInv'
    BY <1>0, <1>8 DEF SetUntil, store, TypeInv, TypeOK, StartInv
  <1>9. CASE FindPassiveFlows
    <2>1. passive' \subseteq Flow /\ OnePerProcess(passive', Dst)
      BY <1>9, DistinctOnResult DEF FindPassiveFlows
    <2> QED BY <1>0, <1>9, <2>1
            DEF FindPassiveFlows, store, TypeInv, TypeOK, StartInv, OnePerProcess
  <1>10. CASE FindActiveFlows
    <2>1. active' \subseteq Flow /\ OnePerProcess(active', Src)
      BY <1>10, DistinctOnResult DEF FindActiveFlows
    <2> QED BY <1>0, <1>10, <2>1
            DEF FindActiveFlows, store, TypeInv, TypeOK, StartInv, OnePerProcess
  <1>11. CASE UNCHANGED vars
    BY <1>0, <1>11 DEF vars, store, TypeInv, TypeOK, StartInv, OnePerProcess
  <1> QED BY <1>1, <1>2, <1>3, <1>4, <1>5, <1>6, <1>7, <1>8, <1>9, <1>10, <1>11 DEF Next

(* TypeInv holds in every reachable state. *)
LEMMA TypeInvariant == Spec => []TypeInv
  <1>1. TypeInv /\ [Next]_vars => TypeInv'
    BY NextType
  <1> QED BY <1>1, InitType, PTL DEF Spec

(* Each variable keeps its type; in particular a query returns one flow    *)
(* per process of the host, so that no flow of the result map is lost.     *)
THEOREM TypeCorrect == Spec => []TypeOK
  <1>1. TypeInv => TypeOK
    BY DEF TypeInv
  <1> QED BY <1>1, TypeInvariant, PTL

-----------------------------------------------------------------------------
(* What look shows *)

(* A flow in the CMDB was reported by a transaction that began in the past. *)
RowInv ==
  \A f \in Flow : updated[f] # Never => Reported(f) <= now

(* The flows that are due are in the window of the queries, and once a     *)
(* query was made it has shown their processes.                            *)
DueInv ==
  /\ pc \in {"start", "error"} => due = {}
  /\ \A f \in due :
       /\ updated[f] # Never
       /\ since # Never => since <= Reported(f)
       /\ until = Never /\ pc \in {"passive_query", "active_query"} =>
            limit \in Int /\ Reported(f) <= limit
       /\ until = Never /\ ZonesFit /\ pc \in {"active_now", "active_query", "done"} =>
            (Dst[f].addr = Addr => Shown(f, passive, Dst))
       /\ until = Never /\ ZonesFit /\ pc = "done" =>
            (Src[f].addr = Addr => Shown(f, active, Src))

ShowInv == RowInv /\ DueInv

(* Zones that fit turn the comparison of times into that of wall clocks. *)
LEMMA FitsWindow ==
  ASSUME TypeInv, ZonesFit, NEW f \in Flow, updated[f] # Never, limit \in Int,
         since # Never => since <= Reported(f), Reported(f) <= limit
  PROVE  InWindow(f)
  <1>1. /\ zone.cmdb \in Int /\ zone.look \in Int /\ updated[f] \in Int
        /\ since # Never => since \in Int
    BY TimeAssumption DEF TypeInv, TypeOK
  <1>2. updated[f] <= limit + zone.look
    BY <1>1 DEF Reported, ZonesFit
  <1>3. since # Never => since + zone.look <= updated[f]
    BY <1>1 DEF Reported, ZonesFit
  <1> QED BY <1>2, <1>3 DEF InWindow, WallClock

(* Every step keeps the due flows in sight. *)
LEMMA NextShow ==
  ASSUME TypeInv, ShowInv, [Next]_vars
  PROVE  ShowInv'
  <1>0. TypeOK /\ StartInv /\ RowInv /\ DueInv /\ now \in Nat
    BY TimeAssumption DEF TypeInv, ShowInv, TypeOK
  <1>1. CASE Tick
    <2>1. /\ now' = now + 1
          /\ UNCHANGED <<zone, updated, pc, due, since, until, limit, passive, active>>
      BY <1>1 DEF Tick, store
    <2>2. RowInv'
      <3> SUFFICES ASSUME NEW f \in Flow, updated[f] # Never
                   PROVE  updated[f] - zone.cmdb <= now + 1
        BY <2>1 DEF RowInv, Reported
      <3>1. updated[f] \in Int /\ zone.cmdb \in Int
        BY <1>0, TimeAssumption DEF TypeOK
      <3>2. updated[f] - zone.cmdb <= now
        BY <1>0 DEF RowInv, Reported
      <3> QED BY <1>0, <3>1, <3>2
    <2>3. DueInv'
      BY <1>0, <2>1 DEF DueInv, Shown, Reported, ZonesFit
    <2> QED BY <2>2, <2>3 DEF ShowInv
  <1>2. ASSUME NEW w \in Writer, Begin(w) PROVE ShowInv'
    BY <1>0, <1>2 DEF Begin, ShowInv, RowInv, DueInv, Shown, Reported, ZonesFit
  <1>3. ASSUME NEW w \in Writer, Commit(w) PROVE ShowInv'
    <2>1. /\ start[w] \in 0..now /\ zone.cmdb \in Int /\ now' = now /\ zone' = zone
          /\ \A f \in Flow : updated'[f] = IF f \in upserts[w] THEN start[w] + zone.cmdb
                                           ELSE updated[f]
      BY <1>0, <1>3, TimeAssumption DEF Commit, StartInv, End, TypeOK
    <2>2. RowInv'
      <3> SUFFICES ASSUME NEW f \in Flow, updated'[f] # Never
                   PROVE  updated'[f] - zone.cmdb <= now
        BY <2>1 DEF RowInv, Reported
      <3>1. CASE f \in upserts[w]
        BY <1>0, <2>1, <3>1
      <3>2. CASE f \notin upserts[w]
        BY <1>0, <2>1, <3>2 DEF RowInv, Reported
      <3> QED BY <3>1, <3>2
    <2>3. \A f \in due' : f \in due /\ updated'[f] = updated[f]
      BY <1>0, <1>3, <2>1 DEF Commit, TypeOK
    <2>4. UNCHANGED <<pc, since, until, limit, passive, active>>
      BY <1>3 DEF Commit, End
    <2>5. pc \notin {"start", "error"} \/ due' = {}
      BY <1>0, <2>3 DEF DueInv
    <2>6. DueInv'
      BY <1>0, <2>1, <2>3, <2>4, <2>5 DEF DueInv, Shown, Reported, ZonesFit
    <2> QED BY <2>2, <2>6 DEF ShowInv
  <1>4. ASSUME NEW w \in Writer, Rollback(w) PROVE ShowInv'
    BY <1>0, <1>4 DEF Rollback, End, ShowInv, RowInv, DueInv, Shown, Reported, ZonesFit
  <1>5. ASSUME NEW w \in Writer, NEW f \in Flow, Upsert(w, f) PROVE ShowInv'
    BY <1>0, <1>5 DEF Upsert, ShowInv, RowInv, DueInv, Shown, Reported, ZonesFit
  <1>6. ASSUME NEW depth, DepthError(depth) PROVE ShowInv'
    BY <1>0, <1>6 DEF DepthError, store, ShowInv, RowInv, DueInv, Shown, Reported, ZonesFit
  <1>7. ASSUME NEW depth, NEW s \in Times, NEW u \in Times, LookStart(depth, s, u)
        PROVE  ShowInv'
    <2>1. RowInv' /\ pc' = "passive_now" /\ updated' = updated /\ zone' = zone
      BY <1>0, <1>7 DEF LookStart, store, RowInv, Reported
    <2>2. ASSUME NEW f \in due'
          PROVE  updated'[f] # Never /\ (since' # Never => since' <= Reported(f)')
      BY <1>7, <2>1, <2>2 DEF LookStart, Reported
    <2> QED BY <2>1, <2>2 DEF ShowInv, DueInv
  <1>8. ASSUME SetUntil("passive_now", "passive_query") PROVE ShowInv'
    BY <1>0, <1>8 DEF SetUntil, store, ShowInv, RowInv, DueInv, TypeOK, Reported, ZonesFit
  <1>9. ASSUME SetUntil("active_now", "active_query") PROVE ShowInv'
    BY <1>0, <1>9 DEF SetUntil, store, ShowInv, RowInv, DueInv, TypeOK, Shown, Reported, ZonesFit
  <1>10. CASE FindPassiveFlows
    <2>1. /\ pc' = "active_now" /\ pc = "passive_query"
          /\ UNCHANGED <<now, zone, updated, due, since, until, limit, active>>
      BY <1>10 DEF FindPassiveFlows, store
    <2>2. ASSUME NEW f \in due, until = Never, ZonesFit, Dst[f].addr = Addr
          PROVE  Shown(f, passive', Dst)
      <3>1. f \in Flow /\ InWindow(f)
        BY <1>0, <2>1, <2>2, FitsWindow DEF DueInv, TypeOK
      <3> QED BY <1>10, <2>2, <3>1, DistinctOnResult DEF FindPassiveFlows
    <2> QED BY <1>0, <2>1, <2>2 DEF ShowInv, RowInv, DueInv, Shown, Reported, ZonesFit
  <1>11. CASE FindActiveFlows
    <2>1. /\ pc' = "done" /\ pc = "active_query"
          /\ UNCHANGED <<now, zone, updated, due, since, until, limit, passive>>
      BY <1>11 DEF FindActiveFlows, store
    <2>2. ASSUME NEW f \in due, until = Never, ZonesFit, Src[f].addr = Addr
          PROVE  Shown(f, active', Src)
      <3>1. f \in Flow /\ InWindow(f)
        BY <1>0, <2>1, <2>2, FitsWindow DEF DueInv, TypeOK
      <3> QED BY <1>11, <2>2, <3>1, DistinctOnResult DEF FindActiveFlows
    <2> QED BY <1>0, <2>1, <2>2 DEF ShowInv, RowInv, DueInv, Shown, Reported, ZonesFit
  <1>12. CASE UNCHANGED vars
    BY <1>0, <1>12 DEF vars, store, ShowInv, RowInv, DueInv, Shown, Reported, ZonesFit
  <1> QED BY <1>1, <1>2, <1>3, <1>4, <1>5, <1>6, <1>7, <1>8, <1>9, <1>10, <1>11, <1>12
          DEF Next

(* Whatever the agents commit while look runs, and however late, look      *)
(* shows every process of the address with a flow that was reported at or  *)
(* after --since and is left alone meanwhile, for any time zones that fit. *)
THEOREM LookShowsProcesses == Spec => []ProcessesShown
  <1>1. Init => ShowInv
    BY DEF Init, ShowInv, RowInv, DueInv
  <1>2. TypeInv /\ ShowInv /\ [Next]_vars => ShowInv'
    BY NextShow
  <1>3. ShowInv => ProcessesShown
    BY DEF ShowInv, DueInv, ProcessesShown
  <1> QED BY <1>1, <1>2, <1>3, TypeInvariant, PTL DEF Spec
=============================================================================
