-------------------------------- MODULE Look --------------------------------
(***************************************************************************)
(* shawk look: the two queries of command/look.go and db/db.go, beside the *)
(* transactions of the agents that keep the flows of the CMDB up to date.  *)
(*                                                                         *)
(* A flow is named by its two nodes; what its rows say about a node is in  *)
(* the constants.  CURRENT_TIMESTAMP (external: PostgreSQL) is the start   *)
(* of the transaction, not the time of its commit.  All clocks agree, but  *)
(* not the time zones they are set to: the column updated is a timestamp   *)
(* without a time zone, in the zone of the CMDB, and look compares it with *)
(* the wall clock of its own host.                                         *)
(***************************************************************************)
EXTENDS Integers, FiniteSets

CONSTANTS
  Flow,         \* the flows between the hosts
  Src, Dst,     \* Src[f], Dst[f]: addr, pname and pgid of f's nodes
  Addr,         \* --ipv4
  Ago,          \* durations of --since and --until
  MaxGraphDepth,
  Writer,       \* the agents
  Zone,         \* time zones, as offsets from UTC
  MaxTime,      \* bound on the clock
  Never         \* the zero time.Time

ASSUME TimeAssumption ==
  /\ Zone \subseteq Int /\ MaxTime \in Nat /\ Never \notin Int /\ Ago \subseteq Nat
  /\ IsFiniteSet(Flow)

VARIABLES
  zone,         \* the time zones of the CMDB and of look's host
  now,          \* the time (UTC)
  start,        \* start[w]: when w's transaction began
  upserts,      \* upserts[w]: the flows it has upserted
  updated,      \* updated[f]: the column of flow f's row
  pc,           \* the next step of shawk look
  due,          \* flows that were reported late enough for --since before it
                \*   began, and not again since
  since, until, \* the times it was given
  limit,        \* the upper bound of the next query
  passive,      \* the flows it has printed, with Addr as destination
  active        \* the flows it has printed, with Addr as source

store == <<zone, start, upserts, updated>>
vars == <<now, store, pc, due, since, until, limit, passive, active>>

-----------------------------------------------------------------------------
\* the model ends with shawk look
Running == pc \notin {"done", "error"}

Tick ==
  /\ Running /\ now < MaxTime
  /\ now' = now + 1
  /\ UNCHANGED <<store, pc, due, since, until, limit, passive, active>>

(* InsertOrUpdateHostFlows, as far as it concerns the flows table *)

Begin(w) ==
  /\ Running /\ start[w] = Never
  /\ start' = [start EXCEPT ![w] = now]
  /\ UNCHANGED <<now, zone, upserts, updated, pc, due, since, until, limit,
                 passive, active>>

Upsert(w, f) ==
  /\ Running /\ start[w] # Never
  /\ \A v \in Writer : f \notin upserts[v]
  /\ upserts' = [upserts EXCEPT ![w] = @ \cup {f}]
  /\ UNCHANGED <<now, zone, start, updated, pc, due, since, until, limit,
                 passive, active>>

End(w) ==
  /\ Running
  /\ start' = [start EXCEPT ![w] = Never]
  /\ upserts' = [upserts EXCEPT ![w] = {}]
  /\ UNCHANGED <<now, zone, pc, since, until, limit, passive, active>>

\* A COMMIT that was sent may take effect long after the 10 seconds: they only
\* end the agent's wait for it.
Commit(w) ==
  /\ start[w] # Never
  /\ updated' = [f \in Flow |-> IF f \in upserts[w] THEN start[w] + zone.cmdb
                                ELSE updated[f]]
  /\ due' = due \ upserts[w]
  /\ End(w)

Rollback(w) ==
  /\ start[w] # Never
  /\ UNCHANGED <<updated, due>>
  /\ End(w)

-----------------------------------------------------------------------------
(* shawk look *)

\* durationFromString: --since and --until say how long ago
Times == {Never} \cup {now - d : d \in Ago}

\* doLook
DepthError(depth) ==
  /\ pc = "start"
  /\ depth <= 0 \/ depth > MaxGraphDepth
  /\ pc' = "error"
  /\ UNCHANGED <<now, store, due, since, until, limit, passive, active>>

\* when the transaction began that reported f last
Reported(f) == updated[f] - zone.cmdb

\* Look; the depth is not used
LookStart(depth, s, u) ==
  /\ pc = "start"
  /\ 0 < depth /\ depth <= MaxGraphDepth
  /\ since' = s
  /\ until' = u
  /\ due' = {f \in Flow : updated[f] # Never /\ (s # Never => s <= Reported(f))}
  /\ pc' = "passive_now"
  /\ UNCHANGED <<now, store, limit, passive, active>>

\* if cond.Until.IsZero() { cond.Until = time.Now() }
SetUntil(from, to) ==
  /\ pc = from
  /\ limit' = IF until = Never THEN now ELSE until
  /\ pc' = to
  /\ UNCHANGED <<now, store, due, since, until, passive, active>>

MutWallClock(t) == t

\* pgtype.Timestamp: year to nanosecond of a time, in the zone of the host
WallClock(t) == t + zone.look

\* WHERE flows.updated BETWEEN $2 AND $3; rows only exist once committed, and
\* the zero time is before all of them
InWindow(f) ==
  /\ updated[f] # Never
  /\ since # Never => WallClock(since) <= updated[f]
  /\ updated[f] <= WallClock(limit)

MutDistinctOn(F, node) == {F}

\* DISTINCT ON (ipv4, pname) ... ORDER BY ipv4, pname, updated DESC: of each
\* group one of the latest
DistinctOn(F, node) ==
  LET Same(f, g) == node[f].addr = node[g].addr /\ node[f].pname = node[g].pname
      Latest(f) == \A g \in F : Same(f, g) => updated[g] <= updated[f]
  IN  {R \in SUBSET {f \in F : Latest(f)} :
         \A f \in F : Cardinality({g \in R : Same(f, g)}) = 1}

FindPassiveFlows ==
  /\ pc = "passive_query"
  /\ passive' \in DistinctOn({f \in Flow : Dst[f].addr = Addr /\ InWindow(f)}, Dst)
  /\ pc' = "active_now"
  /\ UNCHANGED <<now, store, due, since, until, limit, active>>

FindActiveFlows ==
  /\ pc = "active_query"
  /\ active' \in DistinctOn({f \in Flow : Src[f].addr = Addr /\ InWindow(f)}, Src)
  /\ pc' = "done"
  /\ UNCHANGED <<now, store, due, since, until, limit, passive>>

-----------------------------------------------------------------------------
Init ==
  /\ zone \in [cmdb : Zone, look : Zone]
  /\ now = 0
  /\ start = [w \in Writer |-> Never]
  /\ upserts = [w \in Writer |-> {}]
  /\ updated = [f \in Flow |-> Never]
  /\ pc = "start"
  /\ due = {} /\ since = Never /\ until = Never /\ limit = Never
  /\ passive = {} /\ active = {}

Next ==
  \/ Tick
  \/ \E w \in Writer : Begin(w) \/ Commit(w) \/ Rollback(w)
  \/ \E w \in Writer, f \in Flow : Upsert(w, f)
  \/ \E depth \in 0..(MaxGraphDepth + 1) :
       DepthError(depth) \/ \E s, u \in Times : LookStart(depth, s, u)
  \/ SetUntil("passive_now", "passive_query")
  \/ FindPassiveFlows
  \/ SetUntil("active_now", "active_query")
  \/ FindActiveFlows

Spec == Init /\ [][Next]_vars

-----------------------------------------------------------------------------
OnePerProcess(F, node) ==
  \A f, g \in F :
    node[f].addr = node[g].addr /\ node[f].pname = node[g].pname => f = g

(* Type invariant; in particular a query returns one flow per process, so  *)
(* that the key of the result map has one flow (db.go:381-382).            *)
TypeOK ==
  /\ zone \in [cmdb : Zone, look : Zone]
  /\ now \in 0..MaxTime
  /\ start \in [Writer -> (0..MaxTime) \cup {Never}]
  /\ upserts \in [Writer -> SUBSET Flow]
  /\ updated \in [Flow -> Int \cup {Never}]
  /\ due \subseteq Flow
  /\ {since, until} \subseteq Int \cup {Never}
  /\ passive \subseteq Flow /\ OnePerProcess(passive, Dst)
  /\ active \subseteq Flow /\ OnePerProcess(active, Src)

Shown(f, F, node) ==
  \E g \in F : node[g].addr = node[f].addr /\ node[g].pname = node[f].pname

\* the wall clock of look's host is not behind that of the CMDB, nor ahead of it
\* if there is a --since
ZonesFit ==
  zone.cmdb <= zone.look /\ (since # Never => zone.look <= zone.cmdb)

(* Without --until look shows every process of the address with a flow in  *)
(* the CMDB that was reported at or after --since and is left alone while  *)
(* look runs, although the flow carries the time at which its transaction  *)
(* began and each query has a time of its own for its end; provided that   *)
(* the time zones fit, which nothing in the code sees to (db.go:74,        *)
(* 320-322, 333-354; look.go:51-57).                                       *)
ProcessesShown ==
  pc = "done" /\ until = Never /\ ZonesFit =>
    \A f \in due :
      /\ Dst[f].addr = Addr => Shown(f, passive, Dst)
      /\ Src[f].addr = Addr => Shown(f, active, Src)
=============================================================================
