------------------------------ MODULE CmdbConn ------------------------------
(***************************************************************************)
(* InsertOrUpdateHostFlows over the one pgx connection of db.DB, called by *)
(* goroutines that may overlap: flush of agent/polling is started on every *)
(* tick and does not wait for the flush before it.                         *)
(*                                                                         *)
(* A call is begin, a number of statements, commit, and a deferred         *)
(* rollback, each with the call's 10 second context.  The connection (pgx, *)
(* pgconn) has a status, a context watcher and a result reader that all    *)
(* commands share and that are read and set without synchronisation; it is *)
(* never opened again.  The server keeps one transaction per connection,   *)
(* whoever began it.  What the statements are about is the module Cmdb's   *)
(* subject; here the k-th statement of a call writes its k-th row.         *)
(*                                                                         *)
(* Two commands whose steps mix on the connection may read each other's    *)
(* answers, leave a watcher behind or wait for ever.  The model ends where *)
(* that begins, with raced, and its properties say nothing about the rest. *)
(***************************************************************************)
EXTENDS Naturals

CONSTANTS
  Caller,       \* goroutines that call InsertOrUpdateHostFlows
  Stmts,        \* statements of a call
  MaxCalls      \* bound on the calls of all callers

ASSUME BoundsAssumption == Stmts \in Nat \ {0} /\ MaxCalls \in Nat

VARIABLES
  conn,         \* pgconn: its status, whether its context watcher watches,
                \* and whether the network connection is up
  srv,          \* the server: transaction, its rows, the committed rows
  pc,           \* pc[g]: the command that caller g is at
  at,           \* at[g]: how far it is with it
  res,          \* res[g]: the result of its command
  row,          \* row[g]: its next statement
  calls,        \* calls so far
  id,           \* id[g]: the number of its call
  expired,      \* expired[g]: the context of its call is done
  results,      \* what the calls returned
  overlapped,   \* calls during which another was running
  fault,        \* a connection issue, a timeout or a shutdown has happened
  panicked,     \* the process has panicked
  raced         \* the steps of two commands have mixed

call == <<pc, row, calls, id, expired, results, overlapped>>
vars == <<conn, srv, pc, at, res, row, calls, id, expired, results, overlapped, fault,
          panicked, raced>>

Rows(i) == {<<i, k>> : k \in 1..Stmts}
Running == {g \in Caller : pc[g] # "idle"}
Alive == ~panicked /\ ~raced

Init ==
  /\ conn = [status |-> "idle", watch |-> FALSE, up |-> TRUE]
  /\ srv = [tx |-> "none", rows |-> {}, stored |-> {}]
  /\ pc = [g \in Caller |-> "idle"]
  /\ at = [g \in Caller |-> "call"]
  /\ res = [g \in Caller |-> "ok"]
  /\ row = [g \in Caller |-> 1]
  /\ calls = 0
  /\ id = [g \in Caller |-> 0]
  /\ expired = [g \in Caller |-> FALSE]
  /\ results = {}
  /\ overlapped = {}
  /\ fault = FALSE
  /\ panicked = FALSE
  /\ raced = FALSE

-----------------------------------------------------------------------------
(* The server *)

\* the outcomes of caller g's command, each a server state and a result
Outcomes(g) ==
  LET ok(s) == [srv |-> s, res |-> "ok"]
      error(s) == [srv |-> s, res |-> "error"]
      end == [srv EXCEPT !.tx = "none", !.rows = {}]
      r == <<id[g], row[g]>>
  IN  CASE pc[g] = "begin" ->
             \* inside a transaction begin is only warned about
             {IF srv.tx = "aborted" THEN error(srv)
              ELSE ok([srv EXCEPT !.tx = "open"])}
        [] pc[g] = "stmt" ->
             (CASE srv.tx = "none" ->
                     {ok([srv EXCEPT !.stored = @ \cup {r}]), error(srv)}
                [] srv.tx = "open" ->
                     {ok([srv EXCEPT !.rows = @ \cup {r}]),
                      error([srv EXCEPT !.tx = "aborted"])}
                [] srv.tx = "aborted" -> {error(srv)})
        [] pc[g] = "commit" ->
             \* outside a transaction commit is only warned about; an aborted
             \* transaction is rolled back, and the tag says so
             {IF srv.tx = "aborted" THEN [srv |-> end, res |-> "rolledback"]
              ELSE ok([end EXCEPT !.stored = @ \cup srv.rows])}
        [] pc[g] = "rollback" -> {ok(end)}

Discard(s) == [s EXCEPT !.tx = "none", !.rows = {}]

\* The connection goes down: the server may still do the command it was sent,
\* and then discards the transaction.
Cut ==
  IF ~conn.up THEN {srv}
  ELSE {Discard(s) :
          s \in {srv} \cup UNION {{o.srv : o \in Outcomes(g)} :
                                    g \in {h \in Running : at[h] \in {"sent", "failed"}}}}

-----------------------------------------------------------------------------
(* InsertOrUpdateHostFlows *)

MutEnter(g) ==
  /\ Alive /\ pc[g] = "idle" /\ calls < MaxCalls
  /\ pc' = [pc EXCEPT ![g] = "stmt"]
  /\ calls' = calls + 1
  /\ id' = [id EXCEPT ![g] = calls']
  /\ overlapped' = overlapped \cup
       IF Running = {} THEN {} ELSE {calls'} \cup {id[h] : h \in Running}
  /\ UNCHANGED <<conn, srv, at, res, row, expired, results, fault, panicked, raced>>

Enter(g) ==
  /\ Alive /\ pc[g] = "idle" /\ calls < MaxCalls
  /\ pc' = [pc EXCEPT ![g] = "begin"]
  /\ calls' = calls + 1
  /\ id' = [id EXCEPT ![g] = calls']
  /\ overlapped' = overlapped \cup
       IF Running = {} THEN {} ELSE {calls'} \cup {id[h] : h \in Running}
  /\ UNCHANGED <<conn, srv, at, res, row, expired, results, fault, panicked, raced>>

MutFollowingRow(g) ==
  CASE pc[g] = "begin" -> IF res[g] = "ok" THEN "stmt" ELSE "idle"
    [] pc[g] = "stmt" -> IF res[g] # "ok" THEN "rollback"
                         ELSE IF row[g] <= Stmts THEN "stmt" ELSE "commit"
    [] OTHER -> "idle"

MutFollowing(g) ==
  CASE pc[g] = "begin" -> IF res[g] = "ok" THEN "stmt" ELSE "idle"
    [] pc[g] = "stmt" -> IF res[g] # "ok" THEN "idle"
                         ELSE IF row[g] < Stmts THEN "stmt" ELSE "commit"
    [] OTHER -> "idle"

\* what follows caller g's command, given its result; a failed statement runs
\* the deferred rollback, which does nothing once commit was called
Following(g) ==
  CASE pc[g] = "begin" -> IF res[g] = "ok" THEN "stmt" ELSE "idle"
    [] pc[g] = "stmt" -> IF res[g] # "ok" THEN "rollback"
                         ELSE IF row[g] < Stmts THEN "stmt" ELSE "commit"
    [] OTHER -> "idle"

\* the command of caller g has returned; the end of a call cancels its context
Proceed(g) ==
  LET next == Following(g)
  IN  /\ pc' = [pc EXCEPT ![g] = next]
      /\ at' = [at EXCEPT ![g] = "call"]
      /\ res' = [res EXCEPT ![g] = "ok"]
      /\ row' = [row EXCEPT ![g] = IF pc[g] = "stmt" /\ next = "stmt" THEN @ + 1 ELSE 1]
      /\ id' = [id EXCEPT ![g] = IF next = "idle" THEN 0 ELSE @]
      /\ expired' = [expired EXCEPT ![g] = @ /\ next # "idle"]
      /\ results' = IF next # "idle" THEN results
                    ELSE results \cup
                      {<<id[g], IF pc[g] = "commit" /\ res[g] = "ok" THEN "nil"
                                ELSE "error">>}
      /\ UNCHANGED <<calls, overlapped, fault>>

MutDies(g) == res[g] = "error" /\ conn.status # "closed"

\* begin, commit and rollback that fail close the connection
Dies(g) == res[g] = "error" /\ pc[g] # "stmt" /\ conn.status # "closed"

InFlight == {g \in Running : at[g] \in {"busy", "watch", "sent", "failed", "done"}}

Return(g) ==
  /\ Alive /\ at[g] = "return" /\ ~Dies(g)
  /\ Proceed(g)
  /\ UNCHANGED <<conn, srv, panicked, raced>>

\* conn.die; the watcher panics if it is watching a command of another caller
Die(g) ==
  /\ Alive /\ at[g] = "return" /\ Dies(g)
  /\ conn' = [conn EXCEPT !.status = "closed", !.up = FALSE]
  /\ panicked' = conn.watch
  /\ raced' = (~conn.watch /\ InFlight # {})
  /\ IF panicked' \/ raced' THEN UNCHANGED <<srv, at, res, call, fault>>
     ELSE srv' = Discard(srv) /\ Proceed(g)

-----------------------------------------------------------------------------
(* A command of a caller on the connection *)

\* Prepared statements and the answers of all commands are read with one and
\* the same reader.  Caller g writes to it: who else is using it may not notice.
Touch(g) ==
  /\ raced' \in BOOLEAN
  /\ raced' => \E h \in Running \ {g} :
                 at[h] = "sent" \/ (pc[h] = "stmt" /\ at[h] # "call")

\* a statement resets the reader before it locks the connection
TouchIfStmt(g) == IF pc[g] = "stmt" THEN Touch(g) ELSE UNCHANGED raced

\* lock reads a status other than idle
LockError(g) ==
  /\ Alive /\ g \in Running /\ at[g] = "call" /\ conn.status # "idle"
  /\ at' = [at EXCEPT ![g] = "return"]
  /\ res' = [res EXCEPT ![g] = "error"]
  /\ TouchIfStmt(g)
  /\ UNCHANGED <<conn, srv, call, fault, panicked>>

\* lock reads idle
LockRead(g) ==
  /\ Alive /\ g \in Running /\ at[g] = "call" /\ conn.status = "idle"
  /\ at' = [at EXCEPT ![g] = "lock"]
  /\ TouchIfStmt(g)
  /\ UNCHANGED <<conn, srv, res, call, fault, panicked>>

\* lock sets busy, whatever the status is by now
Lock(g) ==
  /\ Alive /\ at[g] = "lock"
  /\ IF conn.status = "idle"
     THEN /\ conn' = [conn EXCEPT !.status = "busy"]
          /\ at' = [at EXCEPT ![g] = "busy"]
          /\ UNCHANGED raced
     ELSE raced' = TRUE /\ UNCHANGED <<conn, at>>
  /\ UNCHANGED <<srv, res, call, fault, panicked>>

\* unlock panics if the connection is not locked
Unlock ==
  IF conn.status = "idle" THEN panicked' = TRUE /\ UNCHANGED conn
  ELSE /\ conn' = [conn EXCEPT !.status = IF @ = "busy" THEN "idle" ELSE @]
       /\ UNCHANGED panicked

\* nothing is sent if the context is done already
ContextAlreadyDone(g) ==
  /\ Alive /\ at[g] = "busy" /\ expired[g]
  /\ Unlock
  /\ at' = [at EXCEPT ![g] = "return"]
  /\ res' = [res EXCEPT ![g] = "error"]
  /\ TouchIfStmt(g)
  /\ UNCHANGED <<srv, call, fault>>

\* Watch reads whether a watch is in progress
Watch(g) ==
  /\ Alive /\ at[g] = "busy" /\ ~expired[g]
  /\ IF conn.watch THEN panicked' = TRUE /\ UNCHANGED at
     ELSE at' = [at EXCEPT ![g] = "watch"] /\ UNCHANGED panicked
  /\ UNCHANGED <<conn, srv, res, call, fault, raced>>

\* Watch says that one is, and the command is written
Send(g) ==
  /\ Alive /\ at[g] = "watch"
  /\ conn' = [conn EXCEPT !.watch = TRUE]
  /\ at' = [at EXCEPT ![g] = "sent"]
  /\ UNCHANGED <<srv, res, call, fault, panicked, raced>>

\* the answer arrives, and Unwatch
Answer(g) ==
  /\ Alive /\ at[g] = "sent" /\ conn.up
  /\ \E o \in Outcomes(g) : srv' = o.srv /\ res' = [res EXCEPT ![g] = o.res]
  /\ conn' = [conn EXCEPT !.watch = FALSE]
  /\ at' = [at EXCEPT ![g] = "done"]
  /\ Touch(g)
  /\ UNCHANGED <<call, fault, panicked>>

Done(g) ==
  /\ Alive /\ at[g] = "done"
  /\ Unlock
  /\ at' = [at EXCEPT ![g] = "return"]
  /\ UNCHANGED <<srv, res, call, fault, raced>>

MutBroken(g) ==
  /\ Alive /\ at[g] = "sent" /\ ~conn.up
  /\ conn' = [conn EXCEPT !.watch = FALSE]
  /\ at' = [at EXCEPT ![g] = "failed"]
  /\ Touch(g)
  /\ UNCHANGED <<srv, res, call, fault, panicked>>

\* Writing the command or reading its answer fails, because the connection is
\* down, Shutdown reads from it as well, or the context is done; and Unwatch
\* (which comes after AsyncClose if it was the writing)
Broken(g) ==
  /\ Alive /\ at[g] = "sent" /\ (~conn.up \/ conn.status = "closed" \/ expired[g])
  /\ conn' = [conn EXCEPT !.watch = FALSE]
  /\ at' = [at EXCEPT ![g] = "failed"]
  /\ Touch(g)
  /\ UNCHANGED <<srv, res, call, fault, panicked>>

AsyncClose(g) ==
  /\ Alive /\ at[g] = "failed"
  /\ conn' = [conn EXCEPT !.status = "closed", !.up = FALSE]
  /\ srv' \in Cut
  /\ at' = [at EXCEPT ![g] = "return"]
  /\ res' = [res EXCEPT ![g] = "error"]
  /\ UNCHANGED <<call, fault, panicked, raced>>

-----------------------------------------------------------------------------
(* Faults *)

\* the 10 seconds of a call are over
Expire(g) ==
  /\ Alive /\ g \in Running /\ ~expired[g]
  /\ expired' = [expired EXCEPT ![g] = TRUE]
  /\ fault' = TRUE
  /\ UNCHANGED <<conn, srv, pc, at, res, row, calls, id, results, overlapped, panicked,
                 raced>>

\* the server or the network fails
Disconnect ==
  /\ Alive /\ conn.up
  /\ conn' = [conn EXCEPT !.up = FALSE]
  /\ srv' \in Cut
  /\ fault' = TRUE
  /\ UNCHANGED <<at, res, call, panicked, raced>>

\* agent.Wait closes the connection, whoever is using it; the server takes
\* its time to go
Shutdown ==
  /\ Alive /\ conn.status # "closed"
  /\ conn' = [conn EXCEPT !.status = "closed"]
  /\ fault' = TRUE
  /\ UNCHANGED <<srv, at, res, call, panicked, raced>>

-----------------------------------------------------------------------------
\* what a caller does by itself; the server may never answer
Step(g) ==
  \/ LockError(g) \/ LockRead(g) \/ Lock(g)
  \/ ContextAlreadyDone(g)
  \/ Watch(g) \/ Send(g)
  \/ Done(g)
  \/ Broken(g) \/ AsyncClose(g)
  \/ Return(g) \/ Die(g)

Next ==
  \/ \E g \in Caller : Enter(g) \/ Step(g) \/ Answer(g) \/ Expire(g)
  \/ Disconnect
  \/ Shutdown

Spec == Init /\ [][Next]_vars

(* A runnable goroutine is scheduled and a timer expires.  Nothing makes   *)
(* the server answer: it may be waiting for a lock that another agent's    *)
(* transaction holds.                                                      *)
FairSpec == Spec /\ \A g \in Caller : WF_vars(Step(g)) /\ WF_vars(Expire(g))

-----------------------------------------------------------------------------
(* Type invariant.                                                         *)
TypeOK ==
  /\ conn \in [status : {"idle", "busy", "closed"}, watch : BOOLEAN, up : BOOLEAN]
  /\ srv \in [tx : {"none", "open", "aborted"}, rows : SUBSET (Nat \X Nat),
              stored : SUBSET (Nat \X Nat)]
  /\ pc \in [Caller -> {"idle", "begin", "stmt", "commit", "rollback"}]
  /\ at \in [Caller -> {"call", "lock", "busy", "watch", "sent", "failed", "done",
                        "return"}]
  /\ res \in [Caller -> {"ok", "error", "rolledback"}]
  /\ row \in [Caller -> 1..Stmts]
  /\ calls \in 0..MaxCalls
  /\ id \in [Caller -> 0..calls]
  /\ expired \in [Caller -> BOOLEAN]
  /\ results \subseteq Nat \X {"nil", "error"}
  /\ overlapped \subseteq 1..calls
  /\ fault \in BOOLEAN /\ panicked \in BOOLEAN /\ raced \in BOOLEAN

(* However calls take turns on the connection, fail and time out, the last *)
(* one to return leaves it closed, or free and without a transaction that  *)
(* later calls would run in, unless two commands have raced (db.go:142-146, *)
(* 275; pgconn.go:548-569).                                                *)
CleanWhenIdle ==
  Running = {} /\ Alive =>
    \/ conn.status = "closed"
    \/ conn.status = "idle" /\ ~conn.watch /\ srv.tx = "none" /\ srv.rows = {}

(* A call that overlaps no other stores all of its rows or none, and all   *)
(* of them if it returns nil, faults notwithstanding, unless commands of   *)
(* others have raced.  (After an error all of them may be stored: the      *)
(* commit that timed out.)  (db.go:139-146, 275)                           *)
AllOrNothing ==
  ~raced =>
    \A i \in 1..calls \ overlapped :
      /\ srv.stored \cap Rows(i) \in {{}, Rows(i)}
      /\ <<i, "nil">> \in results => Rows(i) \subseteq srv.stored

(* As long as calls do not overlap, neither a failing statement nor        *)
(* anything else but a fault costs the connection, panics or lets commands *)
(* race (db.go:142-146, 275).                                              *)
SerialCallsKeepConn ==
  conn.status = "closed" \/ panicked \/ raced => fault \/ overlapped # {}

(* Every call returns (or the process panics), even if the server never    *)
(* answers, as when two agents' transactions wait for each other's rows:   *)
(* its context ends it, unless commands have raced (db.go:139, 218-249).   *)
EveryCallReturns ==
  \A g \in Caller : pc[g] # "idle" ~> pc[g] = "idle" \/ ~Alive

(* "begin should never fail unless there is an underlying connection issue *)
(* or a context timeout" (pgx/v4/tx.go:79): without one no caller loses    *)
(* the connection.                                                         *)
OnlyFaultsCloseConn == conn.status = "closed" \/ panicked => fault
=============================================================================
