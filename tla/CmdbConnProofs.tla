--------------------------- MODULE CmdbConnProofs ---------------------------
(***************************************************************************)
(* Proofs about calls of InsertOrUpdateHostFlows over one connection, for  *)
(* any number of callers, calls and statements.                            *)
(***************************************************************************)
EXTENDS CmdbConn, TLAPS

-----------------------------------------------------------------------------
(* Results and server states *)

Srv == [tx : {"none", "open", "aborted"}, rows : SUBSET (Nat \X Nat),
        stored : SUBSET (Nat \X Nat)]
ConnState == [status : {"idle", "busy", "closed"}, watch : BOOLEAN, up : BOOLEAN]
Command == {"idle", "begin", "stmt", "commit", "rollback"}
Place == {"call", "lock", "busy", "watch", "sent", "failed", "done", "return"}
Result == {"ok", "error", "rolledback"}

(* TypeOK is inductive together with the number of a running call and the  *)
(* place of a goroutine that runs none.                                    *)
TypeInv ==
  /\ TypeOK
  /\ \A g \in Caller : /\ pc[g] # "idle" => id[g] \in 1..calls
                       /\ pc[g] = "idle" => at[g] = "call"

(* What TypeInv says of the parts. *)
LEMMA Typed ==
  ASSUME TypeInv
  PROVE  /\ conn \in ConnState /\ srv \in Srv /\ pc \in [Caller -> Command]
         /\ at \in [Caller -> Place] /\ res \in [Caller -> Result]
         /\ \A g \in Caller : at[g] # "call" => g \in Running
         /\ \A g \in Running : /\ g \in Caller /\ id[g] \in 1..calls
                               /\ pc[g] \in {"begin", "stmt", "commit", "rollback"}
         /\ row \in [Caller -> 1..Stmts] /\ calls \in Nat
  BY BoundsAssumption
     DEF TypeInv, TypeOK, ConnState, Srv, Command, Place, Result, Running

(* begin opens a transaction, or fails in an aborted one. *)
LEMMA BeginOutcome ==
  ASSUME NEW g \in Caller, pc[g] = "begin", srv \in Srv, NEW o \in Outcomes(g)
  PROVE  /\ o.srv \in Srv /\ o.srv.rows = srv.rows /\ o.srv.stored = srv.stored
         /\ \/ srv.tx = "aborted" /\ o.srv = srv /\ o.res = "error"
            \/ srv.tx # "aborted" /\ o.srv.tx = "open" /\ o.res = "ok"
  <1>1. Outcomes(g) = {IF srv.tx = "aborted" THEN [srv |-> srv, res |-> "error"]
                       ELSE [srv |-> [srv EXCEPT !.tx = "open"], res |-> "ok"]}
    BY DEF Outcomes
  <1>2. CASE srv.tx = "aborted"
    BY <1>1, <1>2
  <1>3. CASE srv.tx # "aborted"
    BY <1>1, <1>3 DEF Srv
  <1> QED BY <1>2, <1>3

(* A statement writes its row into the transaction, or stores it at once   *)
(* outside of one; if it fails it aborts the transaction.                  *)
LEMMA StmtOutcome ==
  ASSUME NEW g \in Caller, pc[g] = "stmt", srv \in Srv, <<id[g], row[g]>> \in Nat \X Nat,
         NEW o \in Outcomes(g)
  PROVE  /\ o.srv \in Srv /\ o.res \in {"ok", "error"}
         /\ srv.tx = "none" =>
              /\ o.srv.tx = "none" /\ o.srv.rows = srv.rows
              /\ o.srv.stored \in {srv.stored, srv.stored \cup {<<id[g], row[g]>>}}
         /\ srv.tx # "none" => o.srv.tx # "none" /\ o.srv.stored = srv.stored
         /\ srv.tx # "none" /\ o.res = "ok" =>
              /\ srv.tx = "open" /\ o.srv.tx = "open"
              /\ o.srv.rows = srv.rows \cup {<<id[g], row[g]>>}
         /\ o.res = "error" => o.srv.rows = srv.rows /\ o.srv.stored = srv.stored
  <1> DEFINE r == <<id[g], row[g]>>
  <1>1. CASE srv.tx = "none"
    <2>1. Outcomes(g) = {[srv |-> [srv EXCEPT !.stored = @ \cup {r}], res |-> "ok"],
                         [srv |-> srv, res |-> "error"]}
      BY <1>1 DEF Outcomes
    <2> HIDE DEF r
    <2>2. r \in Nat \X Nat
      BY DEF r
    <2>3. CASE o = [srv |-> [srv EXCEPT !.stored = @ \cup {r}], res |-> "ok"]
      <3>1. o.srv = [srv EXCEPT !.stored = @ \cup {r}] /\ o.res = "ok"
        BY <2>3
      <3> QED BY <1>1, <2>2, <3>1 DEF Srv, r
    <2>4. CASE o = [srv |-> srv, res |-> "error"]
      BY <1>1, <2>4
    <2> QED BY <2>1, <2>3, <2>4
  <1>2. CASE srv.tx = "open"
    <2>1. Outcomes(g) = {[srv |-> [srv EXCEPT !.rows = @ \cup {r}], res |-> "ok"],
                         [srv |-> [srv EXCEPT !.tx = "aborted"], res |-> "error"]}
      BY <1>2 DEF Outcomes
    <2> HIDE DEF r
    <2>2. r \in Nat \X Nat
      BY DEF r
    <2>3. CASE o = [srv |-> [srv EXCEPT !.rows = @ \cup {r}], res |-> "ok"]
      <3>1. o.srv = [srv EXCEPT !.rows = @ \cup {r}] /\ o.res = "ok"
        BY <2>3
      <3> QED BY <1>2, <2>2, <3>1 DEF Srv, r
    <2>4. CASE o = [srv |-> [srv EXCEPT !.tx = "aborted"], res |-> "error"]
      BY <1>2, <2>4 DEF Srv
    <2> QED BY <2>1, <2>3, <2>4
  <1>3. CASE srv.tx = "aborted"
    <2>1. Outcomes(g) = {[srv |-> srv, res |-> "error"]}
      BY <1>3 DEF Outcomes
    <2> QED BY <1>3, <2>1
  <1> QED BY <1>1, <1>2, <1>3 DEF Srv

(* Discarding the transaction leaves what is stored. *)
LEMMA Discarded ==
  ASSUME NEW s \in Srv
  PROVE  /\ Discard(s) \in Srv /\ Discard(s).tx = "none" /\ Discard(s).rows = {}
         /\ Discard(s).stored = s.stored
  BY DEF Srv, Discard

(* commit stores the rows of the transaction unless it was aborted, and    *)
(* ends it.                                                                *)
LEMMA CommitOutcome ==
  ASSUME NEW g \in Caller, pc[g] = "commit", srv \in Srv, NEW o \in Outcomes(g)
  PROVE  /\ o.srv \in Srv /\ o.srv.tx = "none" /\ o.srv.rows = {}
         /\ \/ srv.tx = "aborted" /\ o.res = "rolledback" /\ o.srv.stored = srv.stored
            \/ /\ srv.tx # "aborted" /\ o.res = "ok"
               /\ o.srv.stored = srv.stored \cup srv.rows
  <1>1. PICK e \in Srv : e = Discard(srv)
    BY Discarded
  <1>2. e.tx = "none" /\ e.rows = {} /\ e.stored = srv.stored
    BY <1>1, Discarded
  <1>3. CASE srv.tx = "aborted"
    <2>1. Outcomes(g) = {[srv |-> e, res |-> "rolledback"]}
      BY <1>1, <1>3 DEF Outcomes, Discard
    <2> QED BY <1>2, <1>3, <2>1
  <1>4. CASE srv.tx # "aborted"
    <2>1. Outcomes(g) = {[srv |-> [e EXCEPT !.stored = @ \cup srv.rows], res |-> "ok"]}
      BY <1>1, <1>4 DEF Outcomes, Discard
    <2>2. o.srv = [e EXCEPT !.stored = @ \cup srv.rows] /\ o.res = "ok"
      BY <2>1
    <2> QED BY <1>2, <1>4, <2>2 DEF Srv
  <1> QED BY <1>3, <1>4

(* rollback ends the transaction. *)
LEMMA RollbackOutcome ==
  ASSUME NEW g \in Caller, pc[g] = "rollback", NEW o \in Outcomes(g)
  PROVE  o.res = "ok" /\ o.srv = Discard(srv)
  BY DEF Outcomes, Discard

(* What a command leaves has its type. *)
LEMMA OutcomeType ==
  ASSUME NEW g \in Running, TypeInv, NEW o \in Outcomes(g)
  PROVE  o.srv \in Srv /\ o.res \in Result
  <1>0. /\ g \in Caller /\ srv \in Srv /\ <<id[g], row[g]>> \in Nat \X Nat
        /\ pc[g] \in {"begin", "stmt", "commit", "rollback"}
    BY Typed, BoundsAssumption
  <1>1. CASE pc[g] = "begin"
    BY <1>0, <1>1, BeginOutcome DEF Result
  <1>2. CASE pc[g] = "stmt"
    BY <1>0, <1>2, StmtOutcome DEF Result
  <1>3. CASE pc[g] = "commit"
    BY <1>0, <1>3, CommitOutcome DEF Result
  <1>4. CASE pc[g] = "rollback"
    BY <1>0, <1>4, RollbackOutcome, Discarded DEF Result
  <1> QED BY <1>0, <1>1, <1>2, <1>3, <1>4

(* The server does the command of caller g, and loses the connection or    *)
(* not.                                                                    *)
Does(g, s) == \E o \in Outcomes(g) : s.stored = o.srv.stored

(* A connection that goes down leaves no transaction; what is stored was   *)
(* stored before, or by the command that was sent.                         *)
LEMMA CutOutcome ==
  ASSUME TypeInv, NEW s \in Cut
  PROVE  /\ s \in Srv /\ (s = srv \/ (s.tx = "none" /\ s.rows = {}))
         /\ conn.up => s.tx = "none" /\ s.rows = {}
         /\ \/ s.stored = srv.stored
            \/ /\ conn.up
               /\ \E g \in Running : at[g] \in {"sent", "failed"} /\ Does(g, s)
  <1>0. srv \in Srv
    BY Typed
  <1>1. CASE ~conn.up
    BY <1>0, <1>1 DEF Cut
  <1>2. CASE conn.up
    <2>1. PICK z \in {srv} \cup UNION {{o.srv : o \in Outcomes(g)} :
                         g \in {h \in Running : at[h] \in {"sent", "failed"}}} :
            s = Discard(z)
      BY <1>2 DEF Cut
    <2>2. CASE z = srv
      BY <1>0, <2>1, <2>2, Discarded
    <2>3. CASE z # srv
      <3>0. PICK g \in Running : /\ at[g] \in {"sent", "failed"}
                                 /\ \E o \in Outcomes(g) : z = o.srv
        BY <2>1, <2>3
      <3>1. PICK o \in Outcomes(g) : z = o.srv
        BY <3>0
      <3>2. z \in Srv
        BY <3>1, OutcomeType
      <3> QED BY <1>2, <2>1, <3>0, <3>1, <3>2, Discarded DEF Does
    <2> QED BY <2>2, <2>3
  <1> QED BY <1>1, <1>2

-----------------------------------------------------------------------------
(* The steps of a caller *)

(* What follows a command, by the command. *)
LEMMA FollowingCases ==
  ASSUME NEW g \in Running, TypeInv
  PROVE  /\ pc[g] = "begin" => Following(g) = IF res[g] = "ok" THEN "stmt" ELSE "idle"
         /\ pc[g] = "stmt" => Following(g) = IF res[g] # "ok" THEN "rollback"
                                ELSE IF row[g] < Stmts THEN "stmt" ELSE "commit"
         /\ pc[g] \in {"commit", "rollback"} => Following(g) = "idle"
         /\ Following(g) \in {"idle", "stmt", "commit", "rollback"}
  <1>1. pc[g] \in {"begin", "stmt", "commit", "rollback"}
    BY Typed
  <1> QED BY <1>1 DEF Following

(* A caller that moves on leaves the others where they are. *)
LEMMA Moved ==
  ASSUME TypeInv, NEW g \in Running, NEW x \in Place, at' = [at EXCEPT ![g] = x],
         pc' = pc
  PROVE  /\ at' \in [Caller -> Place] /\ at'[g] = x
         /\ \A h \in Caller \ {g} : at'[h] = at[h]
         /\ Running' = Running
         /\ InFlight' = IF x \in {"busy", "watch", "sent", "failed", "done"}
                        THEN InFlight \cup {g} ELSE InFlight \ {g}
  <1>1. g \in Caller /\ at \in [Caller -> Place]
    BY Typed
  <1>2. /\ at' \in [Caller -> Place] /\ at'[g] = x
        /\ \A h \in Caller \ {g} : at'[h] = at[h]
    BY <1>1
  <1>3. Running' = Running
    BY DEF Running
  <1>4. Running \subseteq Caller
    BY DEF Running
  <1> QED BY <1>2, <1>3, <1>4 DEF InFlight

(* A command that has returned. *)
LEMMA Proceeded ==
  ASSUME TypeInv, NEW g \in Running, at[g] = "return", Proceed(g)
  PROVE  /\ pc' \in [Caller -> Command] /\ pc'[g] = Following(g)
         /\ at' \in [Caller -> Place] /\ at'[g] = "call" /\ res'[g] = "ok"
         /\ \A h \in Caller \ {g} : /\ pc'[h] = pc[h] /\ at'[h] = at[h]
                                    /\ res'[h] = res[h] /\ id'[h] = id[h]
                                    /\ row'[h] = row[h] /\ expired'[h] = expired[h]
         /\ Following(g) # "idle" => id'[g] = id[g]
         /\ Running' = IF Following(g) = "idle" THEN Running \ {g} ELSE Running
         /\ InFlight' = InFlight /\ g \notin InFlight
         /\ calls' = calls /\ overlapped' = overlapped /\ fault' = fault
  <1>1. /\ g \in Caller /\ at \in [Caller -> Place] /\ pc \in [Caller -> Command]
        /\ res \in [Caller -> Result] /\ row \in [Caller -> 1..Stmts]
        /\ Following(g) \in Command
    BY Typed, FollowingCases DEF Command
  <1>2. id \in [Caller -> 0..calls] /\ expired \in [Caller -> BOOLEAN]
    BY DEF TypeInv, TypeOK
  <1>3. /\ pc' = [pc EXCEPT ![g] = Following(g)] /\ at' = [at EXCEPT ![g] = "call"]
        /\ res' = [res EXCEPT ![g] = "ok"]
        /\ id' = [id EXCEPT ![g] = IF Following(g) = "idle" THEN 0 ELSE @]
        /\ calls' = calls /\ overlapped' = overlapped /\ fault' = fault
    BY DEF Proceed
  <1>4. /\ pc' \in [Caller -> Command] /\ pc'[g] = Following(g)
        /\ at' \in [Caller -> Place] /\ at'[g] = "call" /\ res'[g] = "ok"
        /\ \A h \in Caller \ {g} : /\ pc'[h] = pc[h] /\ at'[h] = at[h]
                                   /\ res'[h] = res[h] /\ id'[h] = id[h]
        /\ Following(g) # "idle" => id'[g] = id[g]
    BY <1>1, <1>2, <1>3 DEF Place
  <1>5. \A h \in Caller \ {g} : row'[h] = row[h] /\ expired'[h] = expired[h]
    BY <1>1, <1>2 DEF Proceed
  <1>6. Running' = IF Following(g) = "idle" THEN Running \ {g} ELSE Running
    BY <1>1, <1>4 DEF Running
  <1>7. InFlight' = InFlight /\ g \notin InFlight
    <2>1. \A h \in Caller : pc'[h] # "idle" /\ at'[h] # "call" <=>
                            pc[h] # "idle" /\ at[h] # "call" /\ h # g
      BY <1>1, <1>4
    <2> QED BY <1>4, <1>6 DEF InFlight, Running
  <1> QED BY <1>3, <1>4, <1>5, <1>6, <1>7

(* unlock of a connection that is locked. *)
LEMMA Unlocked ==
  ASSUME conn \in ConnState, Unlock
  PROVE  /\ conn' \in ConnState /\ conn'.watch = conn.watch /\ conn'.up = conn.up
         /\ conn.status = "idle" => panicked' = TRUE /\ conn' = conn
         /\ conn.status # "idle" => panicked' = panicked
         /\ conn.status = "busy" => conn'.status = "idle"
         /\ conn.status = "closed" => conn'.status = "closed"
  <1>1. CASE conn.status = "idle"
    BY <1>1 DEF Unlock
  <1>2. CASE conn.status # "idle"
    BY <1>2 DEF Unlock, ConnState
  <1> QED BY <1>1, <1>2

(* A lock that is set, a context that is watched and a command that is     *)
(* sent, answered, failed or cut off, as far as the connection goes.       *)
LEMMA ConnSteps ==
  ASSUME TypeInv, NEW g \in Caller
  PROVE  /\ Lock(g) /\ conn.status = "idle" =>
              conn' \in ConnState /\ conn'.status = "busy"
              /\ conn'.watch = conn.watch /\ conn'.up = conn.up
         /\ Send(g) =>
              conn' \in ConnState /\ conn'.status = conn.status
              /\ conn'.watch /\ conn'.up = conn.up
         /\ Answer(g) \/ Broken(g) =>
              conn' \in ConnState /\ conn'.status = conn.status
              /\ ~conn'.watch /\ conn'.up = conn.up
         /\ AsyncClose(g) \/ Die(g) =>
              conn' \in ConnState /\ conn'.status = "closed"
              /\ conn'.watch = conn.watch /\ ~conn'.up
  <1>0. conn \in ConnState
    BY Typed
  <1>1. ASSUME Lock(g), conn.status = "idle"
        PROVE  conn' \in ConnState /\ conn'.status = "busy"
               /\ conn'.watch = conn.watch /\ conn'.up = conn.up
    <2>1. conn' = [conn EXCEPT !.status = "busy"]
      BY <1>1 DEF Lock
    <2> QED BY <1>0, <2>1 DEF ConnState
  <1>2. ASSUME Send(g)
        PROVE  conn' \in ConnState /\ conn'.status = conn.status
               /\ conn'.watch /\ conn'.up = conn.up
    <2>1. conn' = [conn EXCEPT !.watch = TRUE]
      BY <1>2 DEF Send
    <2> QED BY <1>0, <2>1 DEF ConnState
  <1>3. ASSUME Answer(g) \/ Broken(g)
        PROVE  conn' \in ConnState /\ conn'.status = conn.status
               /\ ~conn'.watch /\ conn'.up = conn.up
    <2>1. conn' = [conn EXCEPT !.watch = FALSE]
      BY <1>3 DEF Answer, Broken
    <2> QED BY <1>0, <2>1 DEF ConnState
  <1>4. ASSUME AsyncClose(g) \/ Die(g)
        PROVE  conn' \in ConnState /\ conn'.status = "closed"
               /\ conn'.watch = conn.watch /\ ~conn'.up
    <2>1. conn' = [conn EXCEPT !.status = "closed", !.up = FALSE]
      BY <1>4 DEF AsyncClose, Die
    <2> QED BY <1>0, <2>1 DEF ConnState
  <1> QED BY <1>1, <1>2, <1>3, <1>4

(* The same of a fault. *)
LEMMA ConnFaults ==
  ASSUME TypeInv
  PROVE  /\ Disconnect =>
              conn' \in ConnState /\ conn'.status = conn.status
              /\ conn'.watch = conn.watch /\ ~conn'.up
         /\ Shutdown =>
              conn' \in ConnState /\ conn'.status = "closed"
              /\ conn'.watch = conn.watch /\ conn'.up = conn.up
  <1>0. conn \in ConnState
    BY Typed
  <1>1. ASSUME Disconnect
        PROVE  conn' \in ConnState /\ conn'.status = conn.status
               /\ conn'.watch = conn.watch /\ ~conn'.up
    <2>1. conn' = [conn EXCEPT !.up = FALSE]
      BY <1>1 DEF Disconnect
    <2> QED BY <1>0, <2>1 DEF ConnState
  <1>2. ASSUME Shutdown
        PROVE  conn' \in ConnState /\ conn'.status = "closed"
               /\ conn'.watch = conn.watch /\ conn'.up = conn.up
    <2>1. conn' = [conn EXCEPT !.status = "closed"]
      BY <1>2 DEF Shutdown
    <2> QED BY <1>0, <2>1 DEF ConnState
  <1> QED BY <1>1, <1>2

(* Who is at a command is running. *)
LEMMA Runs ==
  ASSUME TypeInv, NEW g \in Caller, Step(g) \/ Answer(g)
  PROVE  g \in Running /\ Alive
  BY Typed DEF Step, LockError, LockRead, Lock, ContextAlreadyDone, Watch, Send, Done,
               Broken, AsyncClose, Return, Die, Answer

-----------------------------------------------------------------------------
(* Type correctness *)

(* The initial state is typed. *)
LEMMA InitType == Init => TypeInv
  <1> SUFFICES ASSUME Init PROVE TypeInv
    OBVIOUS
  <1>1. conn \in ConnState /\ srv \in Srv
    BY DEF Init, ConnState, Srv
  <1>2. /\ pc \in [Caller -> Command] /\ at \in [Caller -> Place]
        /\ res \in [Caller -> Result] /\ expired \in [Caller -> BOOLEAN]
        /\ \A g \in Caller : pc[g] = "idle" /\ at[g] = "call"
    BY DEF Init, Command, Place, Result
  <1>3. /\ row \in [Caller -> 1..Stmts] /\ calls \in 0..MaxCalls
        /\ id \in [Caller -> 0..calls]
    BY BoundsAssumption DEF Init
  <1> QED BY <1>1, <1>2, <1>3
          DEF Init, TypeInv, TypeOK, ConnState, Srv, Command, Place, Result

(* A new call is typed. *)
LEMMA EnterType ==
  ASSUME TypeInv, NEW g \in Caller, Enter(g)
  PROVE  TypeInv'
  <1>1. calls' \in 0..MaxCalls /\ calls' = calls + 1 /\ calls \in Nat
    BY BoundsAssumption DEF TypeInv, TypeOK, Enter
  <1>2. id' \in [Caller -> 0..calls']
    BY <1>1 DEF TypeInv, TypeOK, Enter
  <1>3. overlapped' \subseteq 1..calls'
    <2>1. \A h \in Running : id[h] \in 1..calls
      BY DEF TypeInv, Running
    <2>2. \A i \in overlapped : i \in 1..calls
      BY DEF TypeInv, TypeOK
    <2>3. overlapped' \subseteq overlapped \cup {calls'} \cup {id[h] : h \in Running}
      BY DEF Enter
    <2> QED BY <1>1, <2>1, <2>2, <2>3
  <1>4. /\ pc' \in [Caller -> Command]
        /\ \A h \in Caller : /\ pc'[h] # "idle" => id'[h] \in 1..calls'
                             /\ pc'[h] = "idle" => at'[h] = "call"
    BY <1>1 DEF TypeInv, TypeOK, Enter, Command
  <1> QED BY <1>1, <1>2, <1>3, <1>4 DEF TypeInv, TypeOK, Enter, Command

(* A step that leaves the calls where they are keeps the types, if what it *)
(* makes of the connection has its type.                                   *)
LEMMA SameCallType ==
  ASSUME TypeInv, conn' \in ConnState, srv' \in Srv, at' \in [Caller -> Place],
         \A g \in Caller : pc[g] = "idle" => at'[g] = "call",
         res' \in [Caller -> Result], fault' \in BOOLEAN, panicked' \in BOOLEAN,
         raced' \in BOOLEAN, UNCHANGED call
  PROVE  TypeInv'
  <1>1. UNCHANGED <<pc, row, calls, id, expired, overlapped, results>>
    BY DEF call
  <1> QED BY <1>1 DEF TypeInv, TypeOK, ConnState, Srv, Place, Result

(* A command that has returned is typed. *)
LEMMA ProceedType ==
  ASSUME TypeInv, NEW g \in Running, at[g] = "return", Proceed(g), conn' \in ConnState,
         srv' \in Srv, panicked' \in BOOLEAN, raced' \in BOOLEAN
  PROVE  TypeInv'
  <1>0. /\ g \in Caller /\ id[g] \in 1..calls /\ res \in [Caller -> Result]
        /\ row \in [Caller -> 1..Stmts] /\ calls \in Nat
    BY Typed
  <1>1. /\ pc' \in [Caller -> Command] /\ at' \in [Caller -> Place]
        /\ \A h \in Caller : pc'[h] = "idle" => at'[h] = "call"
        /\ \A h \in Caller : pc'[h] # "idle" => pc[h] # "idle" /\ id'[h] = id[h]
        /\ calls' = calls /\ overlapped' = overlapped /\ fault' = fault
    BY <1>0, Proceeded DEF TypeInv, Running
  <1>2. res' \in [Caller -> Result]
    BY <1>0 DEF Proceed, Result
  <1>3. id' \in [Caller -> 0..calls] /\ expired' \in [Caller -> BOOLEAN]
    <2>1. id' = [id EXCEPT ![g] = IF Following(g) = "idle" THEN 0 ELSE @]
      BY DEF Proceed
    <2>2. id' \in [Caller -> 0..calls]
      BY <1>0, <2>1 DEF TypeInv, TypeOK
    <2>3. expired' \in [Caller -> BOOLEAN]
      BY <1>0 DEF Proceed, TypeInv, TypeOK
    <2> QED BY <2>2, <2>3
  <1>4. row' \in [Caller -> 1..Stmts]
    <2>1. row' = [row EXCEPT ![g] =
                    IF pc[g] = "stmt" /\ Following(g) = "stmt" THEN @ + 1 ELSE 1]
      BY DEF Proceed
    <2>2. pc[g] = "stmt" /\ Following(g) = "stmt" => row[g] + 1 \in 1..Stmts
      BY <1>0, FollowingCases, BoundsAssumption
    <2> QED BY <1>0, <2>1, <2>2, BoundsAssumption
  <1>5. results' \subseteq Nat \X {"nil", "error"}
    <2>1. results' \subseteq results \cup {<<id[g], "nil">>, <<id[g], "error">>}
      BY DEF Proceed
    <2> QED BY <1>0, <2>1 DEF TypeInv, TypeOK
  <1>6. \A h \in Caller : pc'[h] # "idle" => id'[h] \in 1..calls
    BY <1>1 DEF TypeInv
  <1> QED BY <1>1, <1>2, <1>3, <1>4, <1>5, <1>6
          DEF TypeInv, TypeOK, ConnState, Srv, Command, Place, Result

(* Every step preserves the types. *)
LEMMA NextType ==
  ASSUME TypeInv, [Next]_vars
  PROVE  TypeInv'
  <1>0. /\ conn \in ConnState /\ srv \in Srv /\ at \in [Caller -> Place]
        /\ res \in [Caller -> Result] /\ fault \in BOOLEAN /\ panicked \in BOOLEAN
        /\ raced \in BOOLEAN /\ \A g \in Caller : pc[g] = "idle" => at[g] = "call"
    BY Typed DEF TypeInv, TypeOK
  <1>1. ASSUME NEW g \in Caller, Enter(g) PROVE TypeInv'
    BY <1>1, EnterType
  <1>2. ASSUME NEW g \in Running, NEW x \in Place, at' = [at EXCEPT ![g] = x] \/ at' = at
        PROVE  at' \in [Caller -> Place] /\ \A h \in Caller : pc[h] = "idle" => at'[h] = "call"
    BY <1>0, <1>2 DEF Running
  <1>3. ASSUME NEW g \in Caller, NEW r \in Result, res' = [res EXCEPT ![g] = r] \/ res' = res
        PROVE  res' \in [Caller -> Result]
    BY <1>0, <1>3
  <1>4. ASSUME NEW g \in Caller, LockError(g) \/ LockRead(g) PROVE TypeInv'
    <2>1. g \in Running /\ "return" \in Place /\ "lock" \in Place /\ "error" \in Result
      BY <1>4 DEF LockError, LockRead, Place, Result
    <2>2. at' \in [Caller -> Place] /\ \A h \in Caller : pc[h] = "idle" => at'[h] = "call"
      BY <1>2, <1>4, <2>1 DEF LockError, LockRead
    <2>3. res' \in [Caller -> Result]
      BY <1>3, <1>4, <2>1 DEF LockError, LockRead
    <2>4. raced' \in BOOLEAN
      BY <1>0, <1>4 DEF LockError, LockRead, TouchIfStmt, Touch
    <2>5. UNCHANGED <<conn, srv, call, fault, panicked>>
      BY <1>4 DEF LockError, LockRead
    <2> QED BY <1>0, <2>2, <2>3, <2>4, <2>5, SameCallType
  <1>5. ASSUME NEW g \in Caller, Lock(g) \/ Watch(g) \/ Send(g) PROVE TypeInv'
    <2>1. g \in Running /\ {"busy", "watch", "sent"} \subseteq Place
      BY <1>5, Runs DEF Step, Place
    <2>2. at' \in [Caller -> Place] /\ \A h \in Caller : pc[h] = "idle" => at'[h] = "call"
      BY <1>2, <1>5, <2>1 DEF Lock, Watch, Send
    <2>3. conn' \in ConnState
      BY <1>0, <1>5, ConnSteps DEF Lock, Watch
    <2>4. raced' \in BOOLEAN /\ panicked' \in BOOLEAN
      BY <1>0, <1>5 DEF Lock, Watch, Send
    <2>5. UNCHANGED <<srv, res, call, fault>>
      BY <1>5 DEF Lock, Watch, Send
    <2> QED BY <1>0, <2>2, <2>3, <2>4, <2>5, SameCallType
  <1>6. ASSUME NEW g \in Caller, ContextAlreadyDone(g) \/ Done(g) PROVE TypeInv'
    <2>1. g \in Running /\ "return" \in Place /\ "error" \in Result
      BY <1>6, Runs DEF Step, Place, Result
    <2>2. at' \in [Caller -> Place] /\ \A h \in Caller : pc[h] = "idle" => at'[h] = "call"
      BY <1>2, <1>6, <2>1 DEF ContextAlreadyDone, Done
    <2>3. conn' \in ConnState /\ panicked' \in BOOLEAN
      <3>1. Unlock
        BY <1>6 DEF ContextAlreadyDone, Done
      <3> QED BY <1>0, <3>1, Unlocked
    <2>4. raced' \in BOOLEAN
      BY <1>0, <1>6 DEF ContextAlreadyDone, Done, TouchIfStmt, Touch
    <2>5. UNCHANGED <<srv, call, fault>>
      BY <1>6 DEF ContextAlreadyDone, Done
    <2>6. res' \in [Caller -> Result]
      BY <1>3, <1>6, <2>1 DEF ContextAlreadyDone, Done
    <2> QED BY <1>0, <2>2, <2>3, <2>4, <2>5, <2>6, SameCallType
  <1>7. ASSUME NEW g \in Caller, Answer(g) PROVE TypeInv'
    <2>1. g \in Running /\ "done" \in Place
      BY <1>7, Runs DEF Place
    <2>2. at' \in [Caller -> Place] /\ \A h \in Caller : pc[h] = "idle" => at'[h] = "call"
      BY <1>2, <1>7, <2>1 DEF Answer
    <2>3. PICK o \in Outcomes(g) : srv' = o.srv /\ res' = [res EXCEPT ![g] = o.res]
      BY <1>7 DEF Answer
    <2>4. o.srv \in Srv /\ o.res \in Result
      BY <2>1, OutcomeType
    <2>5. srv' \in Srv /\ res' \in [Caller -> Result]
      BY <1>3, <2>3, <2>4
    <2>6. raced' \in BOOLEAN /\ UNCHANGED <<call, fault, panicked>>
      BY <1>7 DEF Answer, Touch
    <2> QED BY <1>0, <1>7, <2>2, <2>5, <2>6, ConnSteps, SameCallType
  <1>8. ASSUME NEW g \in Caller, Broken(g) \/ AsyncClose(g) PROVE TypeInv'
    <2>1. g \in Running /\ {"failed", "return"} \subseteq Place /\ "error" \in Result
      BY <1>8, Runs DEF Step, Place, Result
    <2>2. at' \in [Caller -> Place] /\ \A h \in Caller : pc[h] = "idle" => at'[h] = "call"
      BY <1>2, <1>8, <2>1 DEF Broken, AsyncClose
    <2>3. srv' \in Srv
      BY <1>0, <1>8, CutOutcome DEF Broken, AsyncClose
    <2>4. res' \in [Caller -> Result]
      BY <1>3, <1>8, <2>1 DEF Broken, AsyncClose
    <2>5. raced' \in BOOLEAN /\ UNCHANGED <<call, fault, panicked>>
      BY <1>0, <1>8 DEF Broken, AsyncClose, Touch
    <2> QED BY <1>0, <1>8, <2>2, <2>3, <2>4, <2>5, ConnSteps, SameCallType
  <1>9. ASSUME NEW g \in Caller, Return(g) PROVE TypeInv'
    <2>1. g \in Running
      BY <1>9, Runs DEF Step
    <2> QED BY <1>0, <1>9, <2>1, ProceedType DEF Return
  <1>10. ASSUME NEW g \in Caller, Die(g) PROVE TypeInv'
    <2>1. g \in Running /\ conn' \in ConnState
      BY <1>10, Runs, ConnSteps DEF Step
    <2>2. panicked' \in BOOLEAN /\ raced' \in BOOLEAN
      BY <1>0, <1>10 DEF Die, ConnState
    <2>3. CASE panicked' \/ raced'
      <3>1. UNCHANGED <<srv, at, res, call, fault>>
        BY <1>10, <2>3 DEF Die
      <3> QED BY <1>0, <2>1, <2>2, <3>1, SameCallType
    <2>4. CASE ~(panicked' \/ raced')
      <3>1. srv' = Discard(srv) /\ Proceed(g) /\ at[g] = "return"
        BY <1>10, <2>4 DEF Die
      <3> QED BY <1>0, <2>1, <2>2, <3>1, Discarded, ProceedType
    <2> QED BY <2>3, <2>4
  <1>11. ASSUME NEW g \in Caller, Expire(g) PROVE TypeInv'
    BY <1>11 DEF Expire, TypeInv, TypeOK
  <1>12. ASSUME Disconnect \/ Shutdown PROVE TypeInv'
    <2>1. srv' \in Srv
      BY <1>0, <1>12, CutOutcome DEF Disconnect, Shutdown
    <2>2. conn' \in ConnState
      BY <1>12, ConnFaults
    <2>3. UNCHANGED <<at, res, call, panicked, raced>> /\ fault' = TRUE
      BY <1>12 DEF Disconnect, Shutdown
    <2> QED BY <1>0, <2>1, <2>2, <2>3, SameCallType
  <1>13. CASE UNCHANGED vars
    BY <1>13 DEF vars, TypeInv, TypeOK
  <1> QED BY <1>1, <1>4, <1>5, <1>6, <1>7, <1>8, <1>9, <1>10, <1>11, <1>12, <1>13
          DEF Next, Step

-----------------------------------------------------------------------------
(* What calls leave behind *)

(* As long as commands do not race, one of them at most holds the lock,    *)
(* and the connection is busy only for it.                                 *)
LockInv ==
  /\ \A g, h \in InFlight : g = h
  /\ InFlight # {} => conn.status # "idle"
  /\ conn.status = "busy" => InFlight # {}

(* The watcher watches a command that was sent. *)
WatchInv == conn.watch => \E g \in Caller : at[g] = "sent"

(* Caller g is in a transaction that it has begun or has yet to end. *)
Holds(g) ==
  \/ pc[g] = "begin" /\ at[g] \in {"done", "return"} /\ res[g] = "ok"
  \/ pc[g] = "stmt"
  \/ pc[g] \in {"commit", "rollback"} /\ at[g] \notin {"done", "return"}
  \/ pc[g] \in {"commit", "rollback"} /\ at[g] = "return" /\ res[g] = "error"

(* A transaction on an open connection has a call that is in it. *)
TxInv ==
  /\ srv.tx = "none" => srv.rows = {}
  /\ ~conn.up => srv.tx = "none"
  /\ srv.tx # "none" /\ conn.status # "closed" => \E g \in Caller : Holds(g)

UseInv == Alive => LockInv /\ WatchInv /\ TxInv

(* Nobody uses the connection at first. *)
LEMMA InitUse == Init => UseInv
  BY DEF Init, UseInv, LockInv, WatchInv, TxInv, InFlight, Running

(* Every step keeps the lock in order. *)
LEMMA NextLock ==
  ASSUME TypeInv, UseInv, [Next]_vars, Alive'
  PROVE  LockInv'
  <1>0. /\ conn \in ConnState /\ at \in [Caller -> Place]
        /\ \A g \in InFlight : /\ g \in Running /\ g \in Caller
                               /\ at[g] \in {"busy", "watch", "sent", "failed", "done"}
    BY Typed DEF InFlight
  <1>1. ASSUME NEW g \in Caller, Enter(g) PROVE LockInv'
    <2>1. /\ Alive /\ conn' = conn /\ at' = at /\ at[g] = "call"
          /\ \A h \in Caller \ {g} : pc'[h] = pc[h]
      BY <1>1 DEF Enter, TypeInv, TypeOK
    <2>2. InFlight' = InFlight
      BY <2>1 DEF InFlight, Running
    <2> QED BY <2>1, <2>2 DEF UseInv, LockInv
  <1>2. ASSUME NEW g \in Caller, LockError(g) \/ LockRead(g) PROVE LockInv'
    <2>1. /\ Alive /\ g \in Running /\ conn' = conn /\ pc' = pc /\ at[g] = "call"
          /\ \E x \in {"return", "lock"} : at' = [at EXCEPT ![g] = x]
      BY <1>2 DEF LockError, LockRead, call
    <2>2. InFlight' = InFlight \ {g} /\ g \notin InFlight
      BY <1>0, <2>1, Moved DEF Place
    <2> QED BY <2>1, <2>2 DEF UseInv, LockInv
  <1>3. ASSUME NEW g \in Caller, Lock(g) PROVE LockInv'
    <2>1. Alive /\ g \in Running /\ conn.status = "idle"
      BY <1>3, Runs DEF Step, Lock, Alive
    <2>2. at' = [at EXCEPT ![g] = "busy"] /\ pc' = pc /\ InFlight = {}
      BY <1>3, <2>1 DEF Lock, call, UseInv, LockInv
    <2>3. InFlight' = {g}
      BY <2>1, <2>2, Moved DEF Place
    <2> QED BY <1>3, <2>1, <2>3, ConnSteps DEF LockInv
  <1>4. ASSUME NEW g \in Caller, ContextAlreadyDone(g) \/ Done(g) PROVE LockInv'
    <2>1. /\ Alive /\ g \in Running /\ at[g] \in {"busy", "done"} /\ pc' = pc
          /\ at' = [at EXCEPT ![g] = "return"] /\ Unlock
      BY <1>4, Runs DEF Step, ContextAlreadyDone, Done, call
    <2>2. InFlight = {g} /\ conn.status # "idle"
      BY <2>1 DEF UseInv, LockInv, InFlight
    <2>3. InFlight' = {}
      BY <2>1, <2>2, Moved DEF Place
    <2>4. conn'.status # "busy"
      BY <1>0, <2>1, <2>2, Unlocked DEF ConnState
    <2> QED BY <2>3, <2>4 DEF LockInv
  <1>5. ASSUME NEW g \in Caller, Watch(g) \/ Send(g) \/ Answer(g) \/ Broken(g)
        PROVE  LockInv'
    <2>1. /\ Alive /\ g \in Running /\ pc' = pc
          /\ at[g] \in {"busy", "watch", "sent"}
      BY <1>5, Runs DEF Step, Watch, Send, Answer, Broken, call
    <2>2. \E x \in {"watch", "sent", "done", "failed"} : at' = [at EXCEPT ![g] = x]
      BY <1>5 DEF Watch, Send, Answer, Broken, Alive
    <2>3. g \in InFlight
      BY <2>1 DEF InFlight
    <2>4. InFlight' = InFlight
      <3>1. PICK x \in {"watch", "sent", "done", "failed"} : at' = [at EXCEPT ![g] = x]
        BY <2>2
      <3>2. InFlight' = InFlight \cup {g}
        BY <2>1, <3>1, Moved DEF Place
      <3> QED BY <2>3, <3>2
    <2>5. conn'.status = conn.status
      BY <1>5, ConnSteps DEF Watch
    <2> QED BY <2>1, <2>4, <2>5 DEF UseInv, LockInv
  <1>6. ASSUME NEW g \in Caller, AsyncClose(g) PROVE LockInv'
    <2>1. /\ Alive /\ g \in Running /\ at[g] = "failed" /\ pc' = pc
          /\ at' = [at EXCEPT ![g] = "return"]
      BY <1>6, Runs DEF Step, AsyncClose, call
    <2>2. InFlight = {g}
      BY <2>1 DEF UseInv, LockInv, InFlight
    <2>3. InFlight' = {}
      BY <2>1, <2>2, Moved DEF Place
    <2> QED BY <1>6, <2>3, ConnSteps DEF LockInv
  <1>7. ASSUME NEW g \in Caller, Return(g) PROVE LockInv'
    <2>1. Alive /\ g \in Running /\ conn' = conn /\ Proceed(g) /\ at[g] = "return"
      BY <1>7, Runs DEF Step, Return
    <2>2. InFlight' = InFlight
      BY <2>1, Proceeded
    <2> QED BY <2>1, <2>2 DEF UseInv, LockInv
  <1>8. ASSUME NEW g \in Caller, Die(g) PROVE LockInv'
    <2>1. ~panicked' /\ ~raced'
      BY DEF Alive
    <2>2. /\ g \in Running /\ Proceed(g) /\ at[g] = "return" /\ InFlight = {}
      BY <1>8, <2>1, Runs DEF Step, Die
    <2>3. InFlight' = {}
      BY <2>2, Proceeded
    <2> QED BY <1>8, <2>3, ConnSteps DEF LockInv
  <1>9. ASSUME NEW g \in Caller, Expire(g) PROVE LockInv'
    BY <1>9 DEF Expire, UseInv, LockInv, InFlight, Running
  <1>10. ASSUME Disconnect \/ Shutdown PROVE LockInv'
    <2>1. InFlight' = InFlight /\ Alive
      BY <1>10 DEF Disconnect, Shutdown, InFlight, Running, call
    <2>2. conn'.status \in {conn.status, "closed"}
      BY <1>10, ConnFaults
    <2> QED BY <2>1, <2>2 DEF UseInv, LockInv
  <1>11. CASE UNCHANGED vars
    BY <1>11 DEF vars, UseInv, LockInv, InFlight, Running, Alive
  <1> QED BY <1>1, <1>2, <1>3, <1>4, <1>5, <1>6, <1>7, <1>8, <1>9, <1>10, <1>11
          DEF Next, Step

(* Every step leaves the watcher to the command that it watches. *)
LEMMA NextWatch ==
  ASSUME TypeInv, UseInv, [Next]_vars, Alive'
  PROVE  WatchInv'
  <1>0. conn \in ConnState /\ at \in [Caller -> Place]
    BY Typed
  <1>1. ASSUME NEW g \in Caller, at[g] # "sent", conn'.watch = conn.watch, Alive,
               \A h \in Caller \ {g} : at'[h] = at[h]
        PROVE  WatchInv'
    BY <1>1 DEF UseInv, WatchInv
  <1>2. ASSUME Alive, conn'.watch = conn.watch, at' = at PROVE WatchInv'
    BY <1>2 DEF UseInv, WatchInv
  <1>3. ASSUME NEW g \in Caller, Enter(g) \/ Expire(g) PROVE WatchInv'
    BY <1>2, <1>3 DEF Enter, Expire
  <1>4. ASSUME NEW g \in Caller, LockError(g) \/ LockRead(g) PROVE WatchInv'
    BY <1>0, <1>1, <1>4 DEF LockError, LockRead
  <1>5. ASSUME NEW g \in Caller, Lock(g) PROVE WatchInv'
    <2>1. conn.status = "idle"
      BY <1>5 DEF Lock, Alive
    <2>2. conn'.watch = conn.watch
      BY <1>5, <2>1, ConnSteps
    <2> QED BY <1>0, <1>1, <1>5, <2>1, <2>2 DEF Lock
  <1>6. ASSUME NEW g \in Caller, ContextAlreadyDone(g) \/ Done(g) PROVE WatchInv'
    <2>1. Unlock
      BY <1>6 DEF ContextAlreadyDone, Done
    <2>2. conn'.watch = conn.watch
      BY <1>0, <2>1, Unlocked
    <2> QED BY <1>0, <1>1, <1>6, <2>2 DEF ContextAlreadyDone, Done
  <1>7. ASSUME NEW g \in Caller, Watch(g) PROVE WatchInv'
    BY <1>0, <1>1, <1>7 DEF Watch, Alive
  <1>8. ASSUME NEW g \in Caller, Send(g) PROVE WatchInv'
    BY <1>0, <1>8 DEF Send, WatchInv
  <1>9. ASSUME NEW g \in Caller, Answer(g) \/ Broken(g) PROVE WatchInv'
    BY <1>9, ConnSteps DEF WatchInv
  <1>10. ASSUME NEW g \in Caller, AsyncClose(g) PROVE WatchInv'
    <2>1. conn'.watch = conn.watch
      BY <1>10, ConnSteps
    <2> QED BY <1>0, <1>1, <1>10, <2>1 DEF AsyncClose
  <1>11. ASSUME NEW g \in Caller, Return(g) \/ Die(g) PROVE WatchInv'
    <2>1. conn'.watch = conn.watch
      BY <1>11, ConnSteps DEF Return
    <2>2. Alive /\ g \in Running /\ at[g] = "return" /\ Proceed(g)
      BY <1>11, Runs DEF Step, Return, Die, Alive
    <2> QED BY <1>1, <2>1, <2>2, Proceeded
  <1>12. ASSUME Disconnect \/ Shutdown PROVE WatchInv'
    BY <1>2, <1>12, ConnFaults DEF Disconnect, Shutdown
  <1>13. CASE UNCHANGED vars
    BY <1>2, <1>13 DEF vars, Alive
  <1> QED BY <1>3, <1>4, <1>5, <1>6, <1>7, <1>8, <1>9, <1>10, <1>11, <1>12, <1>13
          DEF Next, Step

(* Every step leaves a transaction to a call that is in it. *)
LEMMA NextTx ==
  ASSUME TypeInv, UseInv, [Next]_vars, Alive'
  PROVE  TxInv'
  <1>0. /\ conn \in ConnState /\ at \in [Caller -> Place] /\ res \in [Caller -> Result]
        /\ srv \in Srv /\ pc \in [Caller -> Command]
    BY Typed
  <1>1. ASSUME Alive, srv' = srv, conn'.up = conn.up,
               conn.status = "closed" => conn'.status = "closed",
               \A h \in Caller : conn'.status # "closed" /\ Holds(h) => Holds(h)'
        PROVE  TxInv'
    BY <1>1 DEF UseInv, TxInv
  <1>2. ASSUME srv'.tx = "none", srv'.rows = {} PROVE TxInv'
    BY <1>2 DEF TxInv
  <1>3. ASSUME NEW g \in Caller, Enter(g) PROVE TxInv'
    <2>1. /\ Alive /\ UNCHANGED <<conn, srv, at, res>> /\ pc[g] = "idle"
          /\ \A h \in Caller \ {g} : pc'[h] = pc[h]
      BY <1>0, <1>3 DEF Enter
    <2>2. ~Holds(g)
      BY <2>1 DEF Holds
    <2>3. \A h \in Caller : Holds(h) => Holds(h)'
      BY <2>1, <2>2 DEF Holds
    <2> QED BY <1>1, <2>1, <2>3
  <1>4. ASSUME NEW g \in Caller, pc' = pc, at[g] \notin {"done", "return"},
               \/ at'[g] \notin {"done", "return"}
               \/ at'[g] = "return" /\ res'[g] = "error",
               \A h \in Caller \ {g} : at'[h] = at[h] /\ res'[h] = res[h]
        PROVE  \A h \in Caller : Holds(h) => Holds(h)'
    <2>1. Holds(g) => Holds(g)'
      BY <1>4 DEF Holds
    <2>2. \A h \in Caller \ {g} : Holds(h) => Holds(h)'
      BY <1>4 DEF Holds
    <2> QED BY <2>1, <2>2
  <1>5. ASSUME NEW g \in Caller, LockError(g) \/ LockRead(g) PROVE TxInv'
    <2>1. Alive /\ srv' = srv /\ conn' = conn
      BY <1>5 DEF LockError, LockRead
    <2>2. \A h \in Caller : Holds(h) => Holds(h)'
      BY <1>0, <1>4, <1>5 DEF LockError, LockRead, call
    <2> QED BY <1>1, <2>1, <2>2
  <1>6. ASSUME NEW g \in Caller, Lock(g) PROVE TxInv'
    <2>1. conn.status = "idle" /\ Alive /\ srv' = srv
      BY <1>6 DEF Lock, Alive
    <2>2. \A h \in Caller : Holds(h) => Holds(h)'
      BY <1>0, <1>4, <1>6, <2>1 DEF Lock, call
    <2>3. conn'.up = conn.up
      BY <1>6, <2>1, ConnSteps
    <2> QED BY <1>1, <2>1, <2>2, <2>3
  <1>7. ASSUME NEW g \in Caller, ContextAlreadyDone(g) PROVE TxInv'
    <2>1. Alive /\ srv' = srv /\ Unlock
      BY <1>7 DEF ContextAlreadyDone
    <2>2. \A h \in Caller : Holds(h) => Holds(h)'
      BY <1>0, <1>4, <1>7 DEF ContextAlreadyDone, call
    <2>3. conn'.up = conn.up /\ (conn.status = "closed" => conn'.status = "closed")
      BY <1>0, <2>1, Unlocked
    <2> QED BY <1>1, <2>1, <2>2, <2>3
  <1>8. ASSUME NEW g \in Caller, Done(g) PROVE TxInv'
    <2>1. /\ Alive /\ srv' = srv /\ Unlock /\ pc' = pc /\ res' = res
          /\ at[g] = "done" /\ at'[g] = "return"
          /\ \A h \in Caller \ {g} : at'[h] = at[h]
      BY <1>0, <1>8 DEF Done, call
    <2>2. \A h \in Caller : Holds(h) => Holds(h)'
      BY <2>1 DEF Holds
    <2>3. conn'.up = conn.up /\ (conn.status = "closed" => conn'.status = "closed")
      BY <1>0, <2>1, Unlocked
    <2> QED BY <1>1, <2>1, <2>2, <2>3
  <1>9. ASSUME NEW g \in Caller, Watch(g) \/ Send(g) \/ Broken(g) PROVE TxInv'
    <2>1. Alive /\ srv' = srv
      BY <1>9 DEF Watch, Send, Broken
    <2>2. \A h \in Caller : Holds(h) => Holds(h)'
      BY <1>0, <1>4, <1>9 DEF Watch, Send, Broken, call, Alive
    <2>3. conn'.up = conn.up /\ conn'.status = conn.status
      BY <1>9, ConnSteps DEF Watch
    <2> QED BY <1>1, <2>1, <2>2, <2>3
  <1>10. ASSUME NEW g \in Caller, Answer(g) PROVE TxInv'
    <2>0. /\ Alive /\ g \in Running /\ pc' = pc /\ at[g] = "sent" /\ conn.up
          /\ at'[g] = "done" /\ \A h \in Caller \ {g} : at'[h] = at[h]
          /\ <<id[g], row[g]>> \in Nat \X Nat
      BY <1>0, <1>10, Runs, Typed, BoundsAssumption DEF Answer, call
    <2>1. PICK o \in Outcomes(g) : srv' = o.srv /\ res' = [res EXCEPT ![g] = o.res]
      BY <1>10 DEF Answer
    <2>2. conn'.up /\ conn'.status = conn.status
      BY <1>10, <2>0, ConnSteps
    <2>3. res'[g] = o.res /\ \A h \in Caller \ {g} : res'[h] = res[h]
      BY <1>0, <2>1
    <2>4. \A h \in Caller \ {g} : Holds(h) => Holds(h)'
      BY <2>0, <2>3 DEF Holds
    <2>5. CASE pc[g] = "begin"
      <3>1. ~Holds(g)
        BY <2>0, <2>5 DEF Holds
      <3>2. CASE srv.tx = "aborted"
        <4>1. srv' = srv
          BY <1>0, <2>1, <2>5, <3>2, BeginOutcome
        <4> QED BY <1>1, <2>0, <2>2, <2>4, <3>1, <4>1
      <3>3. CASE srv.tx # "aborted"
        <4>1. srv'.tx = "open" /\ res'[g] = "ok"
          BY <1>0, <2>1, <2>3, <2>5, <3>3, BeginOutcome
        <4>2. Holds(g)'
          BY <2>0, <2>5, <4>1 DEF Holds
        <4> QED BY <2>2, <4>1, <4>2 DEF TxInv
      <3> QED BY <3>2, <3>3
    <2>6. CASE pc[g] = "stmt"
      <3>1. Holds(g)'
        BY <2>0, <2>6 DEF Holds
      <3>2. srv'.tx = "none" => srv.tx = "none" /\ srv'.rows = srv.rows
        BY <1>0, <2>0, <2>1, <2>6, StmtOutcome DEF Srv
      <3>3. srv'.tx = "none" => srv'.rows = {}
        BY <2>0, <3>2 DEF UseInv, TxInv
      <3> QED BY <2>2, <3>1, <3>3 DEF TxInv
    <2>7. CASE pc[g] \in {"commit", "rollback"}
      <3>1. srv'.tx = "none" /\ srv'.rows = {}
        BY <1>0, <2>1, <2>7, CommitOutcome, RollbackOutcome, Discarded
      <3> QED BY <1>2, <3>1
    <2> QED BY <2>0, <2>5, <2>6, <2>7, Typed
  <1>11. ASSUME NEW g \in Caller, AsyncClose(g) PROVE TxInv'
    <2>1. Alive /\ srv' \in Cut
      BY <1>11 DEF AsyncClose
    <2>2. (srv' = srv /\ ~conn.up) \/ (srv'.tx = "none" /\ srv'.rows = {})
      BY <2>1, CutOutcome
    <2> QED BY <1>2, <2>1, <2>2 DEF UseInv, TxInv
  <1>12. ASSUME NEW g \in Caller, Return(g) PROVE TxInv'
    <2>1. /\ Alive /\ g \in Running /\ conn' = conn /\ srv' = srv /\ Proceed(g)
          /\ at[g] = "return" /\ ~Dies(g)
      BY <1>12, Runs DEF Step, Return
    <2>2. /\ pc'[g] = Following(g) /\ at'[g] = "call"
          /\ \A h \in Caller \ {g} : /\ pc'[h] = pc[h] /\ at'[h] = at[h]
                                     /\ res'[h] = res[h]
      BY <2>1, Proceeded
    <2>3. \A h \in Caller \ {g} : Holds(h) => Holds(h)'
      BY <2>2 DEF Holds
    <2>4. ASSUME conn.status # "closed", Holds(g) PROVE Holds(g)'
      <3>1. \/ pc[g] = "begin" /\ res[g] = "ok"
            \/ pc[g] = "stmt"
        BY <2>1, <2>4 DEF Holds, Dies
      <3>2. Following(g) \in {"stmt", "commit", "rollback"}
        BY <2>1, <3>1, FollowingCases
      <3> QED BY <2>2, <3>2 DEF Holds
    <2> QED BY <1>1, <2>1, <2>3, <2>4
  <1>13. ASSUME NEW g \in Caller, Die(g) PROVE TxInv'
    <2>1. srv' = Discard(srv)
      BY <1>13 DEF Die, Alive
    <2> QED BY <1>0, <1>2, <2>1, Discarded
  <1>14. ASSUME NEW g \in Caller, Expire(g) PROVE TxInv'
    BY <1>1, <1>14 DEF Expire, Holds
  <1>15. ASSUME Disconnect PROVE TxInv'
    <2>1. conn.up /\ srv' \in Cut
      BY <1>15 DEF Disconnect
    <2> QED BY <1>2, <2>1, CutOutcome
  <1>16. ASSUME Shutdown PROVE TxInv'
    BY <1>1, <1>16, ConnFaults DEF Shutdown, call
  <1>17. CASE UNCHANGED vars
    BY <1>1, <1>17 DEF vars, Alive, Holds
  <1> QED BY <1>3, <1>5, <1>6, <1>7, <1>8, <1>9, <1>10, <1>11, <1>12, <1>13, <1>14,
             <1>15, <1>16, <1>17
          DEF Next, Step

(* Types and the use of the connection are invariants. *)
LEMMA UseInvariant == Spec => [](TypeInv /\ UseInv)
  <1>1. Init => TypeInv /\ UseInv
    BY InitType, InitUse
  <1>2. TypeInv /\ UseInv /\ [Next]_vars => (TypeInv /\ UseInv)'
    <2> SUFFICES ASSUME TypeInv, UseInv, [Next]_vars PROVE (TypeInv /\ UseInv)'
      OBVIOUS
    <2>1. TypeInv'
      BY NextType
    <2>2. ASSUME Alive' PROVE (LockInv /\ WatchInv /\ TxInv)'
      BY <2>2, NextLock, NextWatch, NextTx
    <2> QED BY <2>1, <2>2 DEF UseInv
  <1> QED BY <1>1, <1>2, PTL DEF Spec

(* Every reachable state is typed (db.go:142-278, pgconn.go:548-569).      *)
THEOREM TypeCorrect == Spec => []TypeOK
  <1>1. TypeInv => TypeOK
    BY DEF TypeInv
  <1> QED BY <1>1, UseInvariant, PTL

(* A connection that nobody uses is closed or clean. *)
LEMMA UseClean == TypeInv /\ UseInv => CleanWhenIdle
  <1> SUFFICES ASSUME TypeInv, UseInv, Running = {}, Alive, conn.status # "closed"
               PROVE  /\ conn.status = "idle" /\ ~conn.watch
                      /\ srv.tx = "none" /\ srv.rows = {}
    BY DEF CleanWhenIdle
  <1>1. \A g \in Caller : pc[g] = "idle" /\ at[g] = "call"
    BY DEF Running, TypeInv
  <1>2. InFlight = {} /\ conn \in ConnState
    BY Typed DEF InFlight
  <1>3. conn.status = "idle"
    BY <1>2 DEF UseInv, LockInv, ConnState
  <1>4. ~conn.watch
    BY <1>1 DEF UseInv, WatchInv
  <1>5. \A g \in Caller : ~Holds(g)
    BY <1>1 DEF Holds
  <1> QED BY <1>3, <1>4, <1>5 DEF UseInv, TxInv

(* Whatever number of callers take turns, fail and time out, the last one  *)
(* to return leaves the connection closed, or free, unwatched and without  *)
(* a transaction, unless two commands have raced (db.go:142-146, 275;      *)
(* pgconn.go:548-569).                                                     *)
THEOREM ConnLeftClean == Spec => []CleanWhenIdle
  BY UseClean, UseInvariant, PTL

-----------------------------------------------------------------------------
(* Rows *)

StoredOf(i) == srv.stored \cap Rows(i)

(* The command of caller g has no result yet, or it has succeeded. *)
Waiting(g) == at[g] \notin {"done", "return"}
Answered(g) == at[g] \in {"done", "return"} /\ res[g] = "ok"

(* Nothing is sent on the connection any more. *)
Dead == conn.status = "closed" /\ InFlight = {}

(* A call that was never overlapped runs alone. *)
AloneInv == \A g \in Running : id[g] \notin overlapped => Running = {g}

(* The transaction has rows of calls that run or were overlapped, as long  *)
(* as there is somebody to commit it; the rest is of earlier calls.        *)
RowsInv ==
  /\ \A r \in srv.rows :
       Dead \/ r[1] \in overlapped \/ \E g \in Running : r[1] = id[g]
  /\ \A r \in srv.stored : r[1] \in 1..calls
  /\ \A x \in results : x[1] \in 1..calls

(* How far the call of caller g is, if no other call overlapped it.        *)
Progress(g) ==
  /\ <<id[g], "nil">> \notin results
  /\ StoredOf(id[g]) \in {{}, Rows(id[g])}
  /\ pc[g] # "commit" => StoredOf(id[g]) = {}
  /\ pc[g] = "begin" /\ Waiting(g) =>
       srv.tx = "none" \/ (conn.status = "closed" /\ g \notin InFlight)
  /\ conn.up /\ pc[g] = "begin" /\ Answered(g) => srv.tx = "open" /\ srv.rows = {}
  /\ conn.up /\ pc[g] = "stmt" /\ Waiting(g) =>
       srv.tx = "open" /\ srv.rows = {<<id[g], k>> : k \in 1..(row[g] - 1)}
  /\ conn.up /\ pc[g] = "stmt" /\ Answered(g) =>
       srv.tx = "open" /\ srv.rows = {<<id[g], k>> : k \in 1..row[g]}
  /\ conn.up /\ pc[g] = "commit" /\ Waiting(g) =>
       StoredOf(id[g]) = {} /\ srv.tx = "open" /\ srv.rows = Rows(id[g])
  /\ pc[g] = "commit" /\ Answered(g) => StoredOf(id[g]) = Rows(id[g])

ProgressInv == \A g \in Running : id[g] \notin overlapped => Progress(g)

(* What a call that was never overlapped leaves when it has returned.      *)
ReturnedInv ==
  \A i \in 1..calls \ overlapped :
    (\A g \in Running : id[g] # i) =>
       /\ StoredOf(i) \in {{}, Rows(i)}
       /\ <<i, "nil">> \in results => Rows(i) \subseteq srv.stored

InOrder == AloneInv /\ RowsInv /\ ProgressInv /\ ReturnedInv
CallInv == ~raced => InOrder

(* The rows that a command may touch. *)
Touched == srv.rows \cup {<<id[g], row[g]>> : g \in Running}

(* A command stores or adds such rows only, and unstores none. *)
LEMMA OutcomeRows ==
  ASSUME TypeInv, NEW g \in Running, NEW o \in Outcomes(g)
  PROVE  /\ srv.stored \subseteq o.srv.stored
         /\ o.srv.stored \subseteq srv.stored \cup Touched
         /\ o.srv.rows \subseteq Touched
  <1>0. /\ g \in Caller /\ srv \in Srv /\ <<id[g], row[g]>> \in Nat \X Nat
        /\ pc[g] \in {"begin", "stmt", "commit", "rollback"}
        /\ <<id[g], row[g]>> \in Touched /\ srv.rows \subseteq Touched
    BY Typed, BoundsAssumption DEF Touched
  <1>1. CASE pc[g] = "begin"
    BY <1>0, <1>1, BeginOutcome
  <1>2. CASE pc[g] = "stmt"
    <2>1. srv.tx = "none" \/ (srv.tx # "none" /\ o.res = "ok")
            \/ (srv.tx # "none" /\ o.res = "error")
      BY <1>0, <1>2, StmtOutcome
    <2> QED BY <1>0, <1>2, <2>1, StmtOutcome
  <1>3. CASE pc[g] = "commit"
    BY <1>0, <1>3, CommitOutcome
  <1>4. CASE pc[g] = "rollback"
    BY <1>0, <1>4, RollbackOutcome, Discarded
  <1> QED BY <1>0, <1>1, <1>2, <1>3, <1>4

(* The command of a call that runs alone stores nothing, or at its commit  *)
(* all rows of the call.                                                   *)
LEMMA LoneOutcome ==
  ASSUME TypeInv, TxInv, NEW g \in Running, Progress(g), at[g] \in {"sent", "failed"},
         conn.up, NEW o \in Outcomes(g)
  PROVE  /\ pc[g] # "commit" => o.srv.stored = srv.stored
         /\ pc[g] = "commit" => o.srv.stored = srv.stored \cup Rows(id[g])
         /\ pc[g] = "begin" => o.srv.tx = "open" /\ o.srv.rows = {}
         /\ pc[g] = "stmt" /\ o.res = "ok" =>
              /\ o.srv.tx = "open"
              /\ o.srv.rows = {<<id[g], k>> : k \in 1..row[g]}
  <1>0. /\ g \in Caller /\ srv \in Srv /\ <<id[g], row[g]>> \in Nat \X Nat
        /\ pc[g] \in {"begin", "stmt", "commit", "rollback"} /\ row[g] \in 1..Stmts
        /\ g \in InFlight /\ Waiting(g)
    BY Typed, BoundsAssumption DEF InFlight, Waiting
  <1>1. CASE pc[g] = "begin"
    <2>1. srv.tx = "none" /\ srv.rows = {}
      BY <1>0, <1>1 DEF Progress, TxInv
    <2> QED BY <1>0, <1>1, <2>1, BeginOutcome
  <1>2. CASE pc[g] = "stmt"
    <2>1. srv.tx = "open" /\ srv.rows = {<<id[g], k>> : k \in 1..(row[g] - 1)}
      BY <1>0, <1>2 DEF Progress
    <2>2. /\ o.srv.stored = srv.stored
          /\ o.res = "ok" => /\ o.srv.tx = "open"
                             /\ o.srv.rows = srv.rows \cup {<<id[g], row[g]>>}
      BY <1>0, <1>2, <2>1, StmtOutcome
    <2>3. srv.rows \cup {<<id[g], row[g]>>} = {<<id[g], k>> : k \in 1..row[g]}
      <3>1. 1..row[g] = (1..(row[g] - 1)) \cup {row[g]}
        BY <1>0, BoundsAssumption
      <3> QED BY <2>1, <3>1
    <2> QED BY <1>2, <2>2, <2>3
  <1>3. CASE pc[g] = "commit"
    BY <1>0, <1>3, CommitOutcome DEF Progress
  <1>4. CASE pc[g] = "rollback"
    BY <1>0, <1>4, RollbackOutcome, Discarded
  <1> QED BY <1>0, <1>1, <1>2, <1>3, <1>4

(* The same when the connection goes down. *)
LEMMA CutRows ==
  ASSUME TypeInv, NEW s \in Cut
  PROVE  /\ srv.stored \subseteq s.stored /\ s.stored \subseteq srv.stored \cup Touched
         /\ s.rows \subseteq srv.rows
         /\ InFlight = {} => s.stored = srv.stored
  <1>1. \/ s.stored = srv.stored
        \/ \E g \in Running : /\ at[g] \in {"sent", "failed"}
                              /\ \E o \in Outcomes(g) : s.stored = o.srv.stored
    BY CutOutcome DEF Does
  <1>2. s.rows \subseteq srv.rows
    BY CutOutcome
  <1> QED BY <1>1, <1>2, OutcomeRows DEF InFlight

(* A connection that goes down under a call that runs alone. *)
LEMMA LoneCut ==
  ASSUME TypeInv, TxInv, NEW g \in Running, Running = {g}, Progress(g), NEW s \in Cut
  PROVE  \/ s.stored = srv.stored
         \/ /\ pc[g] = "commit" /\ at[g] \in {"sent", "failed"}
            /\ s.stored = srv.stored \cup Rows(id[g])
  <1>1. \/ s.stored = srv.stored
        \/ /\ conn.up /\ at[g] \in {"sent", "failed"}
           /\ \E o \in Outcomes(g) : s.stored = o.srv.stored
    BY CutOutcome DEF Does
  <1> QED BY <1>1, LoneOutcome

(* What other calls do leaves the stored rows of a call that has returned. *)
LEMMA StoredElsewhere ==
  ASSUME RowsInv, ~Dead, NEW i, i \notin overlapped, \A g \in Running : id[g] # i, NEW T,
         srv.stored \subseteq T, T \subseteq srv.stored \cup Touched
  PROVE  T \cap Rows(i) = StoredOf(i)
  <1>1. \A r \in Rows(i) : r[1] = i
    BY DEF Rows
  <1>2. \A r \in Touched : r[1] # i
    BY DEF Touched, RowsInv
  <1> QED BY <1>1, <1>2 DEF StoredOf

(* There are no calls at first. *)
LEMMA InitCall == Init => CallInv
  BY DEF Init, CallInv, InOrder, AloneInv, RowsInv, ProgressInv, ReturnedInv, Running

(* A new call starts with nothing stored. *)
LEMMA EnterCall ==
  ASSUME TypeInv, UseInv, InOrder, NEW g \in Caller, Enter(g)
  PROVE  InOrder'
  <1>1. /\ calls \in Nat /\ calls' = calls + 1 /\ overlapped \subseteq 1..calls
        /\ \A h \in Running : id[h] \in 1..calls
    BY BoundsAssumption DEF TypeInv, TypeOK, Enter, Running
  <1>2. /\ g \notin Running /\ Running' = Running \cup {g} /\ id'[g] = calls + 1
        /\ \A h \in Running : id'[h] = id[h]
        /\ pc'[g] = "begin" /\ at[g] = "call"
    BY DEF TypeInv, TypeOK, Enter, Running
  <1>3. UNCHANGED <<conn, srv, at, res, results>> /\ Alive /\ overlapped \subseteq overlapped'
    BY DEF Enter
  <1>4. InFlight' = InFlight /\ g \notin InFlight
    BY <1>2, <1>3 DEF InFlight
  <1>5. ASSUME NEW h \in Running', id'[h] \notin overlapped'
        PROVE  Running = {} /\ Running' = {g} /\ h = g
    <2>1. CASE Running = {}
      BY <1>2, <1>5, <2>1
    <2>2. CASE Running # {}
      <3>1. overlapped' = overlapped \cup ({calls'} \cup {id[k] : k \in Running})
        BY <2>2 DEF Enter
      <3> QED BY <1>1, <1>2, <1>5, <3>1
    <2> QED BY <2>1, <2>2
  <1>6. AloneInv'
    BY <1>5 DEF AloneInv
  <1>7. RowsInv'
    <2>1. \A r \in srv.rows : Dead \/ r[1] \in overlapped \/ \E h \in Running : r[1] = id[h]
      BY DEF InOrder, RowsInv
    <2>2. Dead' = Dead
      BY <1>3, <1>4 DEF Dead
    <2>3. 1..calls \subseteq 1..calls'
      BY <1>1
    <2> QED BY <1>2, <1>3, <2>1, <2>2, <2>3 DEF InOrder, RowsInv
  <1>8. ProgressInv'
    <2> SUFFICES ASSUME NEW h \in Running', id'[h] \notin overlapped' PROVE Progress(h)'
      BY DEF ProgressInv
    <2>1. h = g /\ Running = {}
      BY <1>5
    <2>2. calls + 1 \notin 1..calls
      BY <1>1
    <2>3. <<calls + 1, "nil">> \notin results
      BY <2>2 DEF InOrder, RowsInv
    <2>4. srv.stored \cap Rows(calls + 1) = {}
      BY <2>2 DEF InOrder, RowsInv, Rows
    <2>5. srv.tx = "none" \/ conn.status = "closed"
      BY <1>3, <2>1, UseClean DEF CleanWhenIdle
    <2>6. ~Answered(g)'
      BY <1>2, <1>3 DEF Answered
    <2> QED BY <1>2, <1>3, <1>4, <2>1, <2>3, <2>4, <2>5, <2>6 DEF Progress, StoredOf
  <1>9. ReturnedInv'
    <2> SUFFICES ASSUME NEW i \in (1..calls \ overlapped)', \A h \in Running' : id'[h] # i
                 PROVE  /\ StoredOf(i)' \in {{}, Rows(i)}
                        /\ <<i, "nil">> \in results' => Rows(i) \subseteq srv'.stored
      BY DEF ReturnedInv, Rows
    <2>1. i # calls + 1 /\ i \notin overlapped /\ \A h \in Running : id[h] # i
      BY <1>2, <1>3
    <2>2. i \in 1..calls
      BY <1>1, <2>1
    <2> QED BY <1>3, <2>1, <2>2 DEF InOrder, ReturnedInv, StoredOf, Rows
  <1> QED BY <1>6, <1>7, <1>8, <1>9 DEF InOrder

(* A step of a command, whatever the server does. *)
LEMMA ServerCall ==
  ASSUME TypeInv, InOrder, UNCHANGED <<pc, row, calls, id, results, overlapped>>,
         srv.stored \subseteq srv'.stored, srv'.stored \subseteq srv.stored \cup Touched,
         srv'.rows \subseteq Touched,
         Dead => Dead' /\ srv'.stored = srv.stored /\ srv'.rows \subseteq srv.rows,
         \A g \in Running : Running = {g} /\ Progress(g) => Progress(g)'
  PROVE  InOrder'
  <1>0. /\ Running' = Running /\ \A h \in Running : id[h] \in 1..calls
        /\ overlapped \subseteq 1..calls
    BY DEF Running, TypeInv, TypeOK
  <1>1. AloneInv'
    BY <1>0 DEF InOrder, AloneInv
  <1>2. RowsInv'
    <2>1. \A r \in Touched :
            Dead \/ r[1] \in overlapped \/ \E g \in Running : r[1] = id[g]
      BY DEF Touched, InOrder, RowsInv
    <2>2. \A r \in srv'.stored : r[1] \in 1..calls
      BY <1>0, <2>1 DEF InOrder, RowsInv
    <2> QED BY <1>0, <2>1, <2>2 DEF InOrder, RowsInv
  <1>3. ProgressInv'
    BY <1>0 DEF InOrder, AloneInv, ProgressInv
  <1>4. ReturnedInv'
    <2> SUFFICES ASSUME NEW i \in 1..calls \ overlapped, \A h \in Running : id[h] # i
                 PROVE  /\ StoredOf(i)' \in {{}, Rows(i)}
                        /\ <<i, "nil">> \in results => Rows(i) \subseteq srv'.stored
      BY <1>0 DEF ReturnedInv, Rows
    <2>1. srv'.stored \cap Rows(i) = StoredOf(i)
      <3>1. CASE Dead
        BY <3>1 DEF StoredOf
      <3>2. CASE ~Dead
        BY <3>2, StoredElsewhere DEF InOrder
      <3> QED BY <3>1, <3>2
    <2> QED BY <2>1 DEF InOrder, ReturnedInv, StoredOf, Rows
  <1> QED BY <1>1, <1>2, <1>3, <1>4 DEF InOrder

(* A step that the server has no part in. *)
LEMMA FrameCall ==
  ASSUME TypeInv, InOrder, UNCHANGED <<srv, pc, row, calls, id, results, overlapped>>,
         conn'.up => conn.up, conn.status = "closed" => conn'.status = "closed",
         \A g \in Running : /\ Waiting(g)' => Waiting(g)
                            /\ Answered(g)' => Answered(g)
                            /\ g \in InFlight' => g \in InFlight \/ conn.status # "closed"
  PROVE  InOrder'
  <1>1. \A i : StoredOf(i)' = StoredOf(i)
    BY DEF StoredOf, Rows
  <1>2. ASSUME NEW g \in Running, Progress(g) PROVE Progress(g)'
    BY <1>1, <1>2 DEF Progress, Rows
  <1>3. Dead => Dead'
    <2>1. InFlight' \subseteq Running
      BY DEF InFlight, Running
    <2> QED BY <2>1 DEF Dead
  <1>4. srv.rows \subseteq Touched
    BY DEF Touched
  <1> QED BY <1>2, <1>3, <1>4, ServerCall

(* An answer. *)
LEMMA AnswerCall ==
  ASSUME TypeInv, UseInv, InOrder, NEW g \in Caller, Answer(g)
  PROVE  InOrder'
  <1>0. /\ g \in Running /\ at[g] = "sent" /\ conn.up /\ Alive /\ TxInv
        /\ g \in InFlight
    BY Runs DEF Answer, InFlight, UseInv
  <1>1. UNCHANGED <<pc, row, calls, id, results, overlapped>>
    BY DEF Answer, call
  <1>2. PICK o \in Outcomes(g) : srv' = o.srv /\ res' = [res EXCEPT ![g] = o.res]
    BY DEF Answer
  <1>3. at'[g] = "done" /\ res'[g] = o.res
    BY <1>0, <1>2, Typed DEF Answer
  <1>4. ASSUME Progress(g) PROVE Progress(g)'
    <2>1. /\ pc[g] # "commit" => srv'.stored = srv.stored
          /\ pc[g] = "commit" => srv'.stored = srv.stored \cup Rows(id[g])
          /\ pc[g] = "begin" => srv'.tx = "open" /\ srv'.rows = {}
          /\ pc[g] = "stmt" /\ o.res = "ok" =>
               /\ srv'.tx = "open"
               /\ srv'.rows = {<<id[g], k>> : k \in 1..row[g]}
      BY <1>0, <1>2, <1>4, LoneOutcome
    <2>2. ~Waiting(g)' /\ (Answered(g)' => o.res = "ok")
      BY <1>3 DEF Waiting, Answered
    <2>3. CASE pc[g] # "commit"
      <3>1. StoredOf(id[g])' = StoredOf(id[g])
        BY <1>1, <2>1, <2>3 DEF StoredOf, Rows
      <3> QED BY <1>1, <1>4, <2>1, <2>2, <2>3, <3>1 DEF Progress, Rows
    <2>4. CASE pc[g] = "commit"
      <3>1. StoredOf(id[g])' = Rows(id[g])
        BY <1>1, <2>1, <2>4 DEF StoredOf, Rows
      <3> QED BY <1>1, <1>4, <2>2, <2>4, <3>1 DEF Progress, Rows
    <2> QED BY <2>3, <2>4
  <1>5. /\ srv.stored \subseteq srv'.stored /\ srv'.rows \subseteq Touched
        /\ srv'.stored \subseteq srv.stored \cup Touched
    BY <1>0, <1>2, OutcomeRows
  <1>6. ~Dead
    BY <1>0 DEF Dead
  <1> QED BY <1>0, <1>1, <1>4, <1>5, <1>6, ServerCall

(* The connection goes down. *)
LEMMA CutCall ==
  ASSUME TypeInv, TxInv, InOrder, UNCHANGED <<pc, row, calls, id, results, overlapped>>,
         srv' \in Cut, ~conn'.up, conn.status = "closed" => conn'.status = "closed",
         \A g \in Running : /\ at'[g] # at[g] => at'[g] = "return" /\ res'[g] = "error"
                            /\ at'[g] = at[g] => res'[g] = res[g]
  PROVE  InOrder'
  <1>0. Running' = Running
    BY DEF Running
  <1>1. InFlight' \subseteq InFlight
    BY <1>0 DEF InFlight
  <1>2. /\ srv.stored \subseteq srv'.stored /\ srv'.rows \subseteq srv.rows
        /\ srv'.stored \subseteq srv.stored \cup Touched
        /\ InFlight = {} => srv'.stored = srv.stored
    BY CutRows
  <1>3. Dead => Dead'
    BY <1>1 DEF Dead
  <1>4. ASSUME NEW g \in Running, Running = {g}, Progress(g) PROVE Progress(g)'
    <2>1. \/ srv'.stored = srv.stored
          \/ /\ pc[g] = "commit" /\ at[g] \in {"sent", "failed"}
             /\ srv'.stored = srv.stored \cup Rows(id[g])
      BY <1>4, LoneCut
    <2>2. /\ Waiting(g)' => Waiting(g)
          /\ Answered(g)' => Answered(g)
      BY DEF Waiting, Answered
    <2>3. srv.tx = "none" => srv'.tx = "none"
      BY CutOutcome
    <2>4. CASE srv'.stored = srv.stored
      <3>1. StoredOf(id[g])' = StoredOf(id[g])
        BY <2>4 DEF StoredOf, Rows
      <3> QED BY <1>1, <1>4, <2>2, <2>3, <3>1 DEF Progress, Rows
    <2>5. CASE pc[g] = "commit" /\ srv'.stored = srv.stored \cup Rows(id[g])
      <3>1. StoredOf(id[g])' = Rows(id[g])
        BY <2>5 DEF StoredOf, Rows
      <3> QED BY <1>4, <2>5, <3>1 DEF Progress, Rows
    <2> QED BY <2>1, <2>4, <2>5
  <1>5. srv'.rows \subseteq Touched
    BY <1>2 DEF Touched
  <1> QED BY <1>2, <1>3, <1>4, <1>5, ServerCall DEF Dead

(* A command returns, and what it has written stays or, if it takes the    *)
(* connection along, is discarded.                                         *)
LEMMA EndCall ==
  ASSUME TypeInv, UseInv, InOrder, CleanWhenIdle', Alive', NEW g \in Running,
         at[g] = "return", Proceed(g), srv' = srv \/ (srv' = Discard(srv) /\ ~conn'.up),
         conn'.up => conn.up, conn.status = "closed" => conn'.status = "closed"
  PROVE  InOrder'
  <1>0. /\ g \in Caller /\ srv \in Srv /\ row[g] \in 1..Stmts
        /\ pc[g] \in {"begin", "stmt", "commit", "rollback"}
        /\ \A h \in Running : id[h] \in 1..calls /\ h \in Caller
    BY Typed
  <1>1. /\ pc'[g] = Following(g) /\ at'[g] = "call"
        /\ \A h \in Caller \ {g} : id'[h] = id[h]
        /\ Following(g) # "idle" => id'[g] = id[g]
        /\ Running' = IF Following(g) = "idle" THEN Running \ {g} ELSE Running
        /\ InFlight' = InFlight /\ calls' = calls /\ overlapped' = overlapped
    BY Proceeded
  <1>2. /\ results' \subseteq results \cup {<<id[g], "nil">>, <<id[g], "error">>}
        /\ Following(g) # "idle" => results' = results
        /\ ~(pc[g] = "commit" /\ res[g] = "ok") =>
             results' \subseteq results \cup {<<id[g], "error">>}
    BY DEF Proceed
  <1>3. srv'.stored = srv.stored /\ srv'.rows \subseteq srv.rows
    BY <1>0, Discarded
  <1>4. Running' \subseteq Running /\ \A h \in Running' : id'[h] = id[h]
    BY <1>0, <1>1
  <1>5. Dead => Dead'
    BY <1>1 DEF Dead
  <1>6. AloneInv'
    BY <1>1, <1>4 DEF InOrder, AloneInv
  <1>7. RowsInv'
    <2>1. \A x \in results' : x[1] \in 1..calls
      BY <1>0, <1>2 DEF InOrder, RowsInv
    <2>2. \A r \in srv'.stored : r[1] \in 1..calls
      BY <1>3 DEF InOrder, RowsInv
    <2>3. ASSUME NEW r \in srv'.rows
          PROVE  Dead' \/ r[1] \in overlapped \/ \E h \in Running' : r[1] = id'[h]
      <3>1. Dead \/ r[1] \in overlapped \/ \E h \in Running : r[1] = id[h]
        BY <1>3, <2>3 DEF InOrder, RowsInv
      <3>2. CASE r[1] = id[g] /\ r[1] \notin overlapped /\ Following(g) = "idle"
        <4>1. Running' = {}
          BY <1>1, <3>2 DEF InOrder, AloneInv
        <4>2. conn'.status = "closed"
          BY <2>3, <4>1 DEF CleanWhenIdle
        <4>3. InFlight' = {}
          BY <4>1 DEF InFlight
        <4> QED BY <4>2, <4>3 DEF Dead
      <3> QED BY <1>1, <1>4, <1>5, <3>1, <3>2
    <2> QED BY <1>1, <2>1, <2>2, <2>3 DEF RowsInv
  <1>8. ProgressInv'
    <2> SUFFICES ASSUME NEW h \in Running', id[h] \notin overlapped PROVE Progress(h)'
      BY <1>1, <1>4 DEF ProgressInv
    <2>1. h = g /\ Progress(g) /\ Following(g) # "idle"
      BY <1>1, <1>4 DEF InOrder, AloneInv, ProgressInv
    <2>2. /\ pc[g] \in {"begin", "stmt"} /\ pc'[g] \in {"stmt", "commit", "rollback"}
          /\ id'[g] = id[g] /\ results' = results
      BY <1>0, <1>1, <1>2, <2>1, FollowingCases
    <2>3. StoredOf(id[g])' = {}
      BY <1>3, <2>1, <2>2 DEF Progress, StoredOf, Rows
    <2>4. ~Answered(g)'
      BY <1>1 DEF Answered
    <2>5. ASSUME conn'.up, pc'[g] \in {"stmt", "commit"}
          PROVE  /\ srv'.tx = "open"
                 /\ pc'[g] = "stmt" =>
                      srv'.rows = {<<id[g], k>> : k \in 1..(row'[g] - 1)}
                 /\ pc'[g] = "commit" => srv'.rows = Rows(id[g])
      <3>1. srv' = srv /\ conn.up
        BY <2>5
      <3>2. res[g] = "ok" /\ Answered(g)
        BY <1>1, <2>2, <2>5, FollowingCases DEF Answered
      <3>3. row' = [row EXCEPT ![g] =
                      IF pc[g] = "stmt" /\ Following(g) = "stmt" THEN @ + 1 ELSE 1]
        BY DEF Proceed
      <3>4. row'[g] = IF pc[g] = "stmt" /\ Following(g) = "stmt" THEN row[g] + 1 ELSE 1
        BY <1>0, <3>3, Typed
      <3>5. CASE pc[g] = "begin"
        <4>1. pc'[g] = "stmt" /\ row'[g] - 1 = 0 /\ 1..0 = {}
          BY <1>1, <3>2, <3>4, <3>5, FollowingCases
        <4>2. {<<id[g], k>> : k \in 1..(row'[g] - 1)} = {}
          BY <4>1
        <4> QED BY <2>1, <3>1, <3>2, <3>5, <4>1, <4>2 DEF Progress
      <3>6. CASE pc[g] = "stmt"
        <4>1. srv.tx = "open" /\ srv.rows = {<<id[g], k>> : k \in 1..row[g]}
          BY <2>1, <3>1, <3>2, <3>6 DEF Progress
        <4>2. CASE row[g] < Stmts
          <5>1. pc'[g] = "stmt" /\ row'[g] - 1 = row[g]
            BY <1>0, <1>1, <3>2, <3>4, <3>6, <4>2, FollowingCases, BoundsAssumption
          <5> QED BY <3>1, <4>1, <5>1
        <4>3. CASE ~(row[g] < Stmts)
          <5>1. pc'[g] = "commit" /\ row[g] = Stmts
            BY <1>0, <1>1, <3>2, <3>6, <4>3, FollowingCases, BoundsAssumption
          <5> QED BY <3>1, <4>1, <5>1 DEF Rows
        <4> QED BY <4>2, <4>3
      <3> QED BY <2>2, <3>5, <3>6
    <2> QED BY <2>1, <2>2, <2>3, <2>4, <2>5 DEF Progress, Rows
  <1>9. ReturnedInv'
    <2> SUFFICES ASSUME NEW i \in 1..calls \ overlapped, \A h \in Running' : id[h] # i
                 PROVE  /\ StoredOf(i) \in {{}, Rows(i)}
                        /\ <<i, "nil">> \in results' => Rows(i) \subseteq srv.stored
      BY <1>1, <1>3, <1>4 DEF ReturnedInv, StoredOf, Rows
    <2>1. CASE \A h \in Running : id[h] # i
      <3>1. <<i, "nil">> \in results' => <<i, "nil">> \in results
        BY <1>2, <2>1
      <3> QED BY <2>1, <3>1 DEF InOrder, ReturnedInv
    <2>2. CASE \E h \in Running : id[h] = i
      <3>1. i = id[g] /\ Progress(g)
        BY <1>1, <2>2 DEF InOrder, AloneInv, ProgressInv
      <3>2. <<i, "nil">> \in results' => pc[g] = "commit" /\ res[g] = "ok"
        BY <1>2, <3>1 DEF Progress
      <3>3. pc[g] = "commit" /\ res[g] = "ok" => StoredOf(i) = Rows(i)
        BY <3>1 DEF Progress, Answered
      <3> QED BY <3>1, <3>2, <3>3 DEF Progress, StoredOf
    <2> QED BY <2>1, <2>2
  <1> QED BY <1>6, <1>7, <1>8, <1>9 DEF InOrder

(* Every step keeps the rows of every call in order. *)
LEMMA NextCall ==
  ASSUME TypeInv, UseInv, CallInv, CleanWhenIdle', [Next]_vars
  PROVE  CallInv'
  <1> SUFFICES ASSUME ~raced' PROVE InOrder'
    BY DEF CallInv
  <1>0. /\ conn \in ConnState /\ at \in [Caller -> Place] /\ res \in [Caller -> Result]
        /\ Running \subseteq Caller
    BY Typed DEF Running
  <1>1. ASSUME Alive PROVE InOrder /\ TxInv
    BY <1>1 DEF Alive, CallInv, UseInv
  <1>2. ASSUME NEW g \in Caller, Enter(g) PROVE InOrder'
    BY <1>1, <1>2, EnterCall DEF Enter
  <1>3. ASSUME NEW g \in Running, UNCHANGED <<srv, pc, row, calls, id, results, overlapped>>,
               Alive, conn'.up = conn.up, conn.status = "closed" => conn'.status = "closed",
               \A h \in Caller \ {g} : at'[h] = at[h] /\ res'[h] = res[h],
               Waiting(g)' => Waiting(g), Answered(g)' => Answered(g),
               \/ g \in InFlight \/ conn.status # "closed"
               \/ at'[g] \notin {"busy", "watch", "sent", "failed", "done"}
        PROVE  InOrder'
    <2>1. \A h \in Running \ {g} : /\ Waiting(h)' => Waiting(h)
                                   /\ Answered(h)' => Answered(h)
                                   /\ h \in InFlight' => h \in InFlight
      BY <1>0, <1>3 DEF Waiting, Answered, InFlight, Running
    <2>2. g \in InFlight' => g \in InFlight \/ conn.status # "closed"
      BY <1>3 DEF InFlight
    <2>3. InOrder
      BY <1>1, <1>3
    <2> QED BY <1>3, <2>1, <2>2, <2>3, FrameCall
  <1>4. ASSUME NEW g \in Caller, LockError(g) PROVE InOrder'
    <2>1. /\ Alive /\ g \in Running /\ at'[g] = "return" /\ res'[g] = "error"
          /\ \A h \in Caller \ {g} : at'[h] = at[h] /\ res'[h] = res[h]
          /\ UNCHANGED <<conn, srv, call>>
      BY <1>0, <1>4 DEF LockError
    <2>2. ~Waiting(g)' /\ ~Answered(g)'
      BY <2>1 DEF Waiting, Answered
    <2> QED BY <1>3, <2>1, <2>2 DEF call
  <1>5. ASSUME NEW g \in Caller, LockRead(g) PROVE InOrder'
    <2>1. /\ Alive /\ g \in Running /\ at[g] = "call" /\ at'[g] = "lock"
          /\ \A h \in Caller \ {g} : at'[h] = at[h] /\ res'[h] = res[h]
          /\ UNCHANGED <<conn, srv, call>>
      BY <1>0, <1>5 DEF LockRead
    <2>2. Waiting(g) /\ ~Answered(g)'
      BY <2>1 DEF Waiting, Answered
    <2> QED BY <1>3, <2>1, <2>2 DEF call
  <1>6. ASSUME NEW g \in Caller, Lock(g) PROVE InOrder'
    <2>0. conn.status = "idle"
      BY <1>6 DEF Lock
    <2>1. /\ Alive /\ g \in Running /\ at[g] = "lock" /\ at'[g] = "busy"
          /\ \A h \in Caller \ {g} : at'[h] = at[h] /\ res'[h] = res[h]
          /\ UNCHANGED <<srv, call>>
      BY <1>0, <1>6, <2>0, Runs DEF Step, Lock
    <2>2. Waiting(g) /\ ~Answered(g)'
      BY <2>1 DEF Waiting, Answered
    <2>3. conn'.up = conn.up
      BY <1>6, <2>0, ConnSteps
    <2> QED BY <1>3, <2>0, <2>1, <2>2, <2>3 DEF call
  <1>7. ASSUME NEW g \in Caller, ContextAlreadyDone(g) \/ Done(g) PROVE InOrder'
    <2>1. /\ Alive /\ g \in Running /\ at'[g] = "return" /\ Unlock
          /\ \A h \in Caller \ {g} : at'[h] = at[h] /\ res'[h] = res[h]
          /\ UNCHANGED <<srv, call>>
      BY <1>0, <1>7, Runs DEF Step, ContextAlreadyDone, Done
    <2>2. (at[g] = "done" /\ res'[g] = res[g]) \/ res'[g] = "error"
      BY <1>0, <1>7 DEF ContextAlreadyDone, Done
    <2>3. ~Waiting(g)' /\ (Answered(g)' => Answered(g))
      BY <2>1, <2>2 DEF Waiting, Answered
    <2>4. conn'.up = conn.up /\ (conn.status = "closed" => conn'.status = "closed")
      BY <1>0, <2>1, Unlocked
    <2> QED BY <1>3, <2>1, <2>3, <2>4 DEF call
  <1>8. ASSUME NEW g \in Caller, Watch(g) PROVE InOrder'
    <2>1. /\ Alive /\ g \in Running /\ at[g] = "busy" /\ at'[g] \in {"busy", "watch"}
          /\ \A h \in Caller \ {g} : at'[h] = at[h] /\ res'[h] = res[h]
          /\ UNCHANGED <<conn, srv, call>>
      BY <1>0, <1>8, Runs DEF Step, Watch
    <2>2. Waiting(g) /\ ~Answered(g)' /\ g \in InFlight
      BY <2>1 DEF Waiting, Answered, InFlight
    <2> QED BY <1>3, <2>1, <2>2 DEF call
  <1>9. ASSUME NEW g \in Caller, Send(g) \/ Broken(g) PROVE InOrder'
    <2>1. /\ Alive /\ g \in Running /\ at[g] \in {"watch", "sent"}
          /\ at'[g] \in {"sent", "failed"}
          /\ \A h \in Caller \ {g} : at'[h] = at[h] /\ res'[h] = res[h]
          /\ UNCHANGED <<srv, call>>
      BY <1>0, <1>9, Runs DEF Step, Send, Broken
    <2>2. Waiting(g) /\ ~Answered(g)' /\ g \in InFlight
      BY <2>1 DEF Waiting, Answered, InFlight
    <2>3. conn'.up = conn.up /\ conn'.status = conn.status
      BY <1>9, ConnSteps
    <2> QED BY <1>3, <2>1, <2>2, <2>3 DEF call
  <1>10. ASSUME NEW g \in Caller, Answer(g) PROVE InOrder'
    BY <1>1, <1>10, AnswerCall DEF Answer
  <1>11. ASSUME NEW g \in Caller, AsyncClose(g) PROVE InOrder'
    <2>1. /\ Alive /\ srv' \in Cut /\ at'[g] = "return" /\ res'[g] = "error"
          /\ \A h \in Caller \ {g} : at'[h] = at[h] /\ res'[h] = res[h]
          /\ at[g] = "failed" /\ UNCHANGED call
      BY <1>0, <1>11 DEF AsyncClose
    <2>2. ~conn'.up /\ conn'.status = "closed"
      BY <1>11, ConnSteps
    <2>3. \A h \in Running : /\ at'[h] # at[h] => at'[h] = "return" /\ res'[h] = "error"
                             /\ at'[h] = at[h] => res'[h] = res[h]
      BY <1>0, <2>1
    <2>4. InOrder /\ TxInv
      BY <1>1, <2>1
    <2> QED BY <2>1, <2>2, <2>3, <2>4, CutCall DEF call
  <1>12. ASSUME NEW g \in Caller, Return(g) PROVE InOrder'
    <2>1. /\ Alive /\ g \in Running /\ at[g] = "return" /\ Proceed(g)
          /\ conn' = conn /\ srv' = srv /\ Alive'
      BY <1>12, Runs DEF Step, Return, Alive
    <2>2. InOrder
      BY <1>1, <2>1
    <2> QED BY <2>1, <2>2, EndCall
  <1>13. ASSUME NEW g \in Caller, Die(g), panicked' PROVE InOrder'
    <2>1. Alive /\ UNCHANGED <<srv, at, res, call>>
      BY <1>13 DEF Die
    <2>2. ~conn'.up /\ conn'.status = "closed"
      BY <1>13, ConnSteps
    <2>3. \A h \in Running : /\ Waiting(h)' = Waiting(h) /\ Answered(h)' = Answered(h)
                             /\ h \in InFlight' => h \in InFlight
      BY <2>1 DEF Waiting, Answered, InFlight, Running, call
    <2>4. InOrder
      BY <1>1, <2>1
    <2> QED BY <2>1, <2>2, <2>3, <2>4, FrameCall DEF call
  <1>14. ASSUME NEW g \in Caller, Die(g), ~panicked' PROVE InOrder'
    <2>1. /\ Alive /\ g \in Running /\ at[g] = "return" /\ Proceed(g)
          /\ srv' = Discard(srv) /\ Alive'
      BY <1>14, Runs DEF Step, Die, Alive
    <2>2. ~conn'.up /\ conn'.status = "closed"
      BY <1>14, ConnSteps
    <2>3. InOrder
      BY <1>1, <2>1
    <2> QED BY <2>1, <2>2, <2>3, EndCall
  <1>15. ASSUME UNCHANGED <<conn, srv, pc, at, res, row, calls, id, results, overlapped>>,
                InOrder
         PROVE  InOrder'
    <2>1. \A h \in Running : /\ Waiting(h)' = Waiting(h) /\ Answered(h)' = Answered(h)
                             /\ h \in InFlight' => h \in InFlight
      BY <1>15 DEF Waiting, Answered, InFlight, Running
    <2> QED BY <1>15, <2>1, FrameCall
  <1>16. ASSUME NEW g \in Caller, Expire(g) PROVE InOrder'
    BY <1>1, <1>15, <1>16 DEF Expire
  <1>17. ASSUME Disconnect PROVE InOrder'
    <2>1. Alive /\ srv' \in Cut /\ UNCHANGED <<at, res, call>>
      BY <1>17 DEF Disconnect
    <2>2. ~conn'.up /\ conn'.status = conn.status
      BY <1>17, ConnFaults
    <2>3. InOrder /\ TxInv
      BY <1>1, <2>1
    <2> QED BY <2>1, <2>2, <2>3, CutCall DEF call
  <1>18. ASSUME Shutdown PROVE InOrder'
    <2>1. Alive /\ UNCHANGED <<srv, at, res, call>>
      BY <1>18 DEF Shutdown
    <2>2. conn'.up = conn.up /\ conn'.status = "closed"
      BY <1>18, ConnFaults
    <2>3. \A h \in Running : /\ Waiting(h)' = Waiting(h) /\ Answered(h)' = Answered(h)
                             /\ h \in InFlight' => h \in InFlight
      BY <2>1 DEF Waiting, Answered, InFlight, Running, call
    <2>4. InOrder
      BY <1>1, <2>1
    <2> QED BY <2>1, <2>2, <2>3, <2>4, FrameCall DEF call
  <1>19. CASE UNCHANGED vars
    BY <1>15, <1>19 DEF vars, CallInv
  <1> QED BY <1>2, <1>4, <1>5, <1>6, <1>7, <1>8, <1>9, <1>10, <1>11, <1>12, <1>13,
             <1>14, <1>16, <1>17, <1>18, <1>19
          DEF Next, Step

(* The rows of every call are in order always. *)
LEMMA CallInvariant == Spec => []CallInv
  <1>1. Init => CallInv
    BY InitCall
  <1>2. TypeInv /\ UseInv /\ CallInv /\ CleanWhenIdle' /\ [Next]_vars => CallInv'
    BY NextCall
  <1> QED BY <1>1, <1>2, UseInvariant, ConnLeftClean, PTL DEF Spec

(* A call of InsertOrUpdateHostFlows that overlaps no other stores all of  *)
(* its rows or none, and all of them if it returns nil, whatever fails and *)
(* however many calls overlap before and after it, unless commands have    *)
(* raced (db.go:139-146, 275).                                             *)
THEOREM CallsAllOrNothing == Spec => []AllOrNothing
  <1>1. CallInv => AllOrNothing
    <2> SUFFICES ASSUME InOrder, NEW i \in 1..calls \ overlapped
                 PROVE  /\ srv.stored \cap Rows(i) \in {{}, Rows(i)}
                        /\ <<i, "nil">> \in results => Rows(i) \subseteq srv.stored
      BY DEF AllOrNothing, CallInv
    <2>1. CASE \A g \in Running : id[g] # i
      BY <2>1 DEF InOrder, ReturnedInv, StoredOf
    <2>2. CASE \E g \in Running : id[g] = i
      BY <2>2 DEF InOrder, ProgressInv, Progress, StoredOf
    <2> QED BY <2>1, <2>2
  <1> QED BY <1>1, CallInvariant, PTL

-----------------------------------------------------------------------------
(* Serial calls *)

(* As long as nothing failed and no calls overlapped, the connection is    *)
(* open, no context is done, and no command but a statement has failed.    *)
QuietInv ==
  ~fault /\ overlapped = {} =>
    /\ Alive /\ conn.status # "closed" /\ conn.up
    /\ \A g \in Caller : ~expired[g] /\ at[g] # "failed"
    /\ \A g \in Running : at[g] \in {"done", "return"} /\ pc[g] # "stmt" => res[g] # "error"

(* Every step of serial calls keeps the connection. *)
LEMMA NextQuiet ==
  ASSUME TypeInv, UseInv, CallInv, QuietInv, [Next]_vars
  PROVE  QuietInv'
  <1> SUFFICES ASSUME ~fault', overlapped' = {} PROVE QuietInv'
    BY DEF QuietInv
  <1>0. /\ conn \in ConnState /\ at \in [Caller -> Place] /\ res \in [Caller -> Result]
        /\ srv \in Srv /\ pc \in [Caller -> Command] /\ Running \subseteq Caller
        /\ expired \in [Caller -> BOOLEAN]
        /\ \A g \in Caller : at[g] # "call" => g \in Running
    BY Typed DEF Running, TypeInv, TypeOK
  <1>1. ~(Disconnect \/ Shutdown \/ \E g \in Caller : Expire(g))
    BY DEF Disconnect, Shutdown, Expire
  <1>2. ~fault /\ overlapped = {}
    <2>1. ASSUME NEW g \in Caller, Enter(g)
          PROVE  fault' = fault /\ overlapped \subseteq overlapped'
      BY <2>1 DEF Enter
    <2>2. ASSUME NEW g \in Caller, LockError(g) \/ LockRead(g) \/ Lock(g) \/ Watch(g)
          PROVE  fault' = fault /\ overlapped' = overlapped
      BY <2>2 DEF LockError, LockRead, Lock, Watch, call
    <2>3. ASSUME NEW g \in Caller,
                 \/ ContextAlreadyDone(g) \/ Send(g) \/ Done(g) \/ Broken(g)
                 \/ AsyncClose(g) \/ Answer(g)
          PROVE  fault' = fault /\ overlapped' = overlapped
      BY <2>3 DEF ContextAlreadyDone, Send, Done, Broken, AsyncClose, Answer, call
    <2>4. ASSUME NEW g \in Caller, Return(g) \/ Die(g)
          PROVE  fault' = fault /\ overlapped' = overlapped
      BY <2>4 DEF Return, Die, Proceed, call
    <2>5. CASE UNCHANGED vars
      BY <2>5 DEF vars
    <2> QED BY <1>1, <2>1, <2>2, <2>3, <2>4, <2>5 DEF Next, Step
  <1>3. /\ Alive /\ conn.status # "closed" /\ conn.up
        /\ \A g \in Caller : ~expired[g] /\ at[g] # "failed"
        /\ \A g \in Running : at[g] \in {"done", "return"} /\ pc[g] # "stmt" =>
                              res[g] # "error"
        /\ LockInv /\ WatchInv /\ TxInv /\ InOrder
    BY <1>2 DEF QuietInv, UseInv, CallInv, Alive
  <1>4. \A g, h \in Running : g = h
    BY <1>2, <1>3 DEF InOrder, AloneInv
  <1>5. ASSUME NEW g \in Caller, at[g] \in {"call", "lock"}, g \in Running
        PROVE  conn.status = "idle"
    <2>1. InFlight = {}
      BY <1>4, <1>5 DEF InFlight
    <2> QED BY <1>0, <1>3, <2>1 DEF LockInv, ConnState
  <1>6. ASSUME NEW g \in Running, TouchIfStmt(g) \/ Touch(g) PROVE ~raced'
    BY <1>3, <1>4, <1>6 DEF TouchIfStmt, Touch, Alive
  <1>7. ASSUME NEW g \in Running, Alive', conn'.status # "closed", conn'.up,
               UNCHANGED <<pc, expired>>, at'[g] # "failed",
               at'[g] \in {"done", "return"} /\ pc[g] # "stmt" => res'[g] # "error",
               \A h \in Caller \ {g} : at'[h] = at[h] /\ res'[h] = res[h]
        PROVE  QuietInv'
    BY <1>0, <1>3, <1>7 DEF QuietInv, Running
  <1>8. ASSUME NEW g \in Caller, Enter(g) PROVE QuietInv'
    <2>1. Running = {}
      BY <1>8 DEF Enter
    <2>2. \A h \in Caller : at[h] = "call"
      BY <1>0, <2>1
    <2>3. UNCHANGED <<conn, at, res, expired, panicked, raced>>
      BY <1>8 DEF Enter
    <2>4. Running' \subseteq Caller
      BY DEF Running
    <2> QED BY <1>3, <2>2, <2>3, <2>4 DEF QuietInv, Alive
  <1>9. ASSUME NEW g \in Caller, LockError(g) PROVE FALSE
    BY <1>5, <1>9 DEF LockError
  <1>10. ASSUME NEW g \in Caller, LockRead(g) PROVE QuietInv'
    <2>1. /\ g \in Running /\ at'[g] = "lock" /\ UNCHANGED <<conn, pc, expired, panicked>>
          /\ \A h \in Caller \ {g} : at'[h] = at[h] /\ res'[h] = res[h]
          /\ TouchIfStmt(g)
      BY <1>0, <1>10 DEF LockRead, call
    <2>2. Alive'
      BY <1>3, <1>6, <2>1 DEF Alive
    <2> QED BY <1>3, <1>7, <2>1, <2>2
  <1>11. ASSUME NEW g \in Caller, Lock(g) PROVE QuietInv'
    <2>1. g \in Running /\ conn.status = "idle"
      BY <1>0, <1>5, <1>11 DEF Lock
    <2>2. /\ at'[g] = "busy" /\ UNCHANGED <<pc, expired, panicked, raced>>
          /\ \A h \in Caller \ {g} : at'[h] = at[h] /\ res'[h] = res[h]
      BY <1>0, <1>11, <2>1 DEF Lock, call
    <2>3. conn'.status = "busy" /\ conn'.up
      BY <1>3, <1>11, <2>1, ConnSteps
    <2>4. Alive'
      BY <1>3, <2>2 DEF Alive
    <2> QED BY <1>7, <2>1, <2>2, <2>3, <2>4
  <1>12. ASSUME NEW g \in Caller, ContextAlreadyDone(g) PROVE FALSE
    BY <1>3, <1>12 DEF ContextAlreadyDone
  <1>13. ASSUME NEW g \in Caller, Watch(g) PROVE QuietInv'
    <2>1. g \in Running /\ at[g] = "busy"
      BY <1>0, <1>13 DEF Watch
    <2>2. ~conn.watch
      BY <1>0, <1>3, <1>4, <2>1 DEF WatchInv
    <2>3. /\ at'[g] = "watch" /\ UNCHANGED <<conn, pc, expired, panicked, raced>>
          /\ \A h \in Caller \ {g} : at'[h] = at[h] /\ res'[h] = res[h]
      BY <1>0, <1>13, <2>2 DEF Watch, call
    <2>4. Alive'
      BY <1>3, <2>3 DEF Alive
    <2> QED BY <1>3, <1>7, <2>1, <2>3, <2>4
  <1>14. ASSUME NEW g \in Caller, Send(g) PROVE QuietInv'
    <2>1. /\ g \in Running /\ at'[g] = "sent" /\ UNCHANGED <<pc, expired, panicked, raced>>
          /\ \A h \in Caller \ {g} : at'[h] = at[h] /\ res'[h] = res[h]
      BY <1>0, <1>14 DEF Send, call
    <2>2. conn'.status # "closed" /\ conn'.up
      BY <1>3, <1>14, ConnSteps
    <2>3. Alive'
      BY <1>3, <2>1 DEF Alive
    <2> QED BY <1>7, <2>1, <2>2, <2>3
  <1>15. ASSUME NEW g \in Caller, Answer(g) PROVE QuietInv'
    <2>1. /\ g \in Running /\ at[g] = "sent" /\ at'[g] = "done"
          /\ UNCHANGED <<pc, expired, panicked>> /\ Touch(g)
          /\ \A h \in Caller \ {g} : at'[h] = at[h]
      BY <1>0, <1>15 DEF Answer, call
    <2>2. PICK o \in Outcomes(g) : srv' = o.srv /\ res' = [res EXCEPT ![g] = o.res]
      BY <1>15 DEF Answer
    <2>3. res'[g] = o.res /\ \A h \in Caller \ {g} : res'[h] = res[h]
      BY <1>0, <2>2
    <2>4. pc[g] # "stmt" => o.res # "error"
      <3>1. CASE pc[g] = "begin"
        <4>1. ~Holds(g)
          BY <2>1, <3>1 DEF Holds
        <4>2. \A h \in Caller : Holds(h) => h \in Running
          BY DEF Holds, Running
        <4>3. srv.tx # "aborted"
          BY <1>3, <1>4, <2>1, <4>1, <4>2 DEF TxInv
        <4> QED BY <1>0, <3>1, <4>3, BeginOutcome
      <3>2. CASE pc[g] = "commit"
        BY <1>0, <3>2, CommitOutcome
      <3>3. CASE pc[g] = "rollback"
        BY <1>0, <3>3, RollbackOutcome
      <3> QED BY <2>1, <3>1, <3>2, <3>3, Typed
    <2>5. conn'.status # "closed" /\ conn'.up
      BY <1>3, <1>15, ConnSteps
    <2>6. Alive'
      BY <1>3, <1>6, <2>1 DEF Alive
    <2> QED BY <1>7, <2>1, <2>3, <2>4, <2>5, <2>6
  <1>16. ASSUME NEW g \in Caller, Done(g) PROVE QuietInv'
    <2>1. /\ g \in Running /\ at[g] = "done" /\ at'[g] = "return" /\ Unlock
          /\ UNCHANGED <<pc, expired, res, raced>>
          /\ \A h \in Caller \ {g} : at'[h] = at[h]
      BY <1>0, <1>16 DEF Done, call
    <2>2. conn.status = "busy"
      <3>1. g \in InFlight
        BY <2>1 DEF InFlight
      <3> QED BY <1>0, <1>3, <3>1 DEF LockInv, ConnState
    <2>3. conn'.status = "idle" /\ conn'.up /\ panicked' = panicked
      BY <1>0, <1>3, <2>1, <2>2, Unlocked
    <2>4. Alive'
      BY <1>3, <2>1, <2>3 DEF Alive
    <2>5. pc[g] # "stmt" => res'[g] # "error"
      BY <1>3, <2>1
    <2> QED BY <1>7, <2>1, <2>3, <2>4, <2>5
  <1>17. ASSUME NEW g \in Caller, Broken(g) \/ AsyncClose(g) PROVE FALSE
    BY <1>3, <1>17 DEF Broken, AsyncClose
  <1>18. ASSUME NEW g \in Caller, Return(g) PROVE QuietInv'
    <2>1. /\ g \in Running /\ at[g] = "return" /\ Proceed(g)
          /\ UNCHANGED <<conn, panicked, raced>>
      BY <1>0, <1>18 DEF Return
    <2>2. /\ at'[g] = "call" /\ Running' \subseteq Running
          /\ \A h \in Caller \ {g} : /\ pc'[h] = pc[h] /\ at'[h] = at[h]
                                     /\ res'[h] = res[h] /\ expired'[h] = expired[h]
      BY <2>1, Proceeded
    <2>3. ~expired'[g]
      BY <1>0, <1>3, <2>1 DEF Proceed
    <2>4. \A h \in Caller : ~expired'[h] /\ at'[h] # "failed"
      BY <1>3, <2>2, <2>3
    <2>5. \A h \in Running' : at'[h] \in {"done", "return"} /\ pc'[h] # "stmt" =>
                              res'[h] # "error"
      BY <1>0, <1>3, <2>2
    <2>6. Alive' /\ conn'.status # "closed" /\ conn'.up
      BY <1>3, <2>1 DEF Alive
    <2> QED BY <2>4, <2>5, <2>6 DEF QuietInv
  <1>19. ASSUME NEW g \in Caller, Die(g) PROVE FALSE
    BY <1>0, <1>3, <1>19 DEF Die, Dies
  <1>20. CASE UNCHANGED vars
    BY <1>20 DEF vars, QuietInv, Alive, Running
  <1> QED BY <1>1, <1>8, <1>9, <1>10, <1>11, <1>12, <1>13, <1>14, <1>15, <1>16, <1>17,
             <1>18, <1>19, <1>20
          DEF Next, Step

(* As long as calls do not overlap, nothing but a fault costs the          *)
(* connection, panics or lets commands race, a failing statement included, *)
(* over any number of calls (db.go:142-146, 275).                          *)
THEOREM SerialKeepsConn == Spec => []SerialCallsKeepConn
  <1>1. Init => QuietInv
    BY DEF Init, QuietInv, Running, Alive
  <1>2. TypeInv /\ UseInv /\ CallInv /\ QuietInv /\ [Next]_vars => QuietInv'
    BY NextQuiet
  <1>3. QuietInv => SerialCallsKeepConn
    BY DEF QuietInv, SerialCallsKeepConn, Alive
  <1> QED BY <1>1, <1>2, <1>3, UseInvariant, CallInvariant, PTL DEF Spec
=============================================================================
