----------------------------- MODULE CliProofs ------------------------------
(***************************************************************************)
(* Proofs about Cli, for every number of arguments and all intervals: the  *)
(* exit code 0 is never returned for something that was not done, and an   *)
(* agent runs only with intervals that PollingAgent can assume.            *)
(***************************************************************************)
EXTENDS Cli, TLAPS

-----------------------------------------------------------------------------
(* The inductive invariant *)

\* where a command that connects to the CMDB goes on
ProbePlace == {"scan", "blocked", "deadlock", "polling", "streaming", "tickers",
               "agent", "panicked", "killed"}

(* The command is where its sub command leads to.                          *)
PlaceInv ==
  /\ pc \notin {"start", "exited"} => args # <<>>
  /\ pc \in {"look", "probe", "create-scheme"} => Command = pc
  /\ pc = "connect" => Command \in {"look", "probe", "create-scheme"}
  /\ pc = "query" => Command = "look"
  /\ pc = "schema" => Command = "create-scheme"
  /\ pc \in ProbePlace => Command = "probe"

(* The mode is known once the configuration is loaded, and what RunPolling *)
(* has checked of the intervals still holds when the tickers start.        *)
ConfigInv ==
  /\ config \in [mode : {"polling", "streaming", "other"}, interval : Int, flush : Int]
  /\ pc \notin {"start", "exited"} => config.mode # "other"
  /\ pc \in {"polling", "streaming"} => config.mode = pc
  /\ pc = "tickers" /\ config.mode = "polling" =>
       config.interval <= config.flush /\ BufferSize <= MaxChan

CliInv == TypeOK /\ PlaceInv /\ ConfigInv /\ SuccessMeansDone /\ AgentIntervals

(* The channel of a / b + 1 slices holds what b of a time take.            *)
LEMMA DivProduct ==
  ASSUME NEW a \in Nat, NEW b \in Nat, b > 0
  PROVE  /\ a \div b \in Nat
         /\ (a \div b + 1) * b > a
  OBVIOUS

(* The division of Go is that of the naturals if both numbers are positive. *)
LEMMA QuoPositive ==
  ASSUME NEW a \in Int, NEW b \in Int, 0 < b, b <= a
  PROVE  Quo(a, b) \in Nat /\ (Quo(a, b) + 1) * b > a
  <1>1. Abs(a) = a /\ Abs(b) = b
    BY DEF Abs
  <1>2. ((a < 0) = (b < 0)) = TRUE
    OBVIOUS
  <1>3. a \div b \in Nat
    BY DivProduct
  <1>4. Quo(a, b) = a \div b
    BY <1>1, <1>2, <1>3 DEF Quo
  <1> QED BY <1>4, DivProduct

LEMMA InitInv == Init => CliInv
  BY BoundsAssumption
  DEF Init, CliInv, TypeOK, PlaceInv, ConfigInv, SuccessMeansDone, AgentIntervals,
      ProbePlace, exitCodeOK

-----------------------------------------------------------------------------
(* Steps *)

(* An exit code other than 0 makes no promise.                             *)
LEMMA ExitFails ==
  ASSUME CliInv, NEW c \in {fatal, exitCodeErr}, Exit(c)
  PROVE  CliInv'
  <1>1. pc' = "exited" /\ code' \in {1, 11}
    BY DEF Exit, fatal, exitCodeErr
  <1>2. SuccessMeansDone'
    BY <1>1 DEF SuccessMeansDone, exitCodeOK
  <1> QED
    BY <1>1, <1>2 DEF CliInv, TypeOK, PlaceInv, ConfigInv, AgentIntervals, ProbePlace, Exit

(* Exit code 0 of a command that promises nothing.                         *)
LEMMA ExitOK ==
  ASSUME CliInv, Exit(exitCodeOK),
         Command \notin {"create-scheme", "probe"},
         ~(Command = "look" /\ "--ipv4=ADDR" \in Parsed(Rest))
  PROVE  CliInv'
  <1>1. Command' = Command /\ Parsed(Rest)' = Parsed(Rest)
    BY DEF Exit, Command, Parsed, Rest
  <1>2. SuccessMeansDone'
    BY <1>1 DEF SuccessMeansDone
  <1> QED
    BY <1>2 DEF CliInv, TypeOK, PlaceInv, ConfigInv, AgentIntervals, ProbePlace,
                Exit, exitCodeOK, Command

(* A step to a place where the sub command leads with what is checked      *)
(* before.                                                                 *)
LEMMA GotoPlace ==
  ASSUME CliInv, NEW place, Goto(place),
         place \in {"run", "look", "probe", "create-scheme", "connect", "query", "schema",
                    "scan", "blocked", "deadlock", "polling", "streaming", "tickers",
                    "agent", "panicked", "killed"},
         args # <<>>, config.mode # "other",
         place \in {"look", "probe", "create-scheme"} => Command = place,
         place = "connect" => Command \in {"look", "probe", "create-scheme"},
         place = "query" => Command = "look",
         place = "schema" => Command = "create-scheme",
         place \in ProbePlace => Command = "probe",
         place \in {"polling", "streaming"} => config.mode = place,
         place \in {"tickers", "agent"} /\ config.mode = "polling" =>
           config.interval <= config.flush /\ BufferSize <= MaxChan,
         place = "agent" => config.interval > 0,
         place = "panicked" =>
           \/ config.interval <= 0
           \/ config.mode = "polling" /\ BufferSize > MaxChan
  PROVE  CliInv'
  <1>0. BufferSize' = BufferSize
    BY DEF BufferSize, Goto
  <1>1. TypeOK' /\ ConfigInv'
    BY <1>0 DEF CliInv, TypeOK, ConfigInv, Goto
  <1>2. PlaceInv'
    BY DEF PlaceInv, Goto, Command, ProbePlace
  <1>3. SuccessMeansDone'
    BY DEF SuccessMeansDone, Goto
  <1>4. AgentIntervals'
    <2> SUFFICES ASSUME place = "agent", config.mode = "polling"
                 PROVE  BufferSize * config.interval > config.flush
      BY <1>0 DEF AgentIntervals, Goto
    <2> QED BY QuoPositive DEF CliInv, ConfigInv, BufferSize
  <1> QED BY <1>1, <1>2, <1>3, <1>4 DEF CliInv

(* The promised result is there when Succeed exits with code 0.            *)
LEMMA SucceedDone ==
  ASSUME CliInv, NEW result \in {"looked", "schema", "agent"}, Succeed(result),
         result = "looked" => Command = "look",
         result = "schema" => Command = "create-scheme",
         result = "agent" => Command = "probe"
  PROVE  CliInv'
  <1>1. Command' = Command /\ result \in done'
    BY DEF Succeed, Command
  <1>2. SuccessMeansDone'
    BY <1>1 DEF SuccessMeansDone
  <1> QED
    BY <1>2 DEF CliInv, TypeOK, PlaceInv, ConfigInv, AgentIntervals, ProbePlace,
                Succeed, exitCodeOK, Command

LEMMA StartStep ==
  ASSUME CliInv, NoArgs \/ LoadError \/ Load
  PROVE  CliInv'
  <1>1. CASE NoArgs
    BY <1>1, ExitFails DEF NoArgs
  <1>2. CASE LoadError
    BY <1>2, ExitFails DEF LoadError
  <1>3. CASE Load
    <2>1. CASE config.mode \in {"streaming", "polling"}
      BY <1>3, <2>1, GotoPlace DEF Load, ProbePlace
    <2>2. CASE config.mode \notin {"streaming", "polling"}
      BY <1>3, <2>2, ExitFails DEF Load
    <2> QED BY <2>1, <2>2
  <1> QED BY <1>1, <1>2, <1>3

LEMMA RunStep ==
  ASSUME CliInv, Options \/ Dispatch \/ Credits \/ OtherWord
  PROVE  CliInv'
  <1>1. pc = "run" /\ args # <<>> /\ Command = args[1] /\ config.mode # "other"
    BY DEF CliInv, PlaceInv, ConfigInv, Command, Options, Dispatch, Credits, OtherWord
  <1>2. CASE Options
    <2>1. Command \notin {"look", "create-scheme", "probe"}
      BY <1>1, <1>2 DEF Options, Flag
    <2>2. Exit(exitCodeErr) \/ Exit(exitCodeOK)
      BY <1>2 DEF Options
    <2> QED BY <2>1, <2>2, ExitFails, ExitOK
  <1>3. CASE Dispatch
    <2>1. Command \in {"look", "probe", "create-scheme"} /\ Goto(Command)
      BY <1>1, <1>3 DEF Dispatch
    <2> QED BY <1>1, <2>1, GotoPlace DEF ProbePlace
  <1>4. CASE Credits
    BY <1>1, <1>4, ExitOK DEF Credits
  <1>5. CASE OtherWord
    <2>1. CASE args[1] = "other"
      BY <1>5, <2>1, ExitFails DEF OtherWord
    <2>2. CASE args[1] # "other"
      BY <1>1, <1>5, <2>2, ExitOK DEF OtherWord
    <2> QED BY <2>1, <2>2
  <1> QED BY <1>2, <1>3, <1>4, <1>5

LEMMA CommandStep ==
  ASSUME CliInv, DoLook \/ DoCreateScheme \/ DoProbe
  PROVE  CliInv'
  <1>1. args # <<>> /\ Command = pc /\ config.mode # "other"
    BY DEF CliInv, PlaceInv, ConfigInv, DoLook, DoCreateScheme, DoProbe
  <1>2. CASE DoLook
    <2>1. \/ Exit(exitCodeErr)
          \/ Goto("connect")
          \/ Exit(exitCodeOK) /\ ~("--ipv4=ADDR" \in Parsed(Rest))
      BY <1>2 DEF DoLook
    <2>2. Command = "look"
      BY <1>1, <1>2 DEF DoLook
    <2> QED BY <1>1, <2>1, <2>2, ExitFails, ExitOK, GotoPlace DEF ProbePlace
  <1>3. CASE DoCreateScheme
    <2>1. Exit(exitCodeErr) \/ Goto("connect")
      BY <1>3 DEF DoCreateScheme
    <2>2. Command = "create-scheme"
      BY <1>1, <1>3 DEF DoCreateScheme
    <2> QED BY <1>1, <2>1, <2>2, ExitFails, GotoPlace DEF ProbePlace
  <1>4. CASE DoProbe
    <2>1. CASE ParseFails(Rest, {"--once"})
      BY <1>4, <2>1, ExitFails DEF DoProbe
    <2>2. CASE ~ParseFails(Rest, {"--once"})
      <3>1. /\ once' \in BOOLEAN /\ pc' = "connect"
            /\ UNCHANGED <<args, config, done, code>>
        BY <1>4, <2>2 DEF DoProbe
      <3>2. Command' = Command /\ Command = "probe"
        BY <1>1, <1>4, <3>1 DEF Command, DoProbe
      <3> QED
        BY <1>1, <3>1, <3>2
        DEF CliInv, TypeOK, PlaceInv, ConfigInv, SuccessMeansDone, AgentIntervals, ProbePlace
    <2> QED BY <2>1, <2>2
  <1> QED BY <1>2, <1>3, <1>4

LEMMA CmdbStep ==
  ASSUME CliInv, ConnectError \/ Connect \/ Query \/ Schema
  PROVE  CliInv'
  <1>1. CASE ConnectError
    BY <1>1, ExitFails DEF ConnectError
  <1>2. CASE Connect
    <2>1. /\ args # <<>> /\ Command = args[1] /\ config.mode \in {"polling", "streaming"}
          /\ Command \in {"look", "create-scheme", "probe"}
      BY <1>2 DEF Connect, CliInv, PlaceInv, ConfigInv, Command
    <2>2. \/ Command = "look" /\ Goto("query")
          \/ Command = "create-scheme" /\ Goto("schema")
          \/ /\ Command = "probe"
             /\ \/ config.mode = "streaming" /\ Goto("streaming")
                \/ Goto("scan")
                \/ config.mode = "polling" /\ Goto("polling")
      <3>1. CASE Command = "look"
        BY <1>2, <2>1, <3>1 DEF Connect
      <3>2. CASE Command = "create-scheme"
        BY <1>2, <2>1, <3>2 DEF Connect
      <3>3. CASE Command = "probe"
        BY <1>2, <2>1, <3>3 DEF Connect
      <3> QED BY <2>1, <3>1, <3>2, <3>3
    <2> QED BY <2>1, <2>2, GotoPlace DEF ProbePlace
  <1>3. CASE Query
    <2>1. Command = "look" /\ (Succeed("looked") \/ Exit(exitCodeErr))
      BY <1>3 DEF Query, CliInv, PlaceInv
    <2> QED BY <2>1, SucceedDone, ExitFails
  <1>4. CASE Schema
    <2>1. Command = "create-scheme" /\ (Succeed("schema") \/ Exit(exitCodeErr))
      BY <1>4 DEF Schema, CliInv, PlaceInv
    <2> QED BY <2>1, SucceedDone, ExitFails
  <1> QED BY <1>1, <1>2, <1>3, <1>4

LEMMA AgentStep ==
  ASSUME CliInv,
         \/ OnceFailed \/ OnceScanned \/ RuntimeDeadlock \/ RunPolling
         \/ RunStreamingError \/ RunStreaming \/ Tickers \/ Signal
  PROVE  CliInv'
  <1>1. /\ args # <<>> /\ Command = "probe" /\ config.mode # "other"
        /\ config.interval \in Int /\ config.flush \in Int
    BY DEF CliInv, PlaceInv, ConfigInv, ProbePlace, OnceFailed, OnceScanned,
           RuntimeDeadlock, RunPolling, RunStreamingError, RunStreaming, Tickers, Signal
  <1>2. CASE OnceFailed \/ RunStreamingError
    BY <1>2, ExitFails DEF OnceFailed, RunStreamingError
  <1>3. CASE OnceScanned
    BY <1>1, <1>3, GotoPlace DEF OnceScanned, ProbePlace
  <1>4. CASE RuntimeDeadlock
    BY <1>1, <1>4, GotoPlace DEF RuntimeDeadlock, ProbePlace
  <1>5. CASE RunPolling
    <2>1. CASE config.interval > config.flush
      <3>1. ~(config.interval <= config.flush)
        BY <1>1, <2>1
      <3>2. Exit(exitCodeErr)
        BY <1>5, <2>1, <3>1 DEF RunPolling
      <3> QED BY <3>2, ExitFails
    <2>2. CASE config.interval <= config.flush /\ config.interval = 0
      <3>1. Goto("panicked")
        <4>1. ~(config.interval > config.flush)
          BY <1>1, <2>2
        <4> QED BY <1>5, <2>2, <4>1 DEF RunPolling
      <3> QED BY <1>1, <2>2, <3>1, GotoPlace DEF ProbePlace
    <2>3. CASE config.interval <= config.flush /\ config.interval # 0
      <3>1. Goto(IF MakeFails THEN "panicked" ELSE "tickers")
        <4>1. ~(config.interval > config.flush)
          BY <1>1, <2>3
        <4> QED BY <1>5, <2>3, <4>1 DEF RunPolling
      <3>2. config.interval > 0 => BufferSize \in Nat
        <4> HAVE config.interval > 0
        <4>1. Quo(config.flush, config.interval) \in Nat
          BY <1>1, <2>3, QuoPositive
        <4> QED BY <4>1 DEF BufferSize
      <3>3. pc = "polling" /\ config.mode = "polling"
        BY <1>5 DEF RunPolling, CliInv, ConfigInv
      <3>4. \/ Goto("tickers") /\ BufferSize <= MaxChan
            \/ /\ Goto("panicked")
               /\ config.interval <= 0 \/ BufferSize > MaxChan
        <4>1. CASE MakeFails
          BY <1>1, <3>1, <3>2, <4>1, BoundsAssumption DEF MakeFails
        <4>2. CASE ~MakeFails
          BY <3>1, <4>2, BoundsAssumption DEF MakeFails
        <4> QED BY <4>1, <4>2
      <3> QED BY <1>1, <2>3, <3>3, <3>4, GotoPlace DEF ProbePlace
    <2> QED BY <1>1, <2>1, <2>2, <2>3
  <1>6. CASE RunStreaming
    <2>1. Goto("tickers") /\ pc = "streaming"
      BY <1>6 DEF RunStreaming
    <2>2. config.mode = "streaming"
      BY <2>1 DEF CliInv, ConfigInv
    <2> QED BY <1>1, <2>1, <2>2, GotoPlace DEF ProbePlace
  <1>7. CASE Tickers
    <2>1. config.mode = "polling" =>
            config.interval <= config.flush /\ BufferSize <= MaxChan
      BY <1>7 DEF Tickers, CliInv, ConfigInv
    <2>2. \/ config.interval <= 0 /\ Goto("panicked")
          \/ config.interval > 0 /\ Goto("agent")
      BY <1>1, <1>7 DEF Tickers
    <2> QED BY <1>1, <2>1, <2>2, GotoPlace DEF ProbePlace
  <1>8. CASE Signal
    <2>1. Goto("killed") \/ Succeed("agent") \/ Exit(exitCodeErr)
      BY <1>8 DEF Signal
    <2> QED BY <1>1, <2>1, GotoPlace, SucceedDone, ExitFails DEF ProbePlace
  <1> QED BY <1>2, <1>3, <1>4, <1>5, <1>6, <1>7, <1>8

(* The invariant is inductive. *)
LEMMA NextInv == CliInv /\ [Next]_vars => CliInv'
  <1> SUFFICES ASSUME CliInv, [Next]_vars PROVE CliInv'
    OBVIOUS
  <1>1. CASE UNCHANGED vars
    <2>1. Command' = Command /\ Parsed(Rest)' = Parsed(Rest)
      BY <1>1 DEF vars, Command, Parsed, Rest
    <2>2. (TypeOK /\ PlaceInv /\ ConfigInv)'
      BY <1>1, <2>1 DEF vars, CliInv, TypeOK, PlaceInv, ConfigInv, BufferSize
    <2>3. SuccessMeansDone' /\ AgentIntervals'
      BY <1>1, <2>1 DEF vars, CliInv, SuccessMeansDone, AgentIntervals, BufferSize
    <2> QED BY <2>2, <2>3 DEF CliInv
  <1>2. CASE Next
    BY <1>2, StartStep, RunStep, CommandStep, CmdbStep, AgentStep DEF Next, Step
  <1> QED BY <1>1, <1>2

-----------------------------------------------------------------------------
(* Theorems *)

LEMMA Invariance == Spec => []CliInv
  BY InitInv, NextInv, PTL DEF Spec

(* The variables have their types in every reachable state of the command  *)
(* (main.go:42-118).                                                       *)
THEOREM TypeCorrect == Spec => []TypeOK
  <1>1. CliInv => TypeOK
    BY DEF CliInv
  <1> QED BY <1>1, Invariance, PTL

(* Whatever the arguments and whichever CMDB call fails, exit code 0 of    *)
(* create-scheme, probe and look with an address is only returned after    *)
(* what it stands for is done (main.go:83-115, command).                   *)
THEOREM ZeroOnlyWhenDone == Spec => []SuccessMeansDone
  <1>1. CliInv => SuccessMeansDone
    BY DEF CliInv
  <1> QED BY <1>1, Invariance, PTL

(* For all intervals, also negative ones, and every limit on the size of a *)
(* channel, an agent that runs has a positive interval, and a polling      *)
(* agent a channel with room for a flush interval; only an interval that   *)
(* is not positive or too large a channel panics (polling.go:20-26, 45;    *)
(* streaming.go:48).                                                       *)
THEOREM IntervalsOfAgents == Spec => []AgentIntervals
  <1>1. CliInv => AgentIntervals
    BY DEF CliInv
  <1> QED BY <1>1, Invariance, PTL
=============================================================================
