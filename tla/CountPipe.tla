------------------------------ MODULE CountPipe -----------------------------
(***************************************************************************)
(* What the streaming agent promises about the connections it traces: they *)
(* are counted per flow, and what is reported to the CMDB of a flow, or    *)
(* given up after an error, is never taken back and never more than was    *)
(* traced of it.                                                           *)
(***************************************************************************)
EXTENDS Naturals

CONSTANT Key        \* the UniqKeys of flows

VARIABLES
  traced,           \* traced[k]: connections of flow k
  sent,             \* sent[k]: those reported by a call that returned nil
  lost              \* lost[k]: those in a call that failed

countVars == <<traced, sent, lost>>

Init ==
  /\ traced = [k \in Key |-> 0]
  /\ sent = [k \in Key |-> 0]
  /\ lost = [k \in Key |-> 0]

Trace(k) ==
  /\ traced' = [traced EXCEPT ![k] = @ + 1]
  /\ UNCHANGED <<sent, lost>>

\* total grows by connections that are neither in it nor in the other total
Settled(total, grown, other) ==
  \A k \in Key : total[k] <= grown[k] /\ grown[k] + other[k] <= traced[k]

Report ==
  /\ Settled(sent, sent', lost)
  /\ UNCHANGED <<traced, lost>>

GiveUp ==
  /\ Settled(lost, lost', sent)
  /\ UNCHANGED <<traced, sent>>

Next == (\E k \in Key : Trace(k)) \/ Report \/ GiveUp

Spec == Init /\ [][Next]_countVars
=============================================================================
