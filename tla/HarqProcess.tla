---------------------------- MODULE HarqProcess ----------------------------
(***************************************************************************)
(* What a HARQ entity of the gNB MAC promises, one process at a time.      *)
(* A process is idle, has a transport block on the air, or waits to send   *)
(* that transport block again.  A transport block is sent at most RoundMax *)
(* times, and a process carries no second transport block before the       *)
(* first one was acknowledged or given up.                                 *)
(*                                                                         *)
(* The lists and flags of the MAC are absent: UlHarq implements this       *)
(* module through the refinement mapping stated there.                     *)
(***************************************************************************)
EXTENDS Naturals

CONSTANTS
  Pid,          \* HARQ process identifiers
  RoundMax      \* transmissions of one transport block (harq_round_max)

VARIABLES
  phase,        \* what the process is doing
  round         \* retransmission round of the transport block it carries

vars == <<phase, round>>

Phase == {"idle", "sent", "nacked"}

TypeOK ==
  /\ phase \in [Pid -> Phase]
  /\ round \in [Pid -> 0 .. RoundMax - 1]

Init ==
  /\ phase = [p \in Pid |-> "idle"]
  /\ round = [p \in Pid |-> 0]

Become(p, ph, r) ==
  /\ phase' = [phase EXCEPT ![p] = ph]
  /\ round' = [round EXCEPT ![p] = r]

Send(p) == phase[p] = "idle" /\ Become(p, "sent", 0)

Resend(p) == phase[p] = "nacked" /\ Become(p, "sent", round[p])

Nack(p) ==
  /\ phase[p] = "sent"
  /\ round[p] + 1 < RoundMax
  /\ Become(p, "nacked", round[p] + 1)

\* acknowledged, or given up after the last round
Finish(p) == phase[p] = "sent" /\ Become(p, "idle", 0)

\* the UE came back through random access: every process starts afresh
Reset ==
  /\ phase' = [p \in Pid |-> "idle"]
  /\ round' = [p \in Pid |-> 0]

Next ==
  \/ \E p \in Pid : Send(p) \/ Resend(p) \/ Nack(p) \/ Finish(p)
  \/ Reset

Spec == Init /\ [][Next]_vars
=============================================================================
