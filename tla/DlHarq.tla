------------------------------- MODULE DlHarq -------------------------------
(***************************************************************************)
(* The downlink HARQ entity of one UE in gnb_patch/gNB_scheduler_dlsch.c   *)
(* and its timing advance command.  A downlink slot has two stages under   *)
(* sched_lock: the preprocessor (pf_dl) plans a PDSCH and leaves it in     *)
(* sched_pdsch, then nr_schedule_ue_spec moves the process between the     *)
(* lists, fills in the DCI and saves what a retransmission needs.  Nothing *)
(* else runs between the two, so the actions of other paths require        *)
(* stage = "slot".                                                         *)
(*                                                                         *)
(* What the UE reports on the PUCCH, and random access, are external.      *)
(***************************************************************************)
EXTENDS Integers, Sequences, FiniteSets, Functions

CONSTANTS
  Pid,       \* HARQ process ids of the UE
  RoundMax,  \* nrmac->dl_bler.harq_round_max
  TbSize,    \* transport block sizes, in bytes
  Frames,    \* frame numbers before they start again (1024)
  TaPeriod   \* frames between two timing advance commands (100)

ASSUME DlHarqAssumption ==
  /\ IsFiniteSet(Pid) /\ Pid # {}
  /\ RoundMax \in Nat \ {0}
  /\ TbSize \subseteq Nat \ {0}
  /\ Frames \in Nat \ {0}
  /\ TaPeriod \in 1 .. Frames - 1

VARIABLES
  silent,     \* downlinkHARQ_FeedbackDisabled_r17: processes never acknowledged
  available,  \* available_dl_harq: processes that carry nothing
  feedback,   \* feedback_dl_harq: PDSCH sent, report expected, oldest first
  retrans,    \* retrans_dl_harq: transport blocks to be sent again
  waiting,    \* harq_processes[].is_waiting
  round,      \* harq_processes[].round
  ndi,        \* harq_processes[].ndi, as sent in the DCI
  saved,      \* harq_processes[].sched_pdsch
  sched,      \* sched_pdsch, NoPdsch while its rbSize is zero
  stage,      \* "slot" between two slots, "send" once pf_dl has planned
  frame,      \* frame number
  taFrame,    \* ta_frame: frame of the last timing advance command
  taApply,    \* ta_apply: a command is to be sent
  interrupt,  \* transm_interrupt is active
  failure     \* ul_failure

lists == <<available, feedback, retrans>>
procs == <<waiting, round, ndi, saved>>
ta == <<taFrame, taApply>>
clock == <<frame, stage>>
state == <<silent, interrupt, failure>>
vars == <<lists, procs, sched, clock, ta, state>>

\* report: pucch_allocation is not negative
Pdsch == [pid : Pid, tb : TbSize, report : BOOLEAN]
NoPdsch == [pid |-> "none"]

TypeOK ==
  /\ silent \subseteq Pid
  /\ available \in Seq(Pid) /\ feedback \in Seq(Pid) /\ retrans \in Seq(Pid)
  /\ waiting \in [Pid -> BOOLEAN]
  /\ round \in [Pid -> 0 .. RoundMax - 1]
  /\ ndi \in [Pid -> {0, 1}]
  /\ saved \in [Pid -> Pdsch \cup {NoPdsch}]
  /\ sched \in Pdsch \cup {NoPdsch}
  /\ stage \in {"slot", "send"}
  /\ {frame, taFrame} \subseteq 0 .. Frames - 1
  /\ {taApply, interrupt, failure} \subseteq BOOLEAN

Init ==
  /\ silent \in SUBSET Pid
  /\ available \in {s \in [1 .. Cardinality(Pid) -> Pid] : IsInjective(s) /\ Range(s) = Pid}
  /\ feedback = <<>> /\ retrans = <<>>
  /\ waiting = [p \in Pid |-> FALSE]
  /\ round = [p \in Pid |-> 0]
  /\ ndi = [p \in Pid |-> 0]
  /\ saved = [p \in Pid |-> NoPdsch]
  /\ sched = NoPdsch
  /\ stage = "slot"
  /\ frame = 0 /\ taFrame = 0 /\ taApply = FALSE
  /\ interrupt = FALSE /\ failure = FALSE

\* remove_nr_list (external): the first occurrence is taken out
Without(s, p) ==
  LET i == CHOOSE j \in DOMAIN s : s[j] = p
  IN SubSeq(s, 1, i - 1) \o SubSeq(s, i + 1, Len(s))

\* Mutation: the new data indicator is not toggled.
FinishKeepsNdi(p, rest) ==
  /\ available' = Append(rest, p)
  /\ round' = [round EXCEPT ![p] = 0]
  /\ UNCHANGED ndi

\* finish_nr_dl_harq; rest is the available list so far
FinishDlHarq(p, rest) ==
  /\ available' = Append(rest, p)
  /\ ndi' = [ndi EXCEPT ![p] = 1 - @]
  /\ round' = [round EXCEPT ![p] = 0]

\* Mutation: the comparison does not wrap with the frame number.
DueUnwrapped == frame = taFrame + TaPeriod

\* the frame in which a timing advance command falls due
Due == frame = (taFrame + TaPeriod) % Frames

-----------------------------------------------------------------------------
(* Preprocessor                                                            *)

Planning == stage = "slot" /\ ~failure /\ stage' = "send"

\* no DCI, CCE, PUCCH occasion, resource block or process, nothing to send,
\* or a failed UE
PlanNothing ==
  /\ stage = "slot"
  /\ stage' = "send"
  /\ UNCHANGED <<lists, procs, sched, frame, ta, state>>

\* Mutation: the block is planned again with the first size that fits.
PlanRetxResized ==
  /\ Planning
  /\ retrans # <<>>
  /\ \E tb \in TbSize :
       sched' = [saved[Head(retrans)] EXCEPT !.report = TRUE, !.tb = tb]
  /\ UNCHANGED <<lists, procs, frame, ta, state>>

\* allocate_dl_retransmission found room: with another time domain allocation
\* it takes as many blocks as give the same transport block size
PlanRetx ==
  /\ Planning
  /\ retrans # <<>>
  /\ sched' = [saved[Head(retrans)] EXCEPT !.report = Head(retrans) \notin silent]
  /\ UNCHANGED <<lists, procs, frame, ta, state>>

PlanNew(tb) ==
  /\ Planning
  /\ retrans = <<>>
  /\ available # <<>>
  /\ sched' = [pid |-> Head(available), tb |-> tb, report |-> Head(available) \notin silent]
  /\ UNCHANGED <<lists, procs, frame, ta, state>>

\* RLC has data for the UE
PlanData == \E tb \in TbSize : PlanNew(tb)

\* RLC has none, but the UE needs a transport block for its timing advance
PlanTa == Due /\ \E tb \in TbSize : PlanNew(tb)

-----------------------------------------------------------------------------
(* nr_schedule_ue_spec                                                     *)

\* the last slot of the frame or not
EndSlot ==
  /\ stage = "send"
  /\ stage' = "slot"
  /\ frame' \in {frame, (frame + 1) % Frames}

\* the flag, as set on the way to the check of rbSize
ApplyNow == taApply \/ (Due /\ ~interrupt)

SendNothing ==
  /\ EndSlot
  /\ sched = NoPdsch
  /\ taApply' = (IF failure THEN taApply ELSE ApplyNow)
  /\ UNCHANGED <<lists, procs, sched, taFrame, state>>

Sending(p) ==
  /\ EndSlot
  /\ ~failure
  /\ sched # NoPdsch
  /\ p = sched.pid

\* the report is expected
Expect(p) ==
  /\ feedback' = Append(feedback, p)
  /\ waiting' = [waiting EXCEPT ![p] = TRUE]

\* an initial transmission carries the timing advance command
SendTa ==
  /\ taApply' = FALSE
  /\ taFrame' = IF ApplyNow THEN frame ELSE taFrame

SendNew(p) ==
  /\ Sending(p)
  /\ round[p] = 0
  /\ sched.report
  /\ available' = Without(available, p)
  /\ Expect(p)
  /\ saved' = [saved EXCEPT ![p] = sched]
  /\ sched' = NoPdsch
  /\ SendTa
  /\ UNCHANGED <<retrans, round, ndi, state>>

\* A process without feedback is finished, and its indicator toggled, before
\* the DCI is filled in.
SendSilent(p) ==
  /\ Sending(p)
  /\ ~sched.report
  /\ IF round[p] = 0
       THEN FinishDlHarq(p, Without(available, p)) /\ UNCHANGED retrans
       ELSE FinishDlHarq(p, available) /\ retrans' = Without(retrans, p)
  /\ saved' = [saved EXCEPT ![p] = sched]
  /\ sched' = NoPdsch
  /\ SendTa
  /\ UNCHANGED <<feedback, waiting, state>>

\* Mutation: the process stays on the retransmission list.
SendRetxTwice(p) ==
  /\ Sending(p)
  /\ round[p] # 0
  /\ sched.report
  /\ Expect(p)
  /\ sched' = NoPdsch
  /\ taApply' = ApplyNow
  /\ UNCHANGED <<available, retrans, round, ndi, saved, taFrame, state>>

\* a retransmission repeats the transport block as it was encoded
SendRetx(p) ==
  /\ Sending(p)
  /\ round[p] # 0
  /\ sched.report
  /\ retrans' = Without(retrans, p)
  /\ Expect(p)
  /\ sched' = NoPdsch
  /\ taApply' = ApplyNow
  /\ UNCHANGED <<available, round, ndi, saved, taFrame, state>>

-----------------------------------------------------------------------------
(* Environment                                                             *)

\* Mutation: the rounds are not limited.
ReportForEver(ok) ==
  /\ stage = "slot"
  /\ feedback # <<>>
  /\ LET p == Head(feedback) IN
       /\ feedback' = Tail(feedback)
       /\ waiting' = [waiting EXCEPT ![p] = FALSE]
       /\ \/ ok /\ FinishDlHarq(p, available) /\ UNCHANGED retrans
          \/ /\ ~ok
             /\ retrans' = Append(retrans, p)
             /\ round' = [round EXCEPT ![p] = IF @ < RoundMax - 1 THEN @ + 1 ELSE @]
             /\ UNCHANGED <<available, ndi>>
  /\ UNCHANGED <<saved, sched, clock, ta, state>>

\* handle_dl_harq (external), for the oldest process that expects a report:
\* acknowledged, or not acknowledged or not reported in time
Report(ok) ==
  /\ stage = "slot"
  /\ feedback # <<>>
  /\ LET p == Head(feedback) IN
       /\ feedback' = Tail(feedback)
       /\ waiting' = [waiting EXCEPT ![p] = FALSE]
       /\ \/ /\ ok \/ round[p] >= RoundMax - 1
             /\ FinishDlHarq(p, available)
             /\ UNCHANGED retrans
          \/ /\ ~ok /\ round[p] < RoundMax - 1
             /\ retrans' = Append(retrans, p)
             /\ round' = [round EXCEPT ![p] = @ + 1]
             /\ UNCHANGED <<available, ndi>>
  /\ UNCHANGED <<saved, sched, clock, ta, state>>

\* nr_mac_interrupt_ue_transmission or the end of the timer (both external)
Interrupt ==
  /\ stage = "slot"
  /\ interrupt' = ~interrupt
  /\ UNCHANGED <<lists, procs, sched, clock, ta, silent, failure>>

\* the uplink is lost: the UE is no longer scheduled
Fail ==
  /\ stage = "slot"
  /\ failure' = TRUE
  /\ UNCHANGED <<lists, procs, sched, clock, ta, silent, interrupt>>

\* nr_rx_ra_sdu found the C-RNTI of this UE in a Msg3: nr_mac_reset_ul_failure
\* and reset_dl_harq_list (both external)
Reaccess ==
  /\ stage = "slot"
  /\ available' = available \o feedback \o retrans
  /\ feedback' = <<>> /\ retrans' = <<>>
  /\ waiting' = [p \in Pid |-> FALSE]
  /\ round' = [p \in Pid |-> 0]
  /\ failure' = FALSE
  /\ UNCHANGED <<ndi, saved, sched, clock, ta, silent, interrupt>>

Plan == PlanNothing \/ PlanRetx \/ PlanData \/ PlanTa

Send == SendNothing \/ \E p \in Pid : SendNew(p) \/ SendSilent(p) \/ SendRetx(p)

Next ==
  \/ Plan
  \/ Send
  \/ \E ok \in BOOLEAN : Report(ok)
  \/ Interrupt
  \/ Fail
  \/ Reaccess

Spec == Init /\ [][Next]_vars

\* Slots follow each other and frames end; every process that expects a report
\* is reported on or given up by its time; and neither a retransmission nor a
\* timing advance command is refused resources for ever (the proportional fair
\* coefficient grows while a UE gets nothing).
Fairness ==
  /\ WF_vars(Plan)
  /\ WF_vars(Send)
  /\ SF_vars(Send /\ frame' # frame)
  /\ SF_vars(\E ok \in BOOLEAN : Report(ok))
  /\ SF_vars(PlanRetx)
  /\ SF_vars(PlanTa)

FairSpec == Spec /\ Fairness

-----------------------------------------------------------------------------
(* Properties                                                              *)

Available == Range(available)
Feedback == Range(feedback)
Retrans == Range(retrans)

\* Every HARQ process is on exactly one of the three lists, once, whatever
\* transmissions, reports, failures and random accesses follow each other.
ProcessesPartitioned ==
  /\ IsInjective(available) /\ IsInjective(feedback) /\ IsInjective(retrans)
  /\ Available \cap Feedback = {}
  /\ Available \cap Retrans = {}
  /\ Feedback \cap Retrans = {}
  /\ Available \cup Feedback \cup Retrans = Pid

\* is_waiting holds for exactly the processes that expect a report: the
\* DevAssert of nr_schedule_ue_spec cannot fail.
WaitingMeansFeedback == \A p \in Pid : waiting[p] <=> p \in Feedback

\* A PDSCH lives from pf_dl to the nr_schedule_ue_spec of the same slot, and
\* there names the head of the list its process will be removed from, a process
\* that is not waiting (DevAssert); a retransmission has the size of the block
\* that is buffered (AssertFatal).
HandOffSound ==
  sched # NoPdsch =>
    /\ stage = "send" /\ ~failure
    /\ ~waiting[sched.pid]
    /\ \/ round[sched.pid] = 0 /\ available # <<>> /\ sched.pid = Head(available)
       \/ /\ round[sched.pid] > 0 /\ retrans # <<>> /\ sched.pid = Head(retrans)
          /\ saved[sched.pid] # NoPdsch /\ sched.tb = saved[sched.pid].tb

\* The new data indicator toggles exactly when a process is done with its
\* block, for a process without feedback with every block; random access
\* leaves it alone.
Concludes(p) == p \in Feedback /\ p \in Range(available')
SentSilently(p) == sched # NoPdsch /\ sched.pid = p /\ ~sched.report /\ stage' = "slot"
NdiTogglesPerBlock ==
  [][Reaccess \/ \A p \in Pid : ndi'[p] # ndi[p] <=> Concludes(p) \/ SentSilently(p)]_vars

\* The lists and the hand-off implement the process-by-process promise.
PhaseOf(p) ==
  IF p \in Available THEN "idle" ELSE IF p \in Feedback THEN "sent" ELSE "nacked"

Abstract == INSTANCE HarqProcess WITH phase <- [p \in Pid |-> PhaseOf(p)]

ImplementsHarqProcess == Abstract!Spec

\* A transport block that was sent is eventually acknowledged or given up,
\* unless the UE is declared failed.
BlocksConclude == \A p \in Pid : p \in Feedback ~> p \in Available \/ failure

\* "If such UE is not scheduled now, it will be by the preprocessor later":
\* timing advance commands keep being sent, with or without data, across the
\* wrap of the frame number, however often the one frame that raises the flag
\* was missed.
TaGoesOut == stage = "send" /\ ApplyNow /\ ~taApply'
TaRecurs == <>[](~interrupt /\ ~failure) => []<><<TaGoesOut>>_vars
=============================================================================
