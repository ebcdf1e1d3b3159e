------------------------------- MODULE UlHarq -------------------------------
(***************************************************************************)
(* The uplink HARQ entity of one UE in gnb_patch/gNB_scheduler_ulsch.c:    *)
(* the three process lists the scheduler (pf_ul, post_process_ulsch) and   *)
(* the receive path (_nr_rx_sdu, handle_nr_ul_harq) move process ids       *)
(* between, and the byte count that tells how much granted data is still   *)
(* expected.                                                               *)
(*                                                                         *)
(* Both paths run under sched_lock, so a scheduler pass never sees an      *)
(* indication half handled: rx is the indication being handled, and every  *)
(* action of another path requires rx = NoRx.  The loop of                 *)
(* handle_nr_ul_harq is one action per iteration under that lock.          *)
(*                                                                         *)
(* The PHY (external) reports one CRC per PUSCH in the order of the PUSCH  *)
(* slots; a report may be lost.                                            *)
(***************************************************************************)
EXTENDS Integers, Sequences, FiniteSets, Functions

CONSTANTS
  Pid,           \* HARQ process ids of the UE
  RoundMax,      \* nrmac->ul_bler.harq_round_max
  TbSize,        \* transport block sizes, in bytes
  DtxThreshold,  \* nrmac->pusch_failure_thres
  MaxAir,        \* PUSCHs between their DCI and their CRC (k2 and decoding)
  MaxBytes,      \* bound on schedBytes
  MayLose,       \* whether the PHY may fail to report a CRC
  MayReaccess    \* whether the UE may come back through random access

ASSUME UlHarqAssumption ==
  /\ IsFiniteSet(Pid) /\ Pid # {}
  /\ RoundMax \in Nat \ {0}
  /\ TbSize \subseteq Nat \ {0} /\ TbSize # {}
  /\ DtxThreshold \in Nat \ {0}
  /\ MaxAir \in Nat /\ MaxBytes \in Nat
  /\ {MayLose, MayReaccess} \subseteq BOOLEAN

VARIABLES
  disableHarq, \* nrmac->radio_config.disable_harq, read when the gNB starts
  available,   \* available_ul_harq: processes that carry nothing
  feedback,    \* feedback_ul_harq: PUSCH granted, CRC expected, oldest first
  retrans,     \* retrans_ul_harq: transport blocks to be granted again
  waiting,     \* ul_harq_processes[].is_waiting
  round,       \* ul_harq_processes[].round
  ndi,         \* ul_harq_processes[].ndi, as sent in the DCI
  tbSize,      \* ul_harq_processes[].sched_pusch.tb_size
  schedBytes,  \* sched_ul_bytes: granted bytes not yet received
  dtx,         \* pusch_consecutive_dtx_cnt, up to the threshold
  failure,     \* ul_failure
  air,         \* PUSCHs granted whose CRC the PHY has yet to report
  rx           \* the CRC indication being handled under sched_lock

lists == <<available, feedback, retrans>>
procs == <<waiting, round, ndi, tbSize>>
vars == <<disableHarq, lists, procs, schedBytes, dtx, failure, air, rx>>

Pusch == [pid : Pid, ndi : {0, 1}, round : 0 .. RoundMax - 1, tb : TbSize]
NoRx == [pid |-> "none"]

TypeOK ==
  /\ disableHarq \in BOOLEAN
  /\ available \in Seq(Pid) /\ feedback \in Seq(Pid) /\ retrans \in Seq(Pid)
  /\ waiting \in [Pid -> BOOLEAN]
  /\ round \in [Pid -> 0 .. RoundMax - 1]
  /\ ndi \in [Pid -> {0, 1}]
  /\ tbSize \in [Pid -> TbSize \cup {0}]
  /\ schedBytes \in Nat
  /\ dtx \in 0 .. DtxThreshold
  /\ failure \in BOOLEAN
  /\ air \in Seq(Pusch)
  /\ rx \in [tx : Pusch, ok : BOOLEAN] \cup {NoRx}

\* the processes in some order, as the connection setup of the UE adds them
Init ==
  /\ disableHarq \in BOOLEAN
  /\ available \in {s \in [1 .. Cardinality(Pid) -> Pid] : IsInjective(s) /\ Range(s) = Pid}
  /\ feedback = <<>> /\ retrans = <<>>
  /\ waiting = [p \in Pid |-> FALSE]
  /\ round = [p \in Pid |-> 0]
  /\ ndi = [p \in Pid |-> 0]
  /\ tbSize = [p \in Pid |-> 0]
  /\ schedBytes = 0
  /\ dtx = 0 /\ failure = FALSE
  /\ air = <<>> /\ rx = NoRx

\* subtract and clamp at zero
Minus(a, b) == IF a > b THEN a - b ELSE 0

\* Mutation: the new data indicator is not toggled.
FinishKeepsNdi(p) ==
  /\ available' = Append(available, p)
  /\ round' = [round EXCEPT ![p] = 0]
  /\ UNCHANGED ndi

\* Mutation: the round is not reset.
FinishKeepsRound(p) ==
  /\ available' = Append(available, p)
  /\ ndi' = [ndi EXCEPT ![p] = 1 - @]
  /\ UNCHANGED round

\* finish_nr_ul_harq, for a process already taken off its list
FinishUlHarq(p) ==
  /\ available' = Append(available, p)
  /\ ndi' = [ndi EXCEPT ![p] = 1 - @]
  /\ round' = [round EXCEPT ![p] = 0]

\* Mutation: the bytes given up are not subtracted.
AbortKeepsBytes(p) == FinishUlHarq(p) /\ UNCHANGED schedBytes

\* abort_nr_ul_harq: the granted bytes will not come
AbortUlHarq(p) ==
  /\ FinishUlHarq(p)
  /\ schedBytes' = Minus(schedBytes, tbSize[p])

Retransmit(p) ==
  /\ retrans' = Append(retrans, p)
  /\ UNCHANGED <<available, ndi, schedBytes>>

\* Mutation: the rounds are not counted.
CrcFailedForEver(p) == Retransmit(p) /\ UNCHANGED round

\* the transport block of p, taken off the feedback list, did not arrive
CrcFailed(p) ==
  \/ /\ round[p] >= RoundMax - 1
     /\ AbortUlHarq(p)
     /\ UNCHANGED retrans
  \/ /\ round[p] < RoundMax - 1
     /\ round' = [round EXCEPT ![p] = @ + 1]
     /\ Retransmit(p)

-----------------------------------------------------------------------------
(* Scheduler pass, under sched_lock                                        *)

Granting == rx = NoRx /\ ~failure /\ Len(air) < MaxAir

\* the PUSCH whose DCI is sent now, with this new data indicator
Grant(p, tb, bit) ==
  air' = Append(air, [pid |-> p, ndi |-> bit, round |-> round[p], tb |-> tb])

\* Mutation: the process goes to the head of the feedback list.
TransmitFirst(p, tb) ==
  /\ Grant(p, tb, ndi[p])
  /\ feedback' = <<p>> \o feedback
  /\ waiting' = [waiting EXCEPT ![p] = TRUE]

\* Mutation: is_waiting is not set.
TransmitUnmarked(p, tb) ==
  /\ Grant(p, tb, ndi[p])
  /\ feedback' = Append(feedback, p)
  /\ UNCHANGED waiting

\* post_process_ulsch once the process is off its list, without the bytes
Transmit(p, tb) ==
  /\ Grant(p, tb, ndi[p])
  /\ feedback' = Append(feedback, p)
  /\ waiting' = [waiting EXCEPT ![p] = TRUE]

\* pf_ul grants new data (buffered data, a scheduling request or inactivity)
ScheduleNew(tb) ==
  /\ Granting
  /\ retrans = <<>>
  /\ available # <<>>
  /\ ~disableHarq
  /\ schedBytes + tb <= MaxBytes
  /\ LET p == Head(available) IN
       /\ available' = Tail(available)
       /\ tbSize' = [tbSize EXCEPT ![p] = tb]
       /\ schedBytes' = schedBytes + tb
       /\ Transmit(p, tb)
  /\ UNCHANGED <<disableHarq, retrans, round, ndi, dtx, failure, rx>>

\* with HARQ disabled the process is finished, and its indicator toggled,
\* before the DCI is filled in: rest is the available list and bytes the count left
GrantNoHarq(tb, rest, bytes) ==
  /\ Granting
  /\ available # <<>>
  /\ disableHarq
  /\ schedBytes + tb <= MaxBytes
  /\ LET p == Head(available) IN
       /\ available' = rest
       /\ ndi' = [ndi EXCEPT ![p] = 1 - @]
       /\ tbSize' = [tbSize EXCEPT ![p] = tb]
       /\ schedBytes' = bytes
       /\ Grant(p, tb, ndi'[p])
  /\ UNCHANGED <<disableHarq, feedback, retrans, waiting, round, dtx, failure, rx>>

\* Mutation: the process is not given back.
NoHarqLeaks(tb) == GrantNoHarq(tb, Tail(available), schedBytes + tb)
\* Mutation: the bytes granted are not added.
NoHarqUncounted(tb) ==
  GrantNoHarq(tb, Append(Tail(available), Head(available)), schedBytes)

\* the same grant with HARQ disabled: the process is finished at once
ScheduleNewNoHarq(tb) ==
  GrantNoHarq(tb, Append(Tail(available), Head(available)), schedBytes + tb)

\* Mutation: the process stays on the retransmission list.
ScheduleRetxTwice ==
  /\ Granting
  /\ retrans # <<>>
  /\ Transmit(Head(retrans), tbSize[Head(retrans)])
  /\ UNCHANGED <<disableHarq, available, retrans, round, ndi, tbSize, schedBytes, dtx, failure, rx>>

\* allocate_ul_retransmission found room for the oldest retransmission
ScheduleRetx ==
  /\ Granting
  /\ retrans # <<>>
  /\ retrans' = Tail(retrans)
  /\ Transmit(Head(retrans), tbSize[Head(retrans)])
  /\ UNCHANGED <<disableHarq, available, round, ndi, tbSize, schedBytes, dtx, failure, rx>>

-----------------------------------------------------------------------------
(* Receive path, under sched_lock                                          *)

\* _nr_rx_sdu up to its call of handle_nr_ul_harq, which returns at once
\* when HARQ is disabled.  loud: the CQI says the UE did not transmit.
RxSdu(ok, loud) ==
  /\ rx = NoRx
  /\ air # <<>>
  /\ LET tx == Head(air) IN
       /\ rx' = IF disableHarq THEN NoRx ELSE [tx |-> tx, ok |-> ok]
       /\ schedBytes' = IF ok THEN Minus(schedBytes, tx.tb) ELSE schedBytes
  /\ air' = Tail(air)
  /\ dtx' = CASE ok -> 0
              [] ~ok /\ loud /\ dtx < DtxThreshold -> dtx + 1
              [] OTHER -> dtx
  /\ failure' = (failure \/ (~ok /\ dtx' >= DtxThreshold))
  /\ UNCHANGED <<disableHarq, lists, procs>>

\* the head of the feedback list is not the reported process: its own CRC
\* never came
FlushOne ==
  /\ rx # NoRx
  /\ feedback # <<>>
  /\ LET p == Head(feedback) IN
       /\ p # rx.tx.pid
       /\ feedback' = Tail(feedback)
       /\ waiting' = [waiting EXCEPT ![p] = FALSE]
       /\ CrcFailed(p)
  /\ UNCHANGED <<disableHarq, tbSize, dtx, failure, air, rx>>

\* Mutation: the loop does not end on an empty list.
DropNever ==
  /\ rx # NoRx
  /\ feedback = <<>>
  /\ UNCHANGED vars

\* no process expects feedback any more: the indication is dropped
DropIndication ==
  /\ rx # NoRx
  /\ feedback = <<>>
  /\ rx' = NoRx
  /\ UNCHANGED <<disableHarq, lists, procs, schedBytes, dtx, failure, air>>

HandleCrc ==
  /\ rx # NoRx
  /\ feedback # <<>>
  /\ LET p == Head(feedback) IN
       /\ p = rx.tx.pid
       /\ feedback' = Tail(feedback)
       /\ waiting' = [waiting EXCEPT ![p] = FALSE]
       /\ \/ /\ rx.ok
             /\ FinishUlHarq(p)
             /\ UNCHANGED <<retrans, schedBytes>>
          \/ ~rx.ok /\ CrcFailed(p)
  /\ rx' = NoRx
  /\ UNCHANGED <<disableHarq, tbSize, dtx, failure, air>>

-----------------------------------------------------------------------------
(* Environment                                                             *)

\* the PHY never reports the CRC of the oldest PUSCH
LoseCrc ==
  /\ MayLose
  /\ rx = NoRx
  /\ air # <<>>
  /\ air' = Tail(air)
  /\ UNCHANGED <<disableHarq, lists, procs, schedBytes, dtx, failure, rx>>

\* nr_rx_ra_sdu found the C-RNTI of this UE in a Msg3: nr_mac_reset_ul_failure
\* and reset_ul_harq_list (both external).  The byte count is left alone.
Reaccess ==
  /\ MayReaccess
  /\ rx = NoRx
  /\ available' = available \o feedback \o retrans
  /\ feedback' = <<>> /\ retrans' = <<>>
  /\ waiting' = [p \in Pid |-> FALSE]
  /\ round' = [p \in Pid |-> 0]
  /\ dtx' = 0 /\ failure' = FALSE
  /\ UNCHANGED <<disableHarq, ndi, tbSize, schedBytes, air, rx>>

Next ==
  \/ \E tb \in TbSize : ScheduleNew(tb) \/ ScheduleNewNoHarq(tb)
  \/ ScheduleRetx
  \/ \E ok, loud \in BOOLEAN : RxSdu(ok, loud)
  \/ FlushOne
  \/ DropIndication
  \/ HandleCrc
  \/ LoseCrc
  \/ Reaccess

Spec == Init /\ [][Next]_vars

\* The PHY reports what it decodes, the receive path runs to its end, and a
\* pending retransmission is not refused resources for ever.  New grants, the
\* loss of a report and the return of the UE are not obliged to happen.
Fairness ==
  /\ WF_vars(\E ok, loud \in BOOLEAN : RxSdu(ok, loud))
  /\ WF_vars(FlushOne \/ DropIndication \/ HandleCrc)
  /\ WF_vars(ScheduleRetx)

FairSpec == Spec /\ Fairness

-----------------------------------------------------------------------------
(* Properties                                                              *)

Available == Range(available)
Feedback == Range(feedback)
Retrans == Range(retrans)

\* No list holds a process twice: an id appended to a list it is already on
\* would close the list into a loop.
NoDuplicates == IsInjective(available) /\ IsInjective(feedback) /\ IsInjective(retrans)

\* Every HARQ process is on exactly one of the three lists, once: none leaks
\* when an indication is lost and none can be granted while it carries data.
ProcessesPartitioned ==
  /\ NoDuplicates
  /\ Available \cap Feedback = {}
  /\ Available \cap Retrans = {}
  /\ Feedback \cap Retrans = {}
  /\ Available \cup Feedback \cup Retrans = Pid

\* is_waiting holds for exactly the processes that expect feedback: the two
\* DevAsserts on is_waiting (grant and CRC) cannot fail.
WaitingMeansFeedback == \A p \in Pid : waiting[p] <=> p \in Feedback

\* A retransmission is at least the second transmission and a free process
\* starts at round 0, so post_process_ulsch takes the id off the right list.
RoundsMatchLists ==
  /\ \A p \in Retrans : round[p] > 0
  /\ \A p \in Available : round[p] = 0

\* sched_ul_bytes is what the pending transport blocks will bring, however
\* many CRCs are lost: pf_ul grants neither too little (the count drifting up)
\* nor again what is already granted (drifting down).
PendingBytes ==
  SumFunctionOnSet([p \in Pid |-> tbSize[p]], Feedback \cup Retrans)

BytesMatchPending == ~disableHarq /\ rx = NoRx => schedBytes = PendingBytes

\* The count covers every block on the air, with HARQ disabled too, when no
\* block is pending: a late or lost report never makes pf_ul believe that
\* granted data is not coming.
BytesCoverAir ==
  schedBytes >= SumFunctionOnSet([i \in DOMAIN air |-> air[i].tb], DOMAIN air)

\* The CRC taken for a process is the CRC of the very transmission it waits
\* for, not of an earlier one of the same process.
CrcMatchesGrant ==
  rx # NoRx /\ feedback # <<>> =>
    LET p == Head(feedback) IN
      p = rx.tx.pid => rx.tx.ndi = ndi[p] /\ rx.tx.round = round[p]

\* The new data indicator toggles exactly when a process is done with its
\* transport block, so that the UE tells the next one from a repetition (with
\* HARQ disabled every transmission is a new block).
NdiTogglesPerBlock ==
  [][~disableHarq =>
       \A p \in Pid : ndi'[p] # ndi[p] <=> p \notin Available /\ p \in Available']_vars

\* The detailed lists implement the process-by-process promise.
PhaseOf(p) ==
  IF p \in Available THEN "idle" ELSE IF p \in Feedback THEN "sent" ELSE "nacked"

Abstract == INSTANCE HarqProcess WITH phase <- [p \in Pid |-> PhaseOf(p)]

ImplementsHarqProcess == Abstract!Spec

\* A transport block whose CRC will be reported is eventually acknowledged or
\* given up, however often it fails, unless a report for it is lost or the UE
\* is declared failed and no longer scheduled.
OnAir(p) == \E i \in DOMAIN air : air[i].pid = p
Lost(p) == p \in Feedback /\ ~OnAir(p) /\ rx = NoRx
BlocksConclude ==
  \A p \in Pid : p \in Feedback ~> p \in Available \/ Lost(p) \/ failure

\* Handling an indication ends: its loop consumes the feedback list.
HandlingEnds == rx # NoRx ~> rx = NoRx
=============================================================================
