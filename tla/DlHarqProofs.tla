---------------------------- MODULE DlHarqProofs ----------------------------
(***************************************************************************)
(* Proofs about DlHarq for any set of processes, of which any may be       *)
(* without feedback, any number of rounds and any period of the timing     *)
(* advance.  The inductive invariant joins the properties of the lists     *)
(* with what pf_dl leaves in sched_pdsch: that the process it names is the *)
(* head of its list is what makes the removal by nr_schedule_ue_spec a     *)
(* removal of the first element.                                           *)
(***************************************************************************)
EXTENDS DlHarq, FiniteSetTheorems, SequenceTheorems, TLAPS

-----------------------------------------------------------------------------
(* Sequences without duplicates                                            *)

\* Appending adds one element, and a new one makes no duplicate.
LEMMA AppendRange ==
  ASSUME NEW S, NEW s \in Seq(S), NEW x \in S
  PROVE  /\ Append(s, x) \in Seq(S)
         /\ Range(Append(s, x)) = Range(s) \cup {x}
         /\ IsInjective(s) /\ x \notin Range(s) => IsInjective(Append(s, x))
<1>1. /\ Append(s, x) \in Seq(S) /\ Append(s, x) = s \o <<x>>
      /\ DOMAIN s = 1 .. Len(s) /\ DOMAIN Append(s, x) = 1 .. Len(s) + 1 /\ Len(s) \in Nat
      /\ \A i \in 1 .. Len(s) : Append(s, x)[i] = s[i]
      /\ Append(s, x)[Len(s) + 1] = x
  OBVIOUS
<1>2. Range(Append(s, x)) = Range(s) \cup {x}
  BY <1>1, SMTT(30) DEF Range
<1>3. IsInjective(s) /\ x \notin Range(s) => IsInjective(Append(s, x))
  BY <1>1, SMTT(30) DEF Range, IsInjective
<1> QED
  BY <1>1, <1>2, <1>3

\* Removing the head of a duplicate-free sequence removes one element.
LEMMA TailRange ==
  ASSUME NEW S, NEW s \in Seq(S), s # <<>>, IsInjective(s)
  PROVE  /\ Head(s) \in S
         /\ Head(s) \in Range(s)
         /\ Tail(s) \in Seq(S)
         /\ Range(Tail(s)) = Range(s) \ {Head(s)}
         /\ IsInjective(Tail(s))
<1>1. /\ Head(s) \in S /\ Tail(s) \in Seq(S) /\ Head(s) = s[1] /\ 1 \in DOMAIN s
      /\ DOMAIN s = 1 .. Len(s) /\ DOMAIN Tail(s) = 1 .. Len(s) - 1 /\ Len(s) \in Nat
      /\ \A i \in 1 .. Len(s) - 1 : Tail(s)[i] = s[i + 1]
  OBVIOUS
<1>2. \A i \in DOMAIN s : i = 1 \/ (i - 1 \in DOMAIN Tail(s) /\ s[i] = Tail(s)[i - 1])
  BY <1>1
<1>3. \A i \in DOMAIN Tail(s) : i + 1 \in DOMAIN s /\ i + 1 # 1 /\ Tail(s)[i] = s[i + 1]
  BY <1>1
<1>4. Range(Tail(s)) = Range(s) \ {Head(s)}
  <2>1. ASSUME NEW y \in Range(s), y # Head(s) PROVE y \in Range(Tail(s))
    <3>1. PICK i \in DOMAIN s : y = s[i]
      BY DEF Range
    <3>2. i - 1 \in DOMAIN Tail(s) /\ y = Tail(s)[i - 1]
      BY <1>1, <1>2, <2>1, <3>1
    <3> QED
      BY <3>2 DEF Range
  <2>2. Range(Tail(s)) \subseteq Range(s) \ {Head(s)}
    BY <1>1, <1>3 DEF Range, IsInjective
  <2> QED
    BY <2>1, <2>2
<1>5. IsInjective(Tail(s))
  BY <1>1, <1>3 DEF IsInjective
<1> QED
  BY <1>1, <1>4, <1>5 DEF Range

\* Concatenating duplicate-free sequences that share no element.
LEMMA ConcatRange ==
  ASSUME NEW S, NEW s \in Seq(S), NEW u \in Seq(S)
  PROVE  /\ s \o u \in Seq(S)
         /\ Range(s \o u) = Range(s) \cup Range(u)
         /\ IsInjective(s) /\ IsInjective(u) /\ Range(s) \cap Range(u) = {}
              => IsInjective(s \o u)
<1>1. \A i \in DOMAIN (s \o u) :
         \/ i \in DOMAIN s /\ (s \o u)[i] = s[i] /\ i \in Int
         \/ i - Len(s) \in DOMAIN u /\ (s \o u)[i] = u[i - Len(s)] /\ i \in Int
  OBVIOUS
<1>2. ASSUME IsInjective(s), IsInjective(u), Range(s) \cap Range(u) = {}
      PROVE  IsInjective(s \o u)
  <2> SUFFICES ASSUME NEW a \in DOMAIN (s \o u), NEW b \in DOMAIN (s \o u),
                      (s \o u)[a] = (s \o u)[b]
               PROVE  a = b
    BY DEF IsInjective
  <2>1. ~(a \in DOMAIN s /\ b - Len(s) \in DOMAIN u /\ s[a] = u[b - Len(s)])
        /\ ~(b \in DOMAIN s /\ a - Len(s) \in DOMAIN u /\ s[b] = u[a - Len(s)])
    BY <1>2 DEF Range
  <2>2. a - Len(s) = b - Len(s) => a = b
    BY <1>1
  <2> QED
    BY <1>1, <1>2, <2>1, <2>2 DEF IsInjective
<1> QED
  BY <1>2, RangeConcatenation

-----------------------------------------------------------------------------
(* The process lists                                                       *)

\* the round tells whether a process has a block to repeat
Rounds ==
  /\ \A p \in Available : round[p] = 0
  /\ \A p \in Retrans : round[p] > 0

\* a process that carries a block has saved its own PDSCH, and gives feedback
Carriers ==
  \A p \in Feedback \cup Retrans :
    p \notin silent /\ saved[p] \in Pdsch /\ saved[p].pid = p

\* the PDSCH that was planned asks for a report unless its process gives none
PlanReports == sched \in Pdsch => (sched.report <=> sched.pid \notin silent)

IInv ==
  /\ TypeOK
  /\ ProcessesPartitioned
  /\ WaitingMeansFeedback
  /\ HandOffSound
  /\ Rounds
  /\ Carriers
  /\ PlanReports

\* The record that stands for no PDSCH is none.
LEMMA NoPdschNone == NoPdsch \notin Pdsch
<1> SUFFICES ASSUME NoPdsch \in Pdsch PROVE FALSE
  OBVIOUS
<1>1. DOMAIN NoPdsch = {"pid", "tb", "report"}
  BY DEF Pdsch
<1>2. DOMAIN NoPdsch = {"pid"}
  BY DEF NoPdsch
<1> QED
  BY <1>1, <1>2

\* The lists, as sequences.
LEMMA ListFacts ==
  ASSUME IInv
  PROVE  /\ available \in Seq(Pid) /\ IsInjective(available)
         /\ feedback \in Seq(Pid) /\ IsInjective(feedback)
         /\ retrans \in Seq(Pid) /\ IsInjective(retrans)
         /\ Range(available) \cap Range(feedback) = {}
         /\ Range(available) \cap Range(retrans) = {}
         /\ Range(feedback) \cap Range(retrans) = {}
         /\ Range(available) \cup Range(feedback) \cup Range(retrans) = Pid
BY DEF IInv, TypeOK, ProcessesPartitioned, Available, Feedback, Retrans

\* What moving the head of one list to the end of another does to the two.
LEMMA HeadToEnd ==
  ASSUME NEW S, NEW a \in Seq(S), NEW b \in Seq(S), a # <<>>,
         IsInjective(a), IsInjective(b), Range(a) \cap Range(b) = {},
         NEW p, p = Head(a)
  PROVE  /\ p \in S /\ p \in Range(a)
         /\ Tail(a) \in Seq(S) /\ IsInjective(Tail(a)) /\ Range(Tail(a)) = Range(a) \ {p}
         /\ Append(b, p) \in Seq(S) /\ IsInjective(Append(b, p))
         /\ Range(Append(b, p)) = Range(b) \cup {p}
<1>1. /\ p \in S /\ p \in Range(a)
      /\ Tail(a) \in Seq(S) /\ IsInjective(Tail(a)) /\ Range(Tail(a)) = Range(a) \ {p}
  BY TailRange
<1>2. p \notin Range(b)
  BY <1>1
<1>3. /\ Append(b, p) \in Seq(S) /\ IsInjective(Append(b, p))
      /\ Range(Append(b, p)) = Range(b) \cup {p}
  BY <1>1, <1>2, AppendRange
<1> QED
  BY <1>1, <1>3

\* Removing the process at the head of a list leaves its tail.
LEMMA WithoutHead ==
  ASSUME NEW S, NEW s \in Seq(S), s # <<>>, IsInjective(s), NEW p, p = Head(s)
  PROVE  Without(s, p) = Tail(s)
<1>1. 1 \in DOMAIN s /\ s[1] = p
  OBVIOUS
<1>2. \A j \in DOMAIN s : s[j] = p => j = 1
  BY <1>1 DEF IsInjective
<1> DEFINE i == CHOOSE j \in DOMAIN s : s[j] = p
<1>3. i = 1
  BY <1>1, <1>2
<1>4. Without(s, p) = SubSeq(s, 1, 0) \o SubSeq(s, 2, Len(s))
  <2>1. Without(s, p) = SubSeq(s, 1, i - 1) \o SubSeq(s, i + 1, Len(s))
    BY DEF Without
  <2> HIDE DEF i
  <2>2. i - 1 = 0 /\ i + 1 = 2
    BY <1>3
  <2> QED
    BY <2>1, <2>2
<1>5. SubSeq(s, 1, 0) = <<>> /\ SubSeq(s, 2, Len(s)) = Tail(s)
  BY SubSeqEmpty, TailIsSubSeq
<1>6. <<>> \o Tail(s) = Tail(s)
  BY ConcatEmptySeq
<1> QED
  BY <1>4, <1>5, <1>6

\* A UE that was set up has every process available and no PDSCH planned.
LEMMA InitIInv == Init => IInv
<1> SUFFICES ASSUME Init PROVE IInv
  OBVIOUS
<1> USE DlHarqAssumption
<1>1. /\ Cardinality(Pid) \in Nat => available \in Seq(Pid)
      /\ IsInjective(available) /\ Range(available) = Pid
  BY DEF Init
<1>2. Cardinality(Pid) \in Nat
  BY FS_CardinalityType
<1>3. IsInjective(<<>>) /\ Range(<<>>) = {} /\ <<>> \in Seq(Pid)
  BY DEF IsInjective, Range
<1>4. TypeOK
  <2>1. available \in Seq(Pid) /\ feedback \in Seq(Pid) /\ retrans \in Seq(Pid)
    BY <1>1, <1>2, <1>3 DEF Init
  <2>2. round \in [Pid -> 0 .. RoundMax - 1] /\ {frame, taFrame} \subseteq 0 .. Frames - 1
    BY DEF Init
  <2> QED
    BY <2>1, <2>2 DEF Init, TypeOK
<1>5. ProcessesPartitioned
  BY <1>1, <1>3 DEF Init, ProcessesPartitioned, Available, Feedback, Retrans
<1>6. WaitingMeansFeedback /\ Rounds /\ Carriers
  BY <1>1, <1>3 DEF Init, WaitingMeansFeedback, Rounds, Carriers, Available, Feedback, Retrans
<1>7. HandOffSound
  BY DEF Init, HandOffSound
<1>8. PlanReports
  BY NoPdschNone DEF Init, PlanReports
<1> QED
  BY <1>4, <1>5, <1>6, <1>7, <1>8 DEF IInv

-----------------------------------------------------------------------------
(* Preprocessor                                                            *)

\* What is planned for the head of its list fits.
LEMMA PlannedIInv ==
  ASSUME IInv, Planning,
         UNCHANGED <<lists, procs, frame, ta, state>>,
         sched' \in Pdsch, sched'.report <=> sched'.pid \notin silent,
         \/ available # <<>> /\ sched'.pid = Head(available)
         \/ /\ retrans # <<>> /\ sched'.pid = Head(retrans)
            /\ sched'.tb = saved[Head(retrans)].tb
  PROVE  IInv'
<1> USE DEF lists, procs, ta, state
<1> DEFINE p == sched'.pid
<1>1. TypeOK'
  BY DEF IInv, TypeOK, Planning
<1>2. ProcessesPartitioned' /\ WaitingMeansFeedback' /\ Rounds' /\ Carriers'
  BY DEF IInv, ProcessesPartitioned, WaitingMeansFeedback, Rounds, Carriers,
         Available, Feedback, Retrans
<1>3. HandOffSound'
  <2>1. stage' = "send" /\ ~failure'
    BY DEF Planning
  <2>2. CASE available # <<>> /\ p = Head(available)
    <3>1. p \in Pid /\ p \in Range(available)
      BY <2>2, ListFacts, TailRange
    <3>2. round[p] = 0 /\ ~waiting[p]
      BY <3>1, ListFacts DEF IInv, Rounds, WaitingMeansFeedback, Available, Feedback
    <3> QED
      BY <2>1, <2>2, <3>2 DEF HandOffSound
  <2>3. CASE retrans # <<>> /\ p = Head(retrans) /\ sched'.tb = saved[p].tb
    <3>1. p \in Pid /\ p \in Range(retrans)
      BY <2>3, ListFacts, TailRange
    <3>2. round[p] > 0 /\ ~waiting[p] /\ saved[p] \in Pdsch
      BY <3>1, ListFacts DEF IInv, Rounds, WaitingMeansFeedback, Carriers, Retrans, Feedback
    <3>3. saved[p] # NoPdsch
      BY <3>2, NoPdschNone
    <3> QED
      BY <2>1, <2>3, <3>2, <3>3 DEF HandOffSound
  <2> QED
    BY <2>2, <2>3
<1>4. PlanReports'
  BY DEF PlanReports
<1> QED
  BY <1>1, <1>2, <1>3, <1>4 DEF IInv

LEMMA PlanNothingIInv ==
  ASSUME IInv, PlanNothing
  PROVE  IInv'
<1> USE DEF PlanNothing, lists, procs, ta, state
<1>1. TypeOK'
  BY DEF IInv, TypeOK
<1>2. ProcessesPartitioned' /\ WaitingMeansFeedback' /\ Rounds' /\ Carriers' /\ PlanReports'
  BY DEF IInv, ProcessesPartitioned, WaitingMeansFeedback, Rounds, Carriers, PlanReports,
         Available, Feedback, Retrans
<1>3. HandOffSound'
  BY DEF IInv, HandOffSound
<1> QED
  BY <1>1, <1>2, <1>3 DEF IInv

LEMMA PlanRetxIInv ==
  ASSUME IInv, PlanRetx
  PROVE  IInv'
<1> DEFINE p == Head(retrans)
<1>1. retrans # <<>> /\ sched' = [saved[p] EXCEPT !.report = p \notin silent]
  BY DEF PlanRetx
<1>2. p \in Range(retrans)
  BY <1>1, ListFacts, TailRange
<1>3. saved[p] \in Pdsch /\ saved[p].pid = p
  BY <1>2 DEF IInv, Carriers, Retrans
<1>4. /\ sched' \in Pdsch /\ sched'.pid = p /\ sched'.tb = saved[p].tb
      /\ sched'.report <=> p \notin silent
  <2> HIDE DEF p
  <2> QED
    BY <1>1, <1>3 DEF Pdsch
<1> QED
  BY <1>1, <1>4, PlannedIInv DEF PlanRetx

LEMMA PlanNewIInv ==
  ASSUME IInv, NEW tb \in TbSize, PlanNew(tb)
  PROVE  IInv'
<1> DEFINE p == Head(available)
<1>1. available # <<>> /\ sched' = [pid |-> p, tb |-> tb, report |-> p \notin silent]
  BY DEF PlanNew
<1>2. p \in Pid
  BY <1>1, ListFacts, TailRange
<1>3. sched' \in Pdsch /\ sched'.pid = p /\ (sched'.report <=> p \notin silent)
  <2> HIDE DEF p
  <2> QED
    BY <1>1, <1>2 DEF Pdsch
<1> QED
  BY <1>1, <1>3, PlannedIInv DEF PlanNew

-----------------------------------------------------------------------------
(* nr_schedule_ue_spec                                                     *)

\* The end of a slot leaves a frame number.
LEMMA EndSlotType ==
  ASSUME IInv, EndSlot
  PROVE  frame' \in 0 .. Frames - 1 /\ stage' = "slot"
BY DlHarqAssumption DEF EndSlot, IInv, TypeOK

\* What is sent is what was planned for the head of the list that the round
\* of the process tells.
LEMMA SendingHead ==
  ASSUME IInv, NEW p \in Pid, Sending(p)
  PROVE  /\ sched \in Pdsch /\ sched.pid = p
         /\ sched.report <=> p \notin silent
         /\ round[p] = 0 => available # <<>> /\ p = Head(available)
         /\ round[p] # 0 => /\ retrans # <<>> /\ p = Head(retrans)
                            /\ saved[p] \in Pdsch /\ saved[p].pid = p /\ p \notin silent
<1>1. sched \in Pdsch /\ sched # NoPdsch /\ sched.pid = p
  BY DEF Sending, IInv, TypeOK
<1>2. sched.report <=> p \notin silent
  BY <1>1 DEF IInv, PlanReports
<1>3. \/ round[p] = 0 /\ available # <<>> /\ p = Head(available)
      \/ round[p] > 0 /\ retrans # <<>> /\ p = Head(retrans)
  BY <1>1 DEF IInv, HandOffSound
<1>4. round[p] \in Int
  BY DEF IInv, TypeOK
<1>5. ASSUME round[p] # 0
      PROVE  saved[p] \in Pdsch /\ saved[p].pid = p /\ p \notin silent
  <2>1. retrans # <<>> /\ p = Head(retrans)
    BY <1>3, <1>5
  <2>2. p \in Range(retrans)
    BY <2>1, ListFacts, TailRange
  <2> QED
    BY <2>2 DEF IInv, Carriers, Retrans
<1> QED
  BY <1>1, <1>2, <1>3, <1>4, <1>5

\* An initial transmission moves the first available process to the feedback
\* list.
LEMMA SendNewLists ==
  ASSUME IInv, NEW p \in Pid, SendNew(p)
  PROVE  /\ p \in Available /\ p \notin Feedback /\ p \notin Retrans
         /\ available' \in Seq(Pid) /\ IsInjective(available')
         /\ Available' = Available \ {p}
         /\ feedback' \in Seq(Pid) /\ IsInjective(feedback')
         /\ Feedback' = Feedback \cup {p}
         /\ retrans' = retrans /\ Retrans' = Retrans /\ round' = round
<1>1. available # <<>> /\ p = Head(available)
  BY SendingHead DEF SendNew
<1>2. available' = Tail(available) /\ feedback' = Append(feedback, p)
  BY <1>1, ListFacts, WithoutHead DEF SendNew, Expect
<1>3. /\ p \in Range(available)
      /\ Tail(available) \in Seq(Pid) /\ IsInjective(Tail(available))
      /\ Range(Tail(available)) = Range(available) \ {p}
      /\ Append(feedback, p) \in Seq(Pid) /\ IsInjective(Append(feedback, p))
      /\ Range(Append(feedback, p)) = Range(feedback) \cup {p}
  BY <1>1, ListFacts, HeadToEnd
<1>4. p \notin Range(feedback) /\ p \notin Range(retrans)
  BY <1>3, ListFacts
<1>5. retrans' = retrans /\ round' = round
  BY DEF SendNew
<1> QED
  BY <1>2, <1>3, <1>4, <1>5 DEF Available, Feedback, Retrans

LEMMA SendNewIInv ==
  ASSUME IInv, NEW p \in Pid, SendNew(p)
  PROVE  IInv'
<1>1. /\ p \in Available /\ p \notin Feedback /\ p \notin Retrans
      /\ available' \in Seq(Pid) /\ IsInjective(available')
      /\ Available' = Available \ {p}
      /\ feedback' \in Seq(Pid) /\ IsInjective(feedback')
      /\ Feedback' = Feedback \cup {p}
      /\ retrans' = retrans /\ Retrans' = Retrans /\ round' = round
  BY SendNewLists
<1>2. /\ waiting' = [waiting EXCEPT ![p] = TRUE]
      /\ saved' = [saved EXCEPT ![p] = sched]
      /\ sched' = NoPdsch /\ ndi' = ndi
      /\ silent' = silent /\ interrupt' = interrupt /\ failure' = failure
      /\ taApply' = FALSE /\ taFrame' \in {frame, taFrame}
  BY DEF SendNew, Expect, SendTa, state
<1>3. frame' \in 0 .. Frames - 1 /\ stage' = "slot"
  BY EndSlotType DEF SendNew, Sending
<1>4. sched \in Pdsch /\ sched.pid = p /\ p \notin silent
  BY SendingHead DEF SendNew
<1>5. TypeOK'
  BY <1>1, <1>2, <1>3, <1>4 DEF IInv, TypeOK
<1>6. ProcessesPartitioned'
  BY <1>1 DEF IInv, ProcessesPartitioned
<1>7. WaitingMeansFeedback'
  BY <1>1, <1>2 DEF IInv, TypeOK, WaitingMeansFeedback
<1>8. HandOffSound' /\ PlanReports'
  BY <1>2, NoPdschNone DEF HandOffSound, PlanReports
<1>9. Rounds'
  BY <1>1 DEF IInv, Rounds
<1>10. Carriers'
  BY <1>1, <1>2, <1>4 DEF IInv, TypeOK, Carriers
<1> QED
  BY <1>5, <1>6, <1>7, <1>8, <1>9, <1>10 DEF IInv

\* A retransmission moves the oldest pending process to the feedback list.
LEMMA SendRetxLists ==
  ASSUME IInv, NEW p \in Pid, SendRetx(p)
  PROVE  /\ p \in Retrans /\ p \notin Feedback /\ p \notin Available
         /\ retrans' \in Seq(Pid) /\ IsInjective(retrans')
         /\ Retrans' = Retrans \ {p}
         /\ feedback' \in Seq(Pid) /\ IsInjective(feedback')
         /\ Feedback' = Feedback \cup {p}
         /\ available' = available /\ Available' = Available /\ round' = round
<1>1. retrans # <<>> /\ p = Head(retrans)
  BY SendingHead DEF SendRetx
<1>2. retrans' = Tail(retrans) /\ feedback' = Append(feedback, p)
  BY <1>1, ListFacts, WithoutHead DEF SendRetx, Expect
<1>3. /\ p \in Range(retrans)
      /\ Tail(retrans) \in Seq(Pid) /\ IsInjective(Tail(retrans))
      /\ Range(Tail(retrans)) = Range(retrans) \ {p}
      /\ Append(feedback, p) \in Seq(Pid) /\ IsInjective(Append(feedback, p))
      /\ Range(Append(feedback, p)) = Range(feedback) \cup {p}
  <2>1. Range(retrans) \cap Range(feedback) = {}
    BY ListFacts
  <2> QED
    BY <1>1, <2>1, ListFacts, HeadToEnd
<1>4. p \notin Range(feedback) /\ p \notin Range(available)
  BY <1>3, ListFacts
<1>5. available' = available /\ round' = round
  BY DEF SendRetx
<1> QED
  BY <1>2, <1>3, <1>4, <1>5 DEF Available, Feedback, Retrans

LEMMA SendRetxIInv ==
  ASSUME IInv, NEW p \in Pid, SendRetx(p)
  PROVE  IInv'
<1>1. /\ p \in Retrans /\ p \notin Feedback /\ p \notin Available
      /\ retrans' \in Seq(Pid) /\ IsInjective(retrans')
      /\ Retrans' = Retrans \ {p}
      /\ feedback' \in Seq(Pid) /\ IsInjective(feedback')
      /\ Feedback' = Feedback \cup {p}
      /\ available' = available /\ Available' = Available /\ round' = round
  BY SendRetxLists
<1>2. /\ waiting' = [waiting EXCEPT ![p] = TRUE]
      /\ sched' = NoPdsch /\ ndi' = ndi /\ saved' = saved
      /\ silent' = silent /\ interrupt' = interrupt /\ failure' = failure
      /\ taApply' = ApplyNow /\ taFrame' = taFrame
  BY DEF SendRetx, Expect, state
<1>3. frame' \in 0 .. Frames - 1 /\ stage' = "slot"
  BY EndSlotType DEF SendRetx, Sending
<1>4. ApplyNow \in BOOLEAN
  BY DEF ApplyNow
<1>5. TypeOK'
  BY <1>1, <1>2, <1>3, <1>4 DEF IInv, TypeOK
<1>6. ProcessesPartitioned'
  BY <1>1 DEF IInv, ProcessesPartitioned
<1>7. WaitingMeansFeedback'
  BY <1>1, <1>2 DEF IInv, TypeOK, WaitingMeansFeedback
<1>8. HandOffSound' /\ PlanReports'
  BY <1>2, NoPdschNone DEF HandOffSound, PlanReports
<1>9. Rounds'
  BY <1>1 DEF IInv, Rounds
<1>10. Carriers'
  BY <1>1, <1>2 DEF IInv, Carriers
<1> QED
  BY <1>5, <1>6, <1>7, <1>8, <1>9, <1>10 DEF IInv

\* A process without feedback sends an initial transmission, and goes to the
\* end of the available list.
LEMMA SendSilentLists ==
  ASSUME IInv, NEW p \in Pid, SendSilent(p)
  PROVE  /\ p \in Available
         /\ available' \in Seq(Pid) /\ IsInjective(available')
         /\ Available' = Available
         /\ UNCHANGED <<feedback, retrans>>
         /\ round' = round /\ round[p] = 0
         /\ ndi' = [ndi EXCEPT ![p] = 1 - @]
<1>1. round[p] = 0 /\ available # <<>> /\ p = Head(available)
  BY SendingHead DEF SendSilent
<1>2. FinishDlHarq(p, Without(available, p)) /\ UNCHANGED <<feedback, retrans>>
  BY <1>1 DEF SendSilent
<1>3. Without(available, p) = Tail(available)
  BY <1>1, ListFacts, WithoutHead
<1> DEFINE t == Tail(available)
<1>4. /\ p \in Range(available)
      /\ t \in Seq(Pid) /\ IsInjective(t) /\ Range(t) = Range(available) \ {p}
  BY <1>1, ListFacts, TailRange
<1>5. available' = Append(t, p) /\ ndi' = [ndi EXCEPT ![p] = 1 - @]
  BY <1>2, <1>3 DEF FinishDlHarq
<1> HIDE DEF t
<1>6. /\ available' \in Seq(Pid) /\ IsInjective(available')
      /\ Range(available') = Range(t) \cup {p}
  BY <1>4, <1>5, AppendRange
<1>7. round' = round
  BY <1>1, <1>2 DEF FinishDlHarq, IInv, TypeOK
<1> QED
  BY <1>1, <1>2, <1>4, <1>5, <1>6, <1>7 DEF Available

LEMMA SendSilentIInv ==
  ASSUME IInv, NEW p \in Pid, SendSilent(p)
  PROVE  IInv'
<1>1. /\ p \in Available
      /\ available' \in Seq(Pid) /\ IsInjective(available')
      /\ Available' = Available
      /\ feedback' = feedback /\ retrans' = retrans
      /\ round' = round
      /\ ndi' = [ndi EXCEPT ![p] = 1 - @]
  BY SendSilentLists
<1>2. /\ waiting' = waiting
      /\ saved' = [saved EXCEPT ![p] = sched]
      /\ sched' = NoPdsch
      /\ silent' = silent /\ interrupt' = interrupt /\ failure' = failure
      /\ taApply' = FALSE /\ taFrame' \in {frame, taFrame}
  BY DEF SendSilent, SendTa, state
<1>3. frame' \in 0 .. Frames - 1 /\ stage' = "slot"
  BY EndSlotType DEF SendSilent, Sending
<1>4. sched \in Pdsch
  BY SendingHead DEF SendSilent
<1>5. TypeOK'
  <2>1. \A b \in {0, 1} : 1 - b \in {0, 1}
    OBVIOUS
  <2>2. ndi' \in [Pid -> {0, 1}]
    BY <1>1, <2>1 DEF IInv, TypeOK
  <2> QED
    BY <1>1, <1>2, <1>3, <1>4, <2>2 DEF IInv, TypeOK
<1>6. Feedback' = Feedback /\ Retrans' = Retrans
  BY <1>1 DEF Feedback, Retrans
<1>7. ProcessesPartitioned'
  BY <1>1, <1>6 DEF IInv, ProcessesPartitioned
<1>8. WaitingMeansFeedback' /\ Rounds'
  BY <1>1, <1>2, <1>6 DEF IInv, WaitingMeansFeedback, Rounds
<1>9. HandOffSound' /\ PlanReports'
  BY <1>2, NoPdschNone DEF HandOffSound, PlanReports
<1>10. Carriers'
  BY <1>1, <1>2, <1>6 DEF IInv, TypeOK, Carriers, ProcessesPartitioned
<1> QED
  BY <1>5, <1>7, <1>8, <1>9, <1>10 DEF IInv

LEMMA SendNothingIInv ==
  ASSUME IInv, SendNothing
  PROVE  IInv'
<1>1. frame' \in 0 .. Frames - 1 /\ stage' = "slot"
  BY EndSlotType DEF SendNothing
<1>2. /\ UNCHANGED <<lists, procs, sched, taFrame, state>>
      /\ taApply' = (IF failure THEN taApply ELSE ApplyNow)
      /\ sched = NoPdsch
  BY DEF SendNothing
<1> USE DEF lists, procs, state
<1>3. TypeOK'
  BY <1>1, <1>2 DEF IInv, TypeOK, ApplyNow
<1>4. ProcessesPartitioned' /\ WaitingMeansFeedback' /\ Rounds' /\ Carriers'
  BY <1>2 DEF IInv, ProcessesPartitioned, WaitingMeansFeedback, Rounds, Carriers,
              Available, Feedback, Retrans
<1>5. HandOffSound' /\ PlanReports'
  BY <1>2, NoPdschNone DEF HandOffSound, PlanReports
<1> QED
  BY <1>3, <1>4, <1>5 DEF IInv

-----------------------------------------------------------------------------
(* Environment                                                             *)

\* Whatever is reported, the oldest process leaves the feedback list.
LEMMA ReportTakes ==
  ASSUME IInv, NEW ok \in BOOLEAN, Report(ok)
  PROVE  LET p == Head(feedback) IN
           /\ p \in Pid /\ p \in Feedback /\ p \notin Available /\ p \notin Retrans
           /\ feedback' \in Seq(Pid) /\ IsInjective(feedback')
           /\ Feedback' = Feedback \ {p}
           /\ waiting' = [waiting EXCEPT ![p] = FALSE]
           /\ UNCHANGED <<saved, sched, clock, ta, state>>
<1> DEFINE p == Head(feedback)
<1>1. feedback # <<>> /\ feedback' = Tail(feedback)
  BY DEF Report
<1>2. /\ p \in Pid /\ p \in Range(feedback)
      /\ feedback' \in Seq(Pid) /\ IsInjective(feedback')
      /\ Range(feedback') = Range(feedback) \ {p}
  BY <1>1, ListFacts, TailRange
<1>3. p \notin Range(available) /\ p \notin Range(retrans)
  BY <1>2, ListFacts
<1>4. /\ waiting' = [waiting EXCEPT ![p] = FALSE]
      /\ UNCHANGED <<saved, sched, clock, ta, state>>
  BY DEF Report
<1> QED
  BY <1>2, <1>3, <1>4 DEF Available, Feedback, Retrans

\* The two outcomes of a report, for the process p that left the list: it is
\* available again ...
Concluded(p) ==
  /\ available' = Append(available, p)
  /\ round' = [round EXCEPT ![p] = 0]
  /\ ndi' = [ndi EXCEPT ![p] = 1 - @]
  /\ retrans' = retrans

\* ... or waits for its retransmission.
Refused(p) ==
  /\ round[p] < RoundMax - 1
  /\ retrans' = Append(retrans, p)
  /\ round' = [round EXCEPT ![p] = @ + 1]
  /\ available' = available
  /\ ndi' = ndi

LEMMA ReportOutcome ==
  ASSUME NEW ok \in BOOLEAN, Report(ok)
  PROVE  Concluded(Head(feedback)) \/ Refused(Head(feedback))
BY DEF Report, FinishDlHarq, Concluded, Refused

\* Where the process ends up.
LEMMA ReportLists ==
  ASSUME IInv, NEW ok \in BOOLEAN, Report(ok), NEW p, p = Head(feedback)
  PROVE  /\ available' \in Seq(Pid) /\ IsInjective(available')
         /\ retrans' \in Seq(Pid) /\ IsInjective(retrans')
         /\ Concluded(p) => Available' = Available \cup {p} /\ Retrans' = Retrans
         /\ Refused(p) => Retrans' = Retrans \cup {p} /\ Available' = Available
<1>1. p \in Pid /\ p \notin Range(available) /\ p \notin Range(retrans)
  BY ReportTakes DEF Available, Retrans
<1>2. /\ available \in Seq(Pid) /\ IsInjective(available)
      /\ retrans \in Seq(Pid) /\ IsInjective(retrans)
  BY ListFacts
<1>3. /\ Append(available, p) \in Seq(Pid) /\ IsInjective(Append(available, p))
      /\ Range(Append(available, p)) = Range(available) \cup {p}
  BY <1>1, <1>2, AppendRange
<1>4. /\ Append(retrans, p) \in Seq(Pid) /\ IsInjective(Append(retrans, p))
      /\ Range(Append(retrans, p)) = Range(retrans) \cup {p}
  BY <1>1, <1>2, AppendRange
<1> QED
  BY <1>2, <1>3, <1>4, ReportOutcome DEF Concluded, Refused, Available, Retrans

LEMMA ReportIInv ==
  ASSUME IInv, NEW ok \in BOOLEAN, Report(ok)
  PROVE  IInv'
<1> USE DlHarqAssumption
<1> DEFINE p == Head(feedback)
<1>1. /\ p \in Pid /\ p \in Feedback /\ p \notin Available /\ p \notin Retrans
      /\ feedback' \in Seq(Pid) /\ IsInjective(feedback')
      /\ Feedback' = Feedback \ {p}
      /\ waiting' = [waiting EXCEPT ![p] = FALSE]
      /\ UNCHANGED <<saved, sched, clock, ta, state>>
  BY ReportTakes
<1>2. /\ available' \in Seq(Pid) /\ IsInjective(available')
      /\ retrans' \in Seq(Pid) /\ IsInjective(retrans')
      /\ Concluded(p) => Available' = Available \cup {p} /\ Retrans' = Retrans
      /\ Refused(p) => Retrans' = Retrans \cup {p} /\ Available' = Available
  BY ReportLists
<1>3. Concluded(p) \/ Refused(p)
  BY ReportOutcome
<1>4. stage = "slot" /\ sched = NoPdsch
  BY DEF Report, IInv, HandOffSound
<1> HIDE DEF p
<1> USE DEF clock, ta, state
<1>5. round' \in [Pid -> 0 .. RoundMax - 1] /\ ndi' \in [Pid -> {0, 1}]
  <2>1. CASE Concluded(p)
    <3>1. \A b \in {0, 1} : 1 - b \in {0, 1}
      OBVIOUS
    <3>2. ndi' \in [Pid -> {0, 1}]
      BY <1>1, <2>1, <3>1 DEF Concluded, IInv, TypeOK
    <3>3. round' \in [Pid -> 0 .. RoundMax - 1]
      BY <1>1, <2>1 DEF Concluded, IInv, TypeOK
    <3> QED
      BY <3>2, <3>3
  <2>2. CASE Refused(p)
    BY <1>1, <2>2 DEF Refused, IInv, TypeOK
  <2> QED
    BY <1>3, <2>1, <2>2
<1>6. TypeOK'
  BY <1>1, <1>2, <1>5 DEF IInv, TypeOK
<1>7. ProcessesPartitioned'
  BY <1>1, <1>2, <1>3 DEF IInv, ProcessesPartitioned
<1>8. WaitingMeansFeedback'
  BY <1>1 DEF IInv, TypeOK, WaitingMeansFeedback
<1>9. Rounds'
  <2>1. CASE Concluded(p)
    <3>1. round'[p] = 0 /\ \A q \in Pid \ {p} : round'[q] = round[q]
      BY <1>1, <2>1 DEF Concluded, IInv, TypeOK
    <3> QED
      BY <1>1, <1>2, <2>1, <3>1 DEF IInv, Rounds, ProcessesPartitioned
  <2>2. CASE Refused(p)
    <3>1. round'[p] > 0 /\ \A q \in Pid \ {p} : round'[q] = round[q]
      BY <1>1, <2>2 DEF Refused, IInv, TypeOK
    <3> QED
      BY <1>1, <1>2, <2>2, <3>1 DEF IInv, Rounds, ProcessesPartitioned
  <2> QED
    BY <1>3, <2>1, <2>2
<1>10. HandOffSound' /\ PlanReports'
  BY <1>1, <1>4, NoPdschNone DEF HandOffSound, PlanReports
<1>11. Carriers'
  BY <1>1, <1>2, <1>3 DEF IInv, Carriers
<1> QED
  BY <1>6, <1>7, <1>8, <1>9, <1>10, <1>11 DEF IInv

\* Interruptions and failures of the UE move no process.
LEMMA InterruptFailIInv ==
  ASSUME IInv, Interrupt \/ Fail
  PROVE  IInv'
<1>1. /\ UNCHANGED <<lists, procs, sched, clock, ta, silent>>
      /\ interrupt' \in BOOLEAN /\ failure' \in BOOLEAN
  BY DEF Interrupt, Fail, IInv, TypeOK
<1>2. sched = NoPdsch
  BY DEF Interrupt, Fail, IInv, HandOffSound
<1> USE DEF lists, procs, clock, ta
<1>3. TypeOK'
  BY <1>1 DEF IInv, TypeOK
<1>4. ProcessesPartitioned' /\ WaitingMeansFeedback' /\ Rounds' /\ Carriers'
  BY <1>1 DEF IInv, ProcessesPartitioned, WaitingMeansFeedback, Rounds, Carriers,
              Available, Feedback, Retrans
<1>5. HandOffSound' /\ PlanReports'
  BY <1>1, <1>2, NoPdschNone DEF HandOffSound, PlanReports
<1> QED
  BY <1>3, <1>4, <1>5 DEF IInv

\* The return of the UE puts every process back on the available list.
LEMMA ReaccessIInv ==
  ASSUME IInv, Reaccess
  PROVE  IInv'
<1> USE DlHarqAssumption
<1> DEFINE pending == available \o feedback
<1>1. /\ pending \in Seq(Pid) /\ IsInjective(pending)
      /\ Range(pending) = Range(available) \cup Range(feedback)
  BY ListFacts, ConcatRange
<1>2. /\ available' = pending \o retrans
      /\ feedback' = <<>> /\ retrans' = <<>>
      /\ waiting' = [p \in Pid |-> FALSE]
      /\ round' = [p \in Pid |-> 0]
      /\ failure' = FALSE
      /\ UNCHANGED <<ndi, saved, sched, clock, ta, silent, interrupt>>
  BY DEF Reaccess
<1>3. sched = NoPdsch
  BY DEF Reaccess, IInv, HandOffSound
<1> HIDE DEF pending
<1>4. /\ available' \in Seq(Pid) /\ IsInjective(available')
      /\ Range(available') = Pid
  <2>1. Range(pending) \cap Range(retrans) = {}
    BY <1>1, ListFacts
  <2>2. /\ pending \o retrans \in Seq(Pid) /\ IsInjective(pending \o retrans)
        /\ Range(pending \o retrans) = Range(pending) \cup Range(retrans)
    BY <1>1, <2>1, ListFacts, ConcatRange
  <2> QED
    BY <1>1, <1>2, <2>2, ListFacts
<1>5. IsInjective(<<>>) /\ Range(<<>>) = {} /\ <<>> \in Seq(Pid)
  BY DEF IsInjective, Range
<1> USE DEF clock, ta
<1>6. TypeOK'
  <2>1. round' \in [Pid -> 0 .. RoundMax - 1]
    BY <1>2
  <2> QED
    BY <1>2, <1>4, <1>5, <2>1 DEF IInv, TypeOK
<1>7. ProcessesPartitioned'
  BY <1>2, <1>4, <1>5 DEF ProcessesPartitioned, Available, Feedback, Retrans
<1>8. WaitingMeansFeedback' /\ Rounds' /\ Carriers'
  BY <1>2, <1>4, <1>5 DEF WaitingMeansFeedback, Rounds, Carriers, Available, Feedback, Retrans
<1>9. HandOffSound' /\ PlanReports'
  BY <1>2, <1>3, NoPdschNone DEF HandOffSound, PlanReports
<1> QED
  BY <1>6, <1>7, <1>8, <1>9 DEF IInv

\* Every step of the scheduler and of the environment keeps the invariant.
LEMMA NextIInv == IInv /\ [Next]_vars => IInv'
<1> SUFFICES ASSUME IInv, [Next]_vars PROVE IInv'
  OBVIOUS
<1>1. CASE PlanNothing
  BY <1>1, PlanNothingIInv
<1>2. CASE PlanRetx
  BY <1>2, PlanRetxIInv
<1>3. CASE PlanData \/ PlanTa
  BY <1>3, PlanNewIInv DEF PlanData, PlanTa
<1>4. CASE SendNothing
  BY <1>4, SendNothingIInv
<1>5. ASSUME NEW p \in Pid, SendNew(p) \/ SendSilent(p) \/ SendRetx(p) PROVE IInv'
  BY <1>5, SendNewIInv, SendSilentIInv, SendRetxIInv
<1>6. ASSUME NEW ok \in BOOLEAN, Report(ok) PROVE IInv'
  BY <1>6, ReportIInv
<1>7. CASE Interrupt \/ Fail
  BY <1>7, InterruptFailIInv
<1>8. CASE Reaccess
  BY <1>8, ReaccessIInv
<1>9. CASE UNCHANGED vars
  BY <1>9 DEF vars, lists, procs, clock, ta, state, IInv, TypeOK, ProcessesPartitioned,
     WaitingMeansFeedback, HandOffSound, Rounds, Carriers, PlanReports,
     Available, Feedback, Retrans
<1> QED
  BY <1>1, <1>2, <1>3, <1>4, <1>5, <1>6, <1>7, <1>8, <1>9 DEF Next, Plan, Send

\* Every state of the downlink HARQ entity is well typed.
THEOREM DlHarqTypeOK == Spec => []TypeOK
<1>1. IInv => TypeOK
  BY DEF IInv
<1> QED
  BY <1>1, InitIInv, NextIInv, PTL DEF Spec

\* No process is ever lost or on two lists, whatever is refused, not reported
\* or reset.
THEOREM DlHarqPartitioned == Spec => []ProcessesPartitioned
<1>1. IInv => ProcessesPartitioned
  BY DEF IInv
<1> QED
  BY <1>1, InitIInv, NextIInv, PTL DEF Spec

\* is_waiting marks the processes on the feedback list, and no others.
THEOREM DlHarqWaiting == Spec => []WaitingMeansFeedback
<1>1. IInv => WaitingMeansFeedback
  BY DEF IInv
<1> QED
  BY <1>1, InitIInv, NextIInv, PTL DEF Spec

\* What pf_dl leaves in sched_pdsch fits the lists when it is sent, and the
\* assertions of nr_schedule_ue_spec never fail.
THEOREM DlHarqHandOff == Spec => []HandOffSound
<1>1. IInv => HandOffSound
  BY DEF IInv
<1> QED
  BY <1>1, InitIInv, NextIInv, PTL DEF Spec


-----------------------------------------------------------------------------
(* The new data indicator                                                  *)

\* The steps that keep the lists and the indicator, and send no PDSCH of a
\* process without feedback.
LEMMA QuietNdi ==
  ASSUME IInv, NEW p \in Pid, UNCHANGED ndi,
         Available' \subseteq Available, stage' = "slot" => sched = NoPdsch \/ sched.report
  PROVE  ndi'[p] # ndi[p] <=> Concludes(p) \/ SentSilently(p)
<1>1. ~Concludes(p)
  BY DEF IInv, ProcessesPartitioned, Concludes, Available
<1>2. ~SentSilently(p)
  BY DEF SentSilently
<1> QED
  BY <1>1, <1>2

\* A process without feedback: its own indicator toggles.
LEMMA SilentNdi ==
  ASSUME IInv, NEW p \in Pid, SendSilent(p), NEW q \in Pid
  PROVE  ndi'[q] # ndi[q] <=> Concludes(q) \/ SentSilently(q)
<1>1. Available' = Available /\ ndi' = [ndi EXCEPT ![p] = 1 - @]
  BY SendSilentLists
<1>2. ~Concludes(q)
  BY <1>1 DEF IInv, ProcessesPartitioned, Concludes, Available
<1>3. SentSilently(q) <=> q = p
  BY DEF SendSilent, Sending, EndSlot, SentSilently
<1>4. ndi'[q] # ndi[q] <=> q = p
  <2>1. ndi[p] \in {0, 1} /\ ndi \in [Pid -> {0, 1}]
    BY DEF IInv, TypeOK
  <2> QED
    BY <1>1, <2>1
<1> QED
  BY <1>2, <1>3, <1>4

\* A report: the indicator of the process that concludes toggles.
LEMMA ReportNdi ==
  ASSUME IInv, NEW ok \in BOOLEAN, Report(ok), NEW q \in Pid
  PROVE  ndi'[q] # ndi[q] <=> Concludes(q) \/ SentSilently(q)
<1> DEFINE p == Head(feedback)
<1>1. p \in Pid /\ p \in Feedback /\ p \notin Available
  BY ReportTakes
<1>2. Concluded(p) \/ Refused(p)
  BY ReportOutcome
<1>3. /\ Concluded(p) => Available' = Available \cup {p}
      /\ Refused(p) => Available' = Available
  BY ReportLists
<1>4. sched = NoPdsch
  BY DEF Report, IInv, HandOffSound
<1>5. ~SentSilently(q)
  BY <1>4 DEF SentSilently
<1> HIDE DEF p
<1>6. CASE Concluded(p)
  <2>1. Concludes(q) <=> q = p
    BY <1>1, <1>3, <1>6 DEF Concludes, Available, IInv, ProcessesPartitioned
  <2>2. ndi'[q] # ndi[q] <=> q = p
    <3>1. ndi[p] \in {0, 1} /\ ndi \in [Pid -> {0, 1}]
      BY <1>1 DEF IInv, TypeOK
    <3> QED
      BY <1>6, <3>1 DEF Concluded
  <2> QED
    BY <1>5, <2>1, <2>2
<1>7. CASE Refused(p)
  <2>1. ~Concludes(q)
    BY <1>3, <1>7 DEF Concludes, Available, IInv, ProcessesPartitioned
  <2>2. ndi' = ndi
    BY <1>7 DEF Refused
  <2> QED
    BY <1>5, <2>1, <2>2
<1> QED
  BY <1>2, <1>6, <1>7

LEMMA NdiStep ==
  ASSUME IInv, [Next]_vars
  PROVE  [Reaccess \/ \A p \in Pid : ndi'[p] # ndi[p] <=> Concludes(p) \/ SentSilently(p)]_vars
<1> DEFINE Right == \A p \in Pid : ndi'[p] # ndi[p] <=> Concludes(p) \/ SentSilently(p)
<1> USE DEF lists, procs, clock
<1>1. CASE Plan
  <2>1. UNCHANGED <<ndi, available>> /\ stage' = "send"
    BY <1>1 DEF Plan, PlanNothing, PlanRetx, PlanData, PlanTa, PlanNew, Planning
  <2>2. Available' = Available
    BY <2>1 DEF Available
  <2> QED
    BY <2>1, <2>2, QuietNdi
<1>2. CASE SendNothing \/ Interrupt \/ Fail
  <2>1. UNCHANGED <<ndi, available>> /\ sched = NoPdsch
    BY <1>2 DEF SendNothing, Interrupt, Fail, IInv, HandOffSound
  <2>2. Available' = Available
    BY <2>1 DEF Available
  <2> QED
    BY <2>1, <2>2, QuietNdi
<1>3. ASSUME NEW p \in Pid, SendNew(p) \/ SendRetx(p) PROVE Right
  <2>1. UNCHANGED ndi /\ sched.report
    BY <1>3 DEF SendNew, SendRetx
  <2>2. Available' \subseteq Available
    BY <1>3, SendNewLists, SendRetxLists
  <2> QED
    BY <2>1, <2>2, QuietNdi
<1>4. ASSUME NEW p \in Pid, SendSilent(p) PROVE Right
  BY <1>4, SilentNdi
<1>5. ASSUME NEW ok \in BOOLEAN, Report(ok) PROVE Right
  BY <1>5, ReportNdi
<1> QED
  BY <1>1, <1>2, <1>3, <1>4, <1>5 DEF Next, Send

\* One toggle of the new data indicator for every block, for processes with
\* and without feedback.
THEOREM DlHarqNdi == Spec => NdiTogglesPerBlock
<1>1. IInv /\ [Next]_vars =>
        [Reaccess \/ \A p \in Pid : ndi'[p] # ndi[p] <=> Concludes(p) \/ SentSilently(p)]_vars
  BY NdiStep
<1> QED
  BY <1>1, InitIInv, NextIInv, PTL DEF Spec, NdiTogglesPerBlock

-----------------------------------------------------------------------------
(* Refinement of HarqProcess                                               *)

\* the phases the refinement mapping gives
Phases == [p \in Pid |-> PhaseOf(p)]

\* On partitioned lists the phase of a process is the list it is on.
LEMMA PhaseIsList ==
  ASSUME ProcessesPartitioned, NEW p \in Pid
  PROVE  /\ Phases[p] = PhaseOf(p)
         /\ p \in Available => PhaseOf(p) = "idle"
         /\ p \in Feedback => PhaseOf(p) = "sent"
         /\ p \in Retrans => PhaseOf(p) = "nacked"
  BY DEF ProcessesPartitioned, Phases, PhaseOf

\* A step that moves one process, and that to the list of phase ph.
LEMMA Moves ==
  ASSUME NEW p \in Pid, NEW ph, PhaseOf(p)' = ph,
         \A q \in Pid \ {p} : /\ q \in Available' <=> q \in Available
                              /\ q \in Feedback' <=> q \in Feedback
  PROVE  Phases' = [Phases EXCEPT ![p] = ph]
  BY DEF Phases, PhaseOf

\* Steps that move no process and change no round are stutters.
LEMMA Stutters ==
  ASSUME UNCHANGED <<Available, Feedback, round>>
  PROVE  UNCHANGED Abstract!vars
<1>1. Phases' = Phases
  BY DEF Phases, PhaseOf
<1> QED
  BY <1>1 DEF Abstract!vars, Phases

LEMMA SendNewRefines ==
  ASSUME IInv, NEW p \in Pid, SendNew(p)
  PROVE  Abstract!Next
<1>1. /\ p \in Available /\ Available' = Available \ {p}
      /\ Feedback' = Feedback \cup {p} /\ round' = round
  BY SendNewLists
<1>2. Phases[p] = "idle" /\ round' = [round EXCEPT ![p] = 0]
  BY <1>1, PhaseIsList DEF IInv, TypeOK, Rounds
<1>3. PhaseOf(p)' = "sent"
  BY <1>1 DEF PhaseOf
<1>4. Phases' = [Phases EXCEPT ![p] = "sent"]
  BY <1>1, <1>3, Moves
<1>5. Abstract!Send(p)
  BY <1>2, <1>4 DEF Abstract!Send, Abstract!Become, Phases
<1> QED
  BY <1>5 DEF Abstract!Next

LEMMA SendRetxRefines ==
  ASSUME IInv, NEW p \in Pid, SendRetx(p)
  PROVE  Abstract!Next
<1>1. /\ p \in Retrans /\ p \notin Available /\ Available' = Available
      /\ Feedback' = Feedback \cup {p} /\ round' = round
  BY SendRetxLists
<1>2. Phases[p] = "nacked" /\ round' = [round EXCEPT ![p] = round[p]]
  BY <1>1, PhaseIsList DEF IInv, TypeOK
<1>3. PhaseOf(p)' = "sent"
  BY <1>1 DEF PhaseOf
<1>4. Phases' = [Phases EXCEPT ![p] = "sent"]
  BY <1>1, <1>3, Moves
<1>5. Abstract!Resend(p)
  BY <1>2, <1>4 DEF Abstract!Resend, Abstract!Become, Phases
<1> QED
  BY <1>5 DEF Abstract!Next

LEMMA ReportRefines ==
  ASSUME IInv, NEW ok \in BOOLEAN, Report(ok)
  PROVE  Abstract!Next
<1>0. PICK p \in Pid : p = Head(feedback)
  BY ReportTakes
<1>1. p \in Feedback /\ p \notin Available /\ Feedback' = Feedback \ {p}
  BY <1>0, ReportTakes
<1>2. Phases[p] = "sent"
  BY <1>1, PhaseIsList DEF IInv
<1>3. CASE Concluded(p)
  <2>1. Available' = Available \cup {p} /\ round' = [round EXCEPT ![p] = 0]
    BY <1>0, <1>3, ReportLists DEF Concluded
  <2>2. PhaseOf(p)' = "idle"
    BY <2>1 DEF PhaseOf
  <2>3. Phases' = [Phases EXCEPT ![p] = "idle"]
    BY <1>1, <2>1, <2>2, Moves
  <2>4. Abstract!Finish(p)
    BY <1>2, <2>1, <2>3 DEF Abstract!Finish, Abstract!Become, Phases
  <2> QED
    BY <2>4 DEF Abstract!Next
<1>4. CASE Refused(p)
  <2>1. /\ Available' = Available /\ round[p] < RoundMax - 1
        /\ round' = [round EXCEPT ![p] = @ + 1]
    BY <1>0, <1>4, ReportLists DEF Refused
  <2>2. PhaseOf(p)' = "nacked"
    BY <1>1, <2>1 DEF PhaseOf
  <2>3. Phases' = [Phases EXCEPT ![p] = "nacked"]
    BY <1>1, <2>1, <2>2, Moves
  <2>4. round[p] + 1 < RoundMax
    BY <2>1, DlHarqAssumption DEF IInv, TypeOK
  <2>5. Abstract!Nack(p)
    BY <1>2, <2>1, <2>3, <2>4 DEF Abstract!Nack, Abstract!Become, Phases
  <2> QED
    BY <2>5 DEF Abstract!Next
<1> QED
  BY <1>0, <1>3, <1>4, ReportOutcome

\* Every step is a step of the abstract processes or leaves them alone.
LEMMA StepRefines ==
  ASSUME IInv, IInv', [Next]_vars
  PROVE  [Abstract!Next]_(Abstract!vars)
<1>1. ASSUME NEW p \in Pid, SendNew(p) \/ SendRetx(p) PROVE Abstract!Next
  BY <1>1, SendNewRefines, SendRetxRefines
<1>2. ASSUME NEW ok \in BOOLEAN, Report(ok) PROVE Abstract!Next
  BY <1>2, ReportRefines
<1>3. CASE Reaccess
  <2>1. Feedback' = {} /\ Retrans' = {}
    BY <1>3 DEF Reaccess, Feedback, Retrans, Range
  <2>2. \A p \in Pid : PhaseOf(p)' = "idle"
    BY <2>1 DEF IInv, ProcessesPartitioned, PhaseOf
  <2>3. Phases' = [p \in Pid |-> "idle"]
    BY <2>2 DEF Phases
  <2>4. Abstract!Reset
    BY <1>3, <2>3 DEF Reaccess, Abstract!Reset, Phases
  <2> QED
    BY <2>4 DEF Abstract!Next
<1>4. ASSUME NEW p \in Pid, SendSilent(p) PROVE UNCHANGED Abstract!vars
  <2>1. UNCHANGED <<Available, Feedback, round>>
    BY <1>4, SendSilentLists DEF Feedback
  <2> QED
    BY <2>1, Stutters
<1>5. CASE Plan \/ SendNothing \/ Interrupt \/ Fail \/ UNCHANGED vars
  <2>1. UNCHANGED <<lists, round>>
    BY <1>5 DEF Plan, PlanNothing, PlanRetx, PlanData, PlanTa, PlanNew, SendNothing,
       Interrupt, Fail, vars, procs
  <2>2. UNCHANGED <<Available, Feedback, round>>
    BY <2>1 DEF lists, Available, Feedback
  <2> QED
    BY <2>2, Stutters
<1> QED
  BY <1>1, <1>2, <1>3, <1>4, <1>5 DEF Next, Send

\* The process lists of the downlink implement the promise of HarqProcess: a
\* block is sent at most RoundMax times and concludes before the next one.
THEOREM DlHarqRefines == Spec => ImplementsHarqProcess
<1>1. Init => Abstract!Init
  <2> SUFFICES ASSUME Init PROVE Abstract!Init
    OBVIOUS
  <2>1. \A p \in Pid : p \in Available
    BY DEF Init, Available
  <2>2. Phases = [p \in Pid |-> "idle"]
    BY <2>1 DEF Phases, PhaseOf
  <2> QED
    BY <2>2 DEF Abstract!Init, Init, Phases
<1>2. IInv /\ IInv' /\ [Next]_vars => [Abstract!Next]_(Abstract!vars)
  BY StepRefines
<1> QED
  BY <1>1, <1>2, InitIInv, NextIInv, PTL DEF Spec, ImplementsHarqProcess, Abstract!Spec
-----------------------------------------------------------------------------
(* How many moves a transport block has left                               *)
(*                                                                         *)
(* A block alternates between the feedback list and the retransmission     *)
(* list, one round further each time it comes back to the latter: what is  *)
(* left of its life can be counted.                                        *)

\* the moves between lists that the block of p can still make
MovesLeft(p) ==
  IF PhaseOf(p) = "idle" THEN 0
  ELSE 2 * (RoundMax - round[p]) - (IF PhaseOf(p) = "sent" THEN 1 ELSE 0)

\* A block on a list has moves left, fewer than two for every round.
MovesBounded ==
  \A p \in Pid : /\ MovesLeft(p) \in 0 .. 2 * RoundMax - 1
                 /\ MovesLeft(p) = 0 <=> p \in Available

\* A step leaves a block where it is, in its round, or uses up one of its
\* moves; a report always uses up a move of the oldest block, sending one again
\* a move of that block.
MovesRunOut ==
  /\ \A p \in Pid \ Available :
       \/ MovesLeft(p)' < MovesLeft(p)
       \/ PhaseOf(p)' = PhaseOf(p) /\ round'[p] = round[p]
  /\ (\E ok \in BOOLEAN : Report(ok)) =>
       \E p \in Pid : p = Head(feedback) /\ MovesLeft(p)' < MovesLeft(p)
  /\ \A p \in Pid : SendRetx(p) => MovesLeft(p)' < MovesLeft(p)

\* What a step of the abstract processes does to one of them.
LEMMA AbstractMoves ==
  ASSUME IInv, [Next]_vars, IInv', NEW p \in Pid
  PROVE  \/ PhaseOf(p)' = PhaseOf(p) /\ round'[p] = round[p]
         \/ PhaseOf(p) = "idle"
         \/ PhaseOf(p) = "nacked" /\ PhaseOf(p)' = "sent" /\ round'[p] = round[p]
         \/ PhaseOf(p) = "sent" /\ PhaseOf(p)' = "nacked" /\ round'[p] = round[p] + 1
         \/ PhaseOf(p)' = "idle"
<1>1. /\ Phases[p] = PhaseOf(p) /\ Phases'[p] = PhaseOf(p)'
      /\ DOMAIN Phases = Pid /\ Phases = [q \in Pid |-> PhaseOf(q)]
  BY DEF Phases
<1>2. DOMAIN round = Pid
  BY DEF IInv, TypeOK
<1>3. [Abstract!Next]_(Abstract!vars)
  BY StepRefines
<1>4. CASE UNCHANGED Abstract!vars
  <2>1. Phases' = Phases /\ round' = round
    BY <1>4 DEF Abstract!vars, Phases
  <2> QED
    BY <1>1, <2>1
<1>5. CASE Abstract!Reset
  <2>1. Phases' = [q \in Pid |-> "idle"]
    BY <1>5 DEF Abstract!Reset, Phases
  <2> QED
    BY <1>1, <2>1
<1>6. ASSUME NEW q \in Pid, NEW from, NEW to, NEW r, Phases[q] = from,
             Phases' = [Phases EXCEPT ![q] = to], round' = [round EXCEPT ![q] = r]
      PROVE  \/ p # q /\ PhaseOf(p)' = PhaseOf(p) /\ round'[p] = round[p]
             \/ p = q /\ PhaseOf(p) = from /\ PhaseOf(p)' = to /\ round'[p] = r
  BY <1>1, <1>2, <1>6
<1>7. ASSUME NEW q \in Pid,
             Abstract!Send(q) \/ Abstract!Resend(q) \/ Abstract!Nack(q) \/ Abstract!Finish(q)
      PROVE  \/ PhaseOf(p)' = PhaseOf(p) /\ round'[p] = round[p]
             \/ PhaseOf(p) = "idle"
             \/ PhaseOf(p) = "nacked" /\ PhaseOf(p)' = "sent" /\ round'[p] = round[p]
             \/ PhaseOf(p) = "sent" /\ PhaseOf(p)' = "nacked" /\ round'[p] = round[p] + 1
             \/ PhaseOf(p)' = "idle"
  <2>1. CASE Abstract!Send(q)
    <3>1. /\ Phases[q] = "idle" /\ Phases' = [Phases EXCEPT ![q] = "sent"]
          /\ round' = [round EXCEPT ![q] = 0]
      BY <2>1 DEF Abstract!Send, Abstract!Become, Phases
    <3> QED
      BY <3>1, <1>6
  <2>2. CASE Abstract!Resend(q)
    <3>1. /\ Phases[q] = "nacked" /\ Phases' = [Phases EXCEPT ![q] = "sent"]
          /\ round' = [round EXCEPT ![q] = round[q]]
      BY <2>2 DEF Abstract!Resend, Abstract!Become, Phases
    <3> QED
      BY <3>1, <1>6
  <2>3. CASE Abstract!Nack(q)
    <3>1. /\ Phases[q] = "sent" /\ Phases' = [Phases EXCEPT ![q] = "nacked"]
          /\ round' = [round EXCEPT ![q] = round[q] + 1]
      BY <2>3 DEF Abstract!Nack, Abstract!Become, Phases
    <3> QED
      BY <3>1, <1>6
  <2>4. CASE Abstract!Finish(q)
    <3>1. /\ Phases[q] = "sent" /\ Phases' = [Phases EXCEPT ![q] = "idle"]
          /\ round' = [round EXCEPT ![q] = 0]
      BY <2>4 DEF Abstract!Finish, Abstract!Become, Phases
    <3> QED
      BY <3>1, <1>6
  <2> QED
    BY <1>7, <2>1, <2>2, <2>3, <2>4
<1> QED
  BY <1>3, <1>4, <1>5, <1>7 DEF Abstract!Next

\* What the lists and the rounds say of a process, now and after the step.
LEMMA PhaseFacts ==
  ASSUME ProcessesPartitioned, Rounds, TypeOK, NEW p \in Pid
  PROVE  /\ round[p] \in 0 .. RoundMax - 1 /\ RoundMax \in Nat \ {0}
         /\ PhaseOf(p) \in {"idle", "sent", "nacked"}
         /\ PhaseOf(p) = "idle" <=> p \in Available
         /\ PhaseOf(p) = "nacked" => round[p] > 0
<1>1. /\ PhaseOf(p) = "idle" <=> p \in Available
      /\ PhaseOf(p) = "nacked" <=> p \notin Available /\ p \notin Feedback
      /\ PhaseOf(p) \in {"idle", "sent", "nacked"}
  BY DEF PhaseOf
<1>2. PhaseOf(p) = "nacked" => round[p] > 0
  BY <1>1 DEF ProcessesPartitioned, Rounds
<1>3. round[p] \in 0 .. RoundMax - 1 /\ RoundMax \in Nat \ {0}
  BY DlHarqAssumption DEF TypeOK, DlHarqAssumption
<1> QED
  BY <1>1, <1>2, <1>3

\* The moves left are fewer than two for every round, and none when idle.
LEMMA MovesAreBounded ==
  ASSUME IInv
  PROVE  MovesBounded
<1> SUFFICES ASSUME NEW p \in Pid
             PROVE  /\ MovesLeft(p) \in 0 .. 2 * RoundMax - 1
                    /\ MovesLeft(p) = 0 <=> p \in Available
  BY DEF MovesBounded
<1>1. /\ round[p] \in 0 .. RoundMax - 1 /\ RoundMax \in Nat \ {0}
      /\ PhaseOf(p) \in {"idle", "sent", "nacked"}
      /\ PhaseOf(p) = "idle" <=> p \in Available
      /\ PhaseOf(p) = "nacked" => round[p] > 0
  BY PhaseFacts DEF IInv
<1>2. CASE PhaseOf(p) = "idle"
  BY <1>1, <1>2 DEF MovesLeft
<1>3. CASE PhaseOf(p) = "sent"
  <2>1. MovesLeft(p) = 2 * (RoundMax - round[p]) - 1
    BY <1>3 DEF MovesLeft
  <2> QED
    BY <1>1, <1>3, <2>1
<1>4. CASE PhaseOf(p) = "nacked"
  <2>1. MovesLeft(p) = 2 * (RoundMax - round[p]) - 0
    BY <1>4 DEF MovesLeft
  <2> QED
    BY <1>1, <1>4, <2>1
<1> QED
  BY <1>1, <1>2, <1>3, <1>4

\* The first part of MovesRunOut, for one process.
LEMMA MoveCounts ==
  ASSUME IInv, [Next]_vars, IInv', NEW p \in Pid \ Available
  PROVE  \/ MovesLeft(p)' < MovesLeft(p)
         \/ PhaseOf(p)' = PhaseOf(p) /\ round'[p] = round[p]
<1>1. /\ round[p] \in 0 .. RoundMax - 1 /\ RoundMax \in Nat \ {0}
      /\ PhaseOf(p) \in {"sent", "nacked"}
  BY PhaseFacts DEF IInv
<1>2. /\ PhaseOf(p) = "sent" => MovesLeft(p) = 2 * (RoundMax - round[p]) - 1
      /\ PhaseOf(p) = "nacked" => MovesLeft(p) = 2 * (RoundMax - round[p]) - 0
  BY DEF MovesLeft
<1>3. CASE PhaseOf(p)' = "idle"
  <2>1. MovesLeft(p)' = 0
    BY <1>3 DEF MovesLeft
  <2>2. MovesLeft(p) > 0
    BY <1>1, <1>2
  <2> QED
    BY <2>1, <2>2
<1>4. CASE PhaseOf(p) = "nacked" /\ PhaseOf(p)' = "sent" /\ round'[p] = round[p]
  <2>1. MovesLeft(p)' = 2 * (RoundMax - round[p]) - 1
    BY <1>4 DEF MovesLeft
  <2> QED
    BY <1>1, <1>2, <1>4, <2>1
<1>5. CASE PhaseOf(p) = "sent" /\ PhaseOf(p)' = "nacked" /\ round'[p] = round[p] + 1
  <2>1. MovesLeft(p)' = 2 * (RoundMax - (round[p] + 1)) - 0
    BY <1>5 DEF MovesLeft
  <2> QED
    BY <1>1, <1>2, <1>5, <2>1
<1> QED
  BY <1>1, <1>3, <1>4, <1>5, AbstractMoves

\* A block makes at most 2 * RoundMax - 1 further moves between the lists, and
\* each report and each retransmission sent is one of them: the measure behind
\* BlocksConclude.
THEOREM DlHarqBlocksEnd == Spec => []MovesBounded /\ [][MovesRunOut]_vars
<1>1. ASSUME IInv PROVE MovesBounded
  BY <1>1, MovesAreBounded
<1>2. ASSUME IInv, [Next]_vars, IInv' PROVE MovesRunOut
  <2>1. ASSUME NEW ok \in BOOLEAN, Report(ok)
        PROVE  \E p \in Pid : p = Head(feedback) /\ MovesLeft(p)' < MovesLeft(p)
    <3>1. PICK p \in Pid : p = Head(feedback)
      BY <1>2, <2>1, ReportTakes
    <3>2. p \in Feedback /\ p \notin Available /\ p \notin Feedback'
      BY <1>2, <2>1, <3>1, ReportTakes
    <3>3. PhaseOf(p) = "sent" /\ PhaseOf(p)' # "sent"
      BY <3>2 DEF PhaseOf
    <3> QED
      BY <1>2, <3>1, <3>2, <3>3, MoveCounts
  <2>2. ASSUME NEW p \in Pid, SendRetx(p) PROVE MovesLeft(p)' < MovesLeft(p)
    <3>1. /\ p \notin Feedback /\ p \notin Available
          /\ p \in Feedback' /\ p \notin Available'
      BY <1>2, <2>2, SendRetxLists
    <3>2. PhaseOf(p) = "nacked" /\ PhaseOf(p)' = "sent"
      BY <3>1 DEF PhaseOf
    <3> QED
      BY <1>2, <3>1, <3>2, MoveCounts
  <2> QED
    BY <1>2, <2>1, <2>2, MoveCounts DEF MovesRunOut
<1> QED
  BY <1>1, <1>2, InitIInv, NextIInv, PTL DEF Spec
-----------------------------------------------------------------------------
(* Timing advance commands                                                 *)
(*                                                                         *)
(* A command falls due in one frame only, compared for equality across the *)
(* wrap of the frame number.  What keeps the commands coming is that the   *)
(* frame comes around, and that the flag it raises stays.                  *)

\* the frame in which the next command falls due, and how many frames ahead
DueFrame ==
  IF taFrame + TaPeriod < Frames THEN taFrame + TaPeriod ELSE taFrame + TaPeriod - Frames
TaWait ==
  IF DueFrame >= frame THEN DueFrame - frame ELSE DueFrame - frame + Frames

\* The wait is less than all frame numbers, and over in the frame of the check.
TaWaits == TaWait \in 0 .. Frames - 1 /\ (TaWait = 0 <=> Due)

\* a transmission carries the command that fell due
TaSent == ~failure /\ TaGoesOut

\* Only a command that is sent starts the wait anew, and takes down the flag;
\* the frame in which one falls due raises it unless it is sent at once or the
\* UE is interrupted or failed; the end of any other frame shortens the wait.
TaKept ==
  /\ TaSent => taFrame' = frame
  /\ taFrame' # taFrame => TaSent
  /\ taApply => taApply' \/ TaSent
  /\ stage = "send" /\ stage' # stage /\ Due /\ ~interrupt /\ ~failure => taApply' \/ TaSent
  /\ frame' # frame /\ ~TaSent /\ ~Due => TaWait' = TaWait - 1

\* One turn of the frame numbers.
LEMMA TurnOnce ==
  ASSUME NEW W \in Nat \ {0}, NEW t \in 0 .. W - 1, NEW d \in 0 .. W
  PROVE  (t + d) % W = IF t + d < W THEN t + d ELSE t + d - W
<1>1. \A q \in Int, r \in 0 .. W - 1 : (W * q + r) % W = r
  OBVIOUS
<1>2. CASE t + d < W
  <2>1. t + d = W * 0 + (t + d) /\ t + d \in 0 .. W - 1
    BY <1>2
  <2> QED
    BY <1>1, <1>2, <2>1
<1>3. CASE t + d >= W
  <2>1. t + d = W * 1 + (t + d - W) /\ t + d - W \in 0 .. W - 1
    BY <1>3
  <2> QED
    BY <1>1, <1>3, <2>1
<1> QED
  BY <1>2, <1>3

\* The frame of the check is that of DueFrame, and frames follow each other.
LEMMA FrameFacts ==
  ASSUME TypeOK
  PROVE  /\ DueFrame \in 0 .. Frames - 1
         /\ Due <=> frame = DueFrame
         /\ (frame + 1) % Frames = IF frame + 1 < Frames THEN frame + 1 ELSE 0
<1>1. /\ Frames \in Nat \ {0} /\ TaPeriod \in 1 .. Frames - 1
      /\ frame \in 0 .. Frames - 1 /\ taFrame \in 0 .. Frames - 1
  BY DlHarqAssumption DEF DlHarqAssumption, TypeOK
<1>2. TaPeriod \in 0 .. Frames /\ 1 \in 0 .. Frames
  BY <1>1
<1>3. (taFrame + TaPeriod) % Frames = DueFrame
  BY <1>1, <1>2, TurnOnce, Zenon DEF DueFrame
<1>4. (frame + 1) % Frames = IF frame + 1 < Frames THEN frame + 1 ELSE frame + 1 - Frames
  BY <1>1, <1>2, TurnOnce, Zenon
<1>5. DueFrame \in 0 .. Frames - 1
  BY <1>1 DEF DueFrame
<1> QED
  BY <1>1, <1>3, <1>4, <1>5 DEF Due

\* The flag and the frame of the last command change in nr_schedule_ue_spec.
LEMMA TaSteps ==
  ASSUME Next
  PROVE  \/ UNCHANGED <<taFrame, taApply, frame>> /\ stage = "slot"
         \/ /\ EndSlot
            /\ \/ failure /\ UNCHANGED <<taFrame, taApply>>
               \/ ~failure /\ taFrame' = taFrame /\ taApply' = ApplyNow
               \/ ~failure /\ SendTa
<1>1. CASE SendNothing
  BY <1>1 DEF SendNothing
<1>2. ASSUME NEW p \in Pid, SendNew(p) \/ SendSilent(p)
      PROVE  EndSlot /\ ~failure /\ SendTa
  BY <1>2 DEF SendNew, SendSilent, Sending
<1>3. ASSUME NEW p \in Pid, SendRetx(p)
      PROVE  EndSlot /\ ~failure /\ taFrame' = taFrame /\ taApply' = ApplyNow
  BY <1>3 DEF SendRetx, Sending
<1>4. CASE Plan
  BY <1>4 DEF Plan, PlanNothing, PlanRetx, PlanData, PlanTa, PlanNew, Planning, ta
<1>5. ASSUME NEW ok \in BOOLEAN, Report(ok)
      PROVE  UNCHANGED <<taFrame, taApply, frame>> /\ stage = "slot"
  BY <1>5 DEF Report, ta, clock
<1>6. CASE Interrupt \/ Fail \/ Reaccess
  BY <1>6 DEF Interrupt, Fail, Reaccess, ta, clock
<1> QED
  BY <1>1, <1>2, <1>3, <1>4, <1>5, <1>6 DEF Next, Send

\* Timing advance commands cannot get lost, across the wrap of the frame number
\* and for every period: the part of TaRecurs that needs no fairness.
THEOREM DlHarqTaKept == Spec => []TaWaits /\ [][TaKept]_vars
<1>1. ASSUME IInv PROVE TaWaits
  <2>1. Frames \in Nat \ {0} /\ frame \in 0 .. Frames - 1
    BY <1>1, DlHarqAssumption DEF DlHarqAssumption, IInv, TypeOK
  <2> QED
    BY <1>1, <2>1, FrameFacts DEF TaWaits, TaWait, IInv
<1>2. ASSUME IInv, Next PROVE TaKept
  <2>1. /\ Frames \in Nat \ {0} /\ frame \in 0 .. Frames - 1
        /\ DueFrame \in 0 .. Frames - 1 /\ (Due <=> frame = DueFrame)
        /\ (frame + 1) % Frames = IF frame + 1 < Frames THEN frame + 1 ELSE 0
    BY <1>2, DlHarqAssumption, FrameFacts DEF DlHarqAssumption, IInv, TypeOK
  <2>2. /\ taApply \in BOOLEAN /\ interrupt \in BOOLEAN /\ failure \in BOOLEAN
    BY <1>2 DEF IInv, TypeOK
  <2>3. /\ taFrame' # taFrame => TaSent
        /\ TaSent => taFrame' = frame
        /\ taApply => taApply' \/ TaSent
        /\ stage = "send" /\ stage' # stage /\ Due /\ ~interrupt /\ ~failure
             => taApply' \/ TaSent
    <3>1. CASE UNCHANGED <<taFrame, taApply, frame>> /\ stage = "slot"
      BY <3>1 DEF TaSent, TaGoesOut, ApplyNow
    <3> QED
      BY <1>2, <2>2, <3>1, TaSteps DEF TaSent, TaGoesOut, ApplyNow, SendTa, EndSlot
  <2>4. ASSUME frame' # frame, ~TaSent, ~Due PROVE TaWait' = TaWait - 1
    <3>1. frame' = (frame + 1) % Frames
      BY <1>2, <2>4, TaSteps DEF EndSlot
    <3>2. taFrame' = taFrame
      BY <2>3, <2>4
    <3>3. DueFrame' = DueFrame
      BY <3>2 DEF DueFrame
    <3> QED
      BY <2>1, <2>4, <3>1, <3>3 DEF TaWait
  <2> QED
    BY <2>3, <2>4 DEF TaKept
<1>3. IInv /\ [Next]_vars => [TaKept]_vars
  BY <1>2
<1> QED
  BY <1>1, <1>3, InitIInv, NextIInv, PTL DEF Spec
=============================================================================
