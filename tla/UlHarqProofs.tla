---------------------------- MODULE UlHarqProofs ----------------------------
(***************************************************************************)
(* Proofs about UlHarq for any set of processes, any number of rounds and  *)
(* any sizes.  The inductive invariant IInv joins the properties: a move   *)
(* between two lists keeps the lists disjoint only because the list it     *)
(* takes the id from has no duplicate, and the DCI of a retransmission is  *)
(* well typed only because a process off the available list has a size.    *)
(***************************************************************************)
EXTENDS UlHarq, FiniteSetTheorems, SequenceTheorems, WellFoundedInduction, TLAPS

-----------------------------------------------------------------------------
(* Sequences without duplicates                                            *)

\* Appending adds one element, and a new one makes no duplicate.
LEMMA AppendRange ==
  ASSUME NEW S, NEW s \in Seq(S), NEW x \in S
  PROVE  /\ Append(s, x) \in Seq(S)
         /\ Range(Append(s, x)) = Range(s) \cup {x}
         /\ IsInjective(s) /\ x \notin Range(s) => IsInjective(Append(s, x))
<1>1. /\ Append(s, x) \in Seq(S) /\ Append(s, x) = s \o <<x>>
      /\ DOMAIN s = 1 .. Len(s) /\ DOMAIN Append(s, x) = 1 .. Len(s) + 1 /\ Len(s) \in Nat
      /\ \A i \in 1 .. Len(s) : Append(s, x)[i] = s[i]
      /\ Append(s, x)[Len(s) + 1] = x
  OBVIOUS
<1>2. Range(Append(s, x)) = Range(s) \cup {x}
  BY <1>1, SMTT(30) DEF Range
<1>3. IsInjective(s) /\ x \notin Range(s) => IsInjective(Append(s, x))
  BY <1>1, SMTT(30) DEF Range, IsInjective
<1> QED
  BY <1>1, <1>2, <1>3

\* Removing the head of a duplicate-free sequence removes one element.
LEMMA TailRange ==
  ASSUME NEW S, NEW s \in Seq(S), s # <<>>, IsInjective(s)
  PROVE  /\ Head(s) \in S
         /\ Head(s) \in Range(s)
         /\ Tail(s) \in Seq(S)
         /\ Range(Tail(s)) = Range(s) \ {Head(s)}
         /\ IsInjective(Tail(s))
<1>1. /\ Head(s) \in S /\ Tail(s) \in Seq(S) /\ Head(s) = s[1] /\ 1 \in DOMAIN s
      /\ DOMAIN s = 1 .. Len(s) /\ DOMAIN Tail(s) = 1 .. Len(s) - 1 /\ Len(s) \in Nat
      /\ \A i \in 1 .. Len(s) - 1 : Tail(s)[i] = s[i + 1]
  OBVIOUS
<1>2. \A i \in DOMAIN s : i = 1 \/ (i - 1 \in DOMAIN Tail(s) /\ s[i] = Tail(s)[i - 1])
  BY <1>1
<1>3. \A i \in DOMAIN Tail(s) : i + 1 \in DOMAIN s /\ i + 1 # 1 /\ Tail(s)[i] = s[i + 1]
  BY <1>1
<1>4. Range(Tail(s)) = Range(s) \ {Head(s)}
  <2>1. ASSUME NEW y \in Range(s), y # Head(s) PROVE y \in Range(Tail(s))
    <3>1. PICK i \in DOMAIN s : y = s[i]
      BY DEF Range
    <3>2. i - 1 \in DOMAIN Tail(s) /\ y = Tail(s)[i - 1]
      BY <1>1, <1>2, <2>1, <3>1
    <3> QED
      BY <3>2 DEF Range
  <2>2. Range(Tail(s)) \subseteq Range(s) \ {Head(s)}
    BY <1>1, <1>3 DEF Range, IsInjective
  <2> QED
    BY <2>1, <2>2
<1>5. IsInjective(Tail(s))
  BY <1>1, <1>3 DEF IsInjective
<1> QED
  BY <1>1, <1>4, <1>5 DEF Range

\* Concatenating duplicate-free sequences that share no element.
LEMMA ConcatRange ==
  ASSUME NEW S, NEW s \in Seq(S), NEW u \in Seq(S)
  PROVE  /\ s \o u \in Seq(S)
         /\ Range(s \o u) = Range(s) \cup Range(u)
         /\ IsInjective(s) /\ IsInjective(u) /\ Range(s) \cap Range(u) = {}
              => IsInjective(s \o u)
<1>1. \A i \in DOMAIN (s \o u) :
         \/ i \in DOMAIN s /\ (s \o u)[i] = s[i] /\ i \in Int
         \/ i - Len(s) \in DOMAIN u /\ (s \o u)[i] = u[i - Len(s)] /\ i \in Int
  OBVIOUS
<1>2. ASSUME IsInjective(s), IsInjective(u), Range(s) \cap Range(u) = {}
      PROVE  IsInjective(s \o u)
  <2> SUFFICES ASSUME NEW a \in DOMAIN (s \o u), NEW b \in DOMAIN (s \o u),
                      (s \o u)[a] = (s \o u)[b]
               PROVE  a = b
    BY DEF IsInjective
  <2>1. ~(a \in DOMAIN s /\ b - Len(s) \in DOMAIN u /\ s[a] = u[b - Len(s)])
        /\ ~(b \in DOMAIN s /\ a - Len(s) \in DOMAIN u /\ s[b] = u[a - Len(s)])
    BY <1>2 DEF Range
  <2>2. a - Len(s) = b - Len(s) => a = b
    BY <1>1
  <2> QED
    BY <1>1, <1>2, <2>1, <2>2 DEF IsInjective
<1> QED
  BY <1>2, RangeConcatenation

-----------------------------------------------------------------------------
(* The process lists                                                       *)

\* a process that carries a transport block knows its size
CarriersSized == \A p \in Feedback \cup Retrans : tbSize[p] \in TbSize

IInv ==
  /\ TypeOK
  /\ ProcessesPartitioned
  /\ WaitingMeansFeedback
  /\ RoundsMatchLists
  /\ CarriersSized

\* A process set up by the connection is available and on no other list.
LEMMA InitIInv == Init => IInv
<1> SUFFICES ASSUME Init PROVE IInv
  OBVIOUS
<1> USE UlHarqAssumption
<1>1. /\ Cardinality(Pid) \in Nat => available \in Seq(Pid)
      /\ IsInjective(available) /\ Range(available) = Pid
  BY DEF Init
<1>2. Cardinality(Pid) \in Nat
  BY FS_CardinalityType
<1>3. /\ IsInjective(<<>>) /\ Range(<<>>) = {}
      /\ <<>> \in Seq(Pid) /\ <<>> \in Seq(Pusch)
  BY DEF IsInjective, Range
<1>4. TypeOK
  <2>1. available \in Seq(Pid) /\ feedback \in Seq(Pid) /\ retrans \in Seq(Pid)
    BY <1>1, <1>2, <1>3 DEF Init
  <2>2. round \in [Pid -> 0 .. RoundMax - 1] /\ dtx \in 0 .. DtxThreshold
    BY DEF Init
  <2> QED
    BY <1>3, <2>1, <2>2 DEF Init, TypeOK
<1>5. ProcessesPartitioned
  BY <1>1, <1>3 DEF Init, ProcessesPartitioned, NoDuplicates, Available, Feedback, Retrans
<1>6. WaitingMeansFeedback /\ RoundsMatchLists /\ CarriersSized
  BY <1>3 DEF Init, WaitingMeansFeedback, RoundsMatchLists, CarriersSized,
              Available, Feedback, Retrans
<1> QED
  BY <1>4, <1>5, <1>6 DEF IInv

\* The DCI of a grant is a well-typed PUSCH.
LEMMA GrantType ==
  ASSUME IInv, NEW p \in Pid, NEW tb \in TbSize, NEW bit \in {0, 1},
         Grant(p, tb, bit)
  PROVE  air' \in Seq(Pusch)
<1>1. [pid |-> p, ndi |-> bit, round |-> round[p], tb |-> tb] \in Pusch
  BY DEF IInv, TypeOK, Pusch
<1> QED
  BY <1>1, AppendRange DEF IInv, TypeOK, Grant

\* Granting new data moves the first available process to the feedback list.
LEMMA ScheduleNewLists ==
  ASSUME IInv, NEW tb \in TbSize, ScheduleNew(tb)
  PROVE  LET p == Head(available) IN
           /\ p \in Pid /\ p \in Available /\ p \notin Feedback /\ p \notin Retrans
           /\ available' \in Seq(Pid) /\ IsInjective(available')
           /\ Available' = Available \ {p}
           /\ feedback' \in Seq(Pid) /\ IsInjective(feedback')
           /\ Feedback' = Feedback \cup {p}
           /\ retrans' = retrans /\ Retrans' = Retrans /\ round' = round
<1> DEFINE p == Head(available)
<1>1. /\ available \in Seq(Pid) /\ available # <<>> /\ IsInjective(available)
      /\ feedback \in Seq(Pid) /\ IsInjective(feedback)
  BY DEF IInv, TypeOK, ProcessesPartitioned, NoDuplicates, ScheduleNew
<1>2. /\ p \in Pid /\ p \in Available
      /\ available' \in Seq(Pid) /\ IsInjective(available')
      /\ Available' = Available \ {p}
  BY <1>1, TailRange DEF ScheduleNew, Available
<1>3. p \notin Feedback /\ p \notin Retrans
  BY <1>2 DEF IInv, ProcessesPartitioned
<1>4. /\ feedback' \in Seq(Pid) /\ IsInjective(feedback')
      /\ Feedback' = Feedback \cup {p}
  BY <1>1, <1>2, <1>3, AppendRange DEF ScheduleNew, Transmit, Feedback
<1>5. retrans' = retrans /\ Retrans' = Retrans /\ round' = round
  BY DEF ScheduleNew, Retrans
<1> QED
  BY <1>2, <1>3, <1>4, <1>5

LEMMA ScheduleNewIInv ==
  ASSUME IInv, NEW tb \in TbSize, ScheduleNew(tb)
  PROVE  IInv'
<1> DEFINE p == Head(available)
<1> USE UlHarqAssumption
<1>1. /\ p \in Pid /\ p \in Available /\ p \notin Feedback /\ p \notin Retrans
      /\ available' \in Seq(Pid) /\ IsInjective(available')
      /\ Available' = Available \ {p}
      /\ feedback' \in Seq(Pid) /\ IsInjective(feedback')
      /\ Feedback' = Feedback \cup {p}
      /\ retrans' = retrans /\ Retrans' = Retrans /\ round' = round
  BY ScheduleNewLists
<1>2. /\ ndi' = ndi /\ dtx' = dtx /\ failure' = failure /\ rx' = rx
      /\ disableHarq' = disableHarq
      /\ waiting' = [waiting EXCEPT ![p] = TRUE]
      /\ tbSize' = [tbSize EXCEPT ![p] = tb]
      /\ schedBytes' = schedBytes + tb
      /\ Grant(p, tb, ndi[p])
  BY DEF ScheduleNew, Transmit
<1> HIDE DEF p
<1>3. TypeOK'
  <2>1. ndi[p] \in {0, 1}
    BY <1>1 DEF IInv, TypeOK
  <2>2. air' \in Seq(Pusch)
    BY <1>1, <1>2, <2>1, GrantType
  <2> QED
    BY <1>1, <1>2, <2>2 DEF IInv, TypeOK
<1>4. ProcessesPartitioned'
  BY <1>1, <1>2 DEF IInv, ProcessesPartitioned, NoDuplicates
<1>5. WaitingMeansFeedback'
  BY <1>1, <1>2 DEF IInv, TypeOK, WaitingMeansFeedback
<1>6. RoundsMatchLists'
  BY <1>1, <1>2 DEF IInv, RoundsMatchLists
<1>7. CarriersSized'
  BY <1>1, <1>2 DEF IInv, TypeOK, CarriersSized, ProcessesPartitioned
<1> QED
  BY <1>3, <1>4, <1>5, <1>6, <1>7 DEF IInv

\* With HARQ disabled the process returns to the end of the available list.
LEMMA ScheduleNewNoHarqLists ==
  ASSUME IInv, NEW tb \in TbSize, ScheduleNewNoHarq(tb)
  PROVE  /\ Head(available) \in Available
         /\ available' \in Seq(Pid) /\ IsInjective(available')
         /\ Available' = Available
<1> DEFINE p == Head(available)
<1>1. available \in Seq(Pid) /\ available # <<>> /\ IsInjective(available)
  BY DEF IInv, TypeOK, ProcessesPartitioned, NoDuplicates, ScheduleNewNoHarq, GrantNoHarq
<1>2. /\ p \in Pid /\ p \in Available
      /\ Tail(available) \in Seq(Pid) /\ IsInjective(Tail(available))
      /\ Range(Tail(available)) = Available \ {p}
  BY <1>1, TailRange DEF Available
<1>3. /\ available' \in Seq(Pid) /\ IsInjective(available')
      /\ Available' = Available
  <2>1. available' = Append(Tail(available), p)
    BY DEF ScheduleNewNoHarq, GrantNoHarq
  <2> HIDE DEF p
  <2>2. p \notin Range(Tail(available))
    BY <1>2
  <2>3. /\ available' \in Seq(Pid) /\ IsInjective(available')
        /\ Range(available') = Range(Tail(available)) \cup {p}
    <3> DEFINE t == Tail(available)
    <3>1. t \in Seq(Pid) /\ IsInjective(t) /\ p \notin Range(t) /\ p \in Pid
      BY <1>2, <2>2
    <3>2. available' = Append(t, p)
      BY <2>1
    <3> HIDE DEF t
    <3>3. /\ available' \in Seq(Pid) /\ IsInjective(available')
          /\ Range(available') = Range(t) \cup {p}
      BY <3>1, <3>2, AppendRange
    <3> QED
      BY <3>3 DEF t
  <2>4. (Available \ {p}) \cup {p} = Available
    BY <1>2
  <2> QED
    BY <1>2, <2>3, <2>4 DEF Available
<1> QED
  BY <1>2, <1>3

LEMMA ScheduleNewNoHarqIInv ==
  ASSUME IInv, NEW tb \in TbSize, ScheduleNewNoHarq(tb)
  PROVE  IInv'
<1> DEFINE p == Head(available)
<1> USE UlHarqAssumption
<1>2. p \in Pid /\ p \in Available
  BY ScheduleNewNoHarqLists DEF IInv, ProcessesPartitioned
<1>3. /\ available' \in Seq(Pid) /\ IsInjective(available')
      /\ Available' = Available
  BY ScheduleNewNoHarqLists
<1>4. /\ feedback' = feedback /\ Feedback' = Feedback
      /\ retrans' = retrans /\ Retrans' = Retrans
      /\ waiting' = waiting /\ round' = round
      /\ dtx' = dtx /\ failure' = failure /\ rx' = rx
      /\ disableHarq' = disableHarq
      /\ ndi' = [ndi EXCEPT ![p] = 1 - @]
      /\ tbSize' = [tbSize EXCEPT ![p] = tb]
      /\ schedBytes' = schedBytes + tb
      /\ Grant(p, tb, ndi'[p])
  BY DEF ScheduleNewNoHarq, GrantNoHarq, Feedback, Retrans
<1> HIDE DEF p
<1>9. \A b \in {0, 1} : 1 - b \in {0, 1}
  OBVIOUS
<1>5. TypeOK'
  <2>1. air' \in Seq(Pusch)
    <3>1. ndi'[p] \in {0, 1}
      BY <1>2, <1>4, <1>9 DEF IInv, TypeOK
    <3> QED
      BY <1>2, <1>4, <3>1, GrantType
  <2>2. ndi' \in [Pid -> {0, 1}]
    BY <1>2, <1>4, <1>9 DEF IInv, TypeOK
  <2>3. tbSize' \in [Pid -> TbSize \cup {0}] /\ schedBytes' \in Nat
    BY <1>2, <1>4 DEF IInv, TypeOK
  <2> QED
    BY <1>3, <1>4, <2>1, <2>2, <2>3 DEF IInv, TypeOK
<1>6. ProcessesPartitioned'
  BY <1>3, <1>4 DEF IInv, ProcessesPartitioned, NoDuplicates
<1>7. WaitingMeansFeedback' /\ RoundsMatchLists'
  BY <1>3, <1>4 DEF IInv, WaitingMeansFeedback, RoundsMatchLists
<1>8. CarriersSized'
  BY <1>2, <1>4 DEF IInv, TypeOK, CarriersSized, ProcessesPartitioned
<1> QED
  BY <1>5, <1>6, <1>7, <1>8 DEF IInv

\* A retransmission moves the oldest pending process to the feedback list.
LEMMA ScheduleRetxLists ==
  ASSUME IInv, ScheduleRetx
  PROVE  LET p == Head(retrans) IN
           /\ p \in Pid /\ p \in Retrans /\ p \notin Feedback /\ p \notin Available
           /\ retrans' \in Seq(Pid) /\ IsInjective(retrans')
           /\ Retrans' = Retrans \ {p}
           /\ feedback' \in Seq(Pid) /\ IsInjective(feedback')
           /\ Feedback' = Feedback \cup {p}
           /\ available' = available /\ Available' = Available /\ round' = round
<1> DEFINE p == Head(retrans)
<1>1. /\ retrans \in Seq(Pid) /\ retrans # <<>> /\ IsInjective(retrans)
      /\ feedback \in Seq(Pid) /\ IsInjective(feedback)
  BY DEF IInv, TypeOK, ProcessesPartitioned, NoDuplicates, ScheduleRetx
<1>2. /\ p \in Pid /\ p \in Retrans
      /\ retrans' \in Seq(Pid) /\ IsInjective(retrans')
      /\ Retrans' = Retrans \ {p}
  BY <1>1, TailRange DEF ScheduleRetx, Retrans
<1>3. p \notin Feedback /\ p \notin Available
  BY <1>2 DEF IInv, ProcessesPartitioned
<1>4. /\ feedback' \in Seq(Pid) /\ IsInjective(feedback')
      /\ Feedback' = Feedback \cup {p}
  BY <1>1, <1>2, <1>3, AppendRange DEF ScheduleRetx, Transmit, Feedback
<1>5. available' = available /\ Available' = Available /\ round' = round
  BY DEF ScheduleRetx, Available
<1> QED
  BY <1>2, <1>3, <1>4, <1>5

LEMMA ScheduleRetxIInv ==
  ASSUME IInv, ScheduleRetx
  PROVE  IInv'
<1> DEFINE p == Head(retrans)
<1> USE UlHarqAssumption
<1>1. /\ p \in Pid /\ p \in Retrans /\ p \notin Feedback /\ p \notin Available
      /\ retrans' \in Seq(Pid) /\ IsInjective(retrans')
      /\ Retrans' = Retrans \ {p}
      /\ feedback' \in Seq(Pid) /\ IsInjective(feedback')
      /\ Feedback' = Feedback \cup {p}
      /\ available' = available /\ Available' = Available /\ round' = round
  BY ScheduleRetxLists
<1>2. /\ ndi' = ndi /\ tbSize' = tbSize /\ schedBytes' = schedBytes
      /\ dtx' = dtx /\ failure' = failure /\ rx' = rx
      /\ disableHarq' = disableHarq
      /\ waiting' = [waiting EXCEPT ![p] = TRUE]
      /\ Grant(p, tbSize[p], ndi[p])
  BY DEF ScheduleRetx, Transmit
<1> HIDE DEF p
<1>3. tbSize[p] \in TbSize
  BY <1>1 DEF IInv, CarriersSized
<1>4. TypeOK'
  <2>1. ndi[p] \in {0, 1}
    BY <1>1 DEF IInv, TypeOK
  <2>2. air' \in Seq(Pusch)
    BY <1>1, <1>2, <1>3, <2>1, GrantType
  <2> QED
    BY <1>1, <1>2, <2>2 DEF IInv, TypeOK
<1>5. ProcessesPartitioned'
  BY <1>1, <1>2 DEF IInv, ProcessesPartitioned, NoDuplicates
<1>6. WaitingMeansFeedback'
  BY <1>1, <1>2 DEF IInv, TypeOK, WaitingMeansFeedback
<1>7. RoundsMatchLists' /\ CarriersSized'
  BY <1>1, <1>2, <1>3 DEF IInv, RoundsMatchLists, CarriersSized
<1> QED
  BY <1>4, <1>5, <1>6, <1>7 DEF IInv

\* What handling an indication does to the oldest process that expects
\* feedback, whoever's indication it is: the id leaves the feedback list ...
TakeFirst ==
  /\ feedback # <<>>
  /\ feedback' = Tail(feedback)
  /\ waiting' = [waiting EXCEPT ![Head(feedback)] = FALSE]
  /\ rx' \in {rx, NoRx}
  /\ UNCHANGED <<disableHarq, tbSize, dtx, failure, air>>

\* ... to be done with its transport block ...
Finished ==
  /\ TakeFirst
  /\ FinishUlHarq(Head(feedback))
  /\ schedBytes' \in Nat
  /\ UNCHANGED retrans

\* ... or to be granted again.
Nacked ==
  /\ TakeFirst
  /\ LET p == Head(feedback) IN
       /\ round[p] < RoundMax - 1
       /\ round' = [round EXCEPT ![p] = @ + 1]
       /\ retrans' = Append(retrans, p)
  /\ UNCHANGED <<available, ndi, schedBytes>>

\* Both ways of handling an indication finish or nack the oldest process.
LEMMA FeedbackStep ==
  ASSUME IInv, FlushOne \/ HandleCrc
  PROVE  Finished \/ Nacked
<1>1. schedBytes \in Nat /\ \A p \in Pid : tbSize[p] \in Nat
  <2>1. TbSize \cup {0} \subseteq Nat
    BY UlHarqAssumption
  <2>2. schedBytes \in Nat /\ tbSize \in [Pid -> TbSize \cup {0}]
    BY DEF IInv, TypeOK
  <2> QED
    BY <2>1, <2>2
<1>2. feedback # <<>> /\ feedback \in Seq(Pid)
  BY DEF FlushOne, CrcFailed, Retransmit, HandleCrc, IInv, TypeOK
<1>3. Head(feedback) \in Pid
  BY <1>2
<1>4. \A p \in Pid : Minus(schedBytes, tbSize[p]) \in Nat
  BY <1>1 DEF Minus
<1>5. CASE FlushOne
  BY <1>1, <1>3, <1>4, <1>5 DEF FlushOne, CrcFailed, Retransmit, Finished, Nacked, TakeFirst, AbortUlHarq
<1>6. CASE HandleCrc
  <2>1. TakeFirst
    BY <1>6 DEF HandleCrc, CrcFailed, Retransmit, TakeFirst
  <2>2. CASE rx.ok
    BY <1>1, <1>6, <2>1, <2>2 DEF HandleCrc, CrcFailed, Retransmit, Finished
  <2>3. CASE ~rx.ok /\ round[Head(feedback)] >= RoundMax - 1
    <3> DEFINE p == Head(feedback)
    <3>1. round[p] \in Int /\ RoundMax \in Int
      BY <1>3, UlHarqAssumption DEF IInv, TypeOK
    <3>2. ~(round[p] < RoundMax - 1)
      BY <2>3, <3>1
    <3>3. AbortUlHarq(p) /\ UNCHANGED retrans
      BY <1>6, <2>3, <3>2 DEF HandleCrc, CrcFailed, Retransmit
    <3> QED
      BY <1>3, <1>4, <2>1, <3>3 DEF Finished, AbortUlHarq
  <2>4. CASE ~rx.ok /\ ~(round[Head(feedback)] >= RoundMax - 1)
    <3> DEFINE p == Head(feedback)
    <3>1. /\ round[p] < RoundMax - 1
          /\ round' = [round EXCEPT ![p] = @ + 1]
          /\ retrans' = Append(retrans, p)
          /\ UNCHANGED <<available, ndi, schedBytes>>
      BY <1>6, <2>4 DEF HandleCrc, CrcFailed, Retransmit
    <3> QED
      BY <2>1, <3>1 DEF Nacked
  <2> QED
    BY <2>2, <2>3, <2>4
<1> QED
  BY <1>5, <1>6

\* Taking the first process off the feedback list.
LEMMA TakeFirstLists ==
  ASSUME IInv, TakeFirst
  PROVE  LET p == Head(feedback) IN
           /\ p \in Pid /\ p \in Feedback /\ p \notin Available /\ p \notin Retrans
           /\ feedback' \in Seq(Pid) /\ IsInjective(feedback')
           /\ Feedback' = Feedback \ {p}
           /\ waiting' \in [Pid -> BOOLEAN]
           /\ \A q \in Pid : waiting'[q] <=> q \in Feedback'
           /\ rx' \in [tx : Pusch, ok : BOOLEAN] \cup {NoRx}
<1> DEFINE p == Head(feedback)
<1>1. feedback \in Seq(Pid) /\ feedback # <<>> /\ IsInjective(feedback)
  BY DEF IInv, TypeOK, ProcessesPartitioned, NoDuplicates, TakeFirst
<1>2. /\ p \in Pid /\ p \in Feedback
      /\ feedback' \in Seq(Pid) /\ IsInjective(feedback')
      /\ Feedback' = Feedback \ {p}
  BY <1>1, TailRange DEF TakeFirst, Feedback
<1>3. p \notin Available /\ p \notin Retrans
  BY <1>2 DEF IInv, ProcessesPartitioned
<1>4. waiting' = [waiting EXCEPT ![p] = FALSE] /\ rx' \in {rx, NoRx}
  BY DEF TakeFirst
<1> HIDE DEF p
<1>5. waiting' \in [Pid -> BOOLEAN] /\ \A q \in Pid : waiting'[q] <=> q \in Feedback'
  BY <1>2, <1>4 DEF IInv, TypeOK, WaitingMeansFeedback
<1>6. rx' \in [tx : Pusch, ok : BOOLEAN] \cup {NoRx}
  BY <1>4 DEF IInv, TypeOK
<1> QED
  BY <1>2, <1>3, <1>5, <1>6 DEF p

\* A finished process joins the available list at round 0.
LEMMA FinishedLists ==
  ASSUME IInv, Finished
  PROVE  /\ available' \in Seq(Pid) /\ IsInjective(available')
         /\ Available' = Available \cup {Head(feedback)}
<1> DEFINE p == Head(feedback)
<1>1. p \in Pid /\ p \notin Available
  BY TakeFirstLists DEF Finished
<1>2. available' = Append(available, p)
  BY DEF Finished, FinishUlHarq
<1> HIDE DEF p
<1>3. /\ available' \in Seq(Pid) /\ IsInjective(available')
      /\ Available' = Available \cup {p}
  BY <1>1, <1>2, AppendRange DEF IInv, TypeOK, ProcessesPartitioned, NoDuplicates, Available
<1> QED
  BY <1>3 DEF p

LEMMA FinishedIInv ==
  ASSUME IInv, Finished
  PROVE  IInv'
<1> DEFINE p == Head(feedback)
<1> USE UlHarqAssumption
<1>1. /\ p \in Pid /\ p \in Feedback /\ p \notin Available /\ p \notin Retrans
      /\ feedback' \in Seq(Pid) /\ IsInjective(feedback')
      /\ Feedback' = Feedback \ {p}
      /\ waiting' \in [Pid -> BOOLEAN]
      /\ \A q \in Pid : waiting'[q] <=> q \in Feedback'
      /\ rx' \in [tx : Pusch, ok : BOOLEAN] \cup {NoRx}
  BY TakeFirstLists DEF Finished
<1>2. /\ retrans' = retrans /\ Retrans' = Retrans
      /\ tbSize' = tbSize /\ dtx' = dtx /\ failure' = failure /\ air' = air
      /\ disableHarq' = disableHarq
      /\ available' = Append(available, p)
      /\ ndi' = [ndi EXCEPT ![p] = 1 - @]
      /\ round' = [round EXCEPT ![p] = 0]
      /\ schedBytes' \in Nat
  BY DEF Finished, TakeFirst, FinishUlHarq, Retrans
<1>3. /\ available' \in Seq(Pid) /\ IsInjective(available')
      /\ Available' = Available \cup {p}
  BY FinishedLists
<1> HIDE DEF p
<1>4. TypeOK'
  <2>1. \A b \in {0, 1} : 1 - b \in {0, 1}
    OBVIOUS
  <2>2. ndi' \in [Pid -> {0, 1}]
    BY <1>1, <1>2, <2>1 DEF IInv, TypeOK
  <2>3. round' \in [Pid -> 0 .. RoundMax - 1]
    BY <1>1, <1>2 DEF IInv, TypeOK
  <2> QED
    BY <1>1, <1>2, <1>3, <2>2, <2>3 DEF IInv, TypeOK
<1>5. ProcessesPartitioned'
  BY <1>1, <1>2, <1>3 DEF IInv, ProcessesPartitioned, NoDuplicates
<1>6. WaitingMeansFeedback'
  BY <1>1 DEF WaitingMeansFeedback
<1>7. RoundsMatchLists'
  BY <1>1, <1>2, <1>3 DEF IInv, TypeOK, RoundsMatchLists, ProcessesPartitioned
<1>8. CarriersSized'
  BY <1>1, <1>2 DEF IInv, CarriersSized
<1> QED
  BY <1>4, <1>5, <1>6, <1>7, <1>8 DEF IInv

\* A nacked process joins the retransmission list one round later.
LEMMA NackedLists ==
  ASSUME IInv, Nacked
  PROVE  /\ retrans' \in Seq(Pid) /\ IsInjective(retrans')
         /\ Retrans' = Retrans \cup {Head(feedback)}
<1> DEFINE p == Head(feedback)
<1>1. p \in Pid /\ p \notin Retrans
  BY TakeFirstLists DEF Nacked
<1>2. retrans' = Append(retrans, p)
  BY DEF Nacked
<1> HIDE DEF p
<1>3. /\ retrans' \in Seq(Pid) /\ IsInjective(retrans')
      /\ Retrans' = Retrans \cup {p}
  BY <1>1, <1>2, AppendRange DEF IInv, TypeOK, ProcessesPartitioned, NoDuplicates, Retrans
<1> QED
  BY <1>3 DEF p

LEMMA NackedIInv ==
  ASSUME IInv, Nacked
  PROVE  IInv'
<1> DEFINE p == Head(feedback)
<1> USE UlHarqAssumption
<1>1. /\ p \in Pid /\ p \in Feedback /\ p \notin Available /\ p \notin Retrans
      /\ feedback' \in Seq(Pid) /\ IsInjective(feedback')
      /\ Feedback' = Feedback \ {p}
      /\ waiting' \in [Pid -> BOOLEAN]
      /\ \A q \in Pid : waiting'[q] <=> q \in Feedback'
      /\ rx' \in [tx : Pusch, ok : BOOLEAN] \cup {NoRx}
  BY TakeFirstLists DEF Nacked
<1>2. /\ available' = available /\ Available' = Available
      /\ tbSize' = tbSize /\ dtx' = dtx /\ failure' = failure /\ air' = air
      /\ disableHarq' = disableHarq
      /\ ndi' = ndi /\ schedBytes' = schedBytes
      /\ retrans' = Append(retrans, p)
      /\ round[p] < RoundMax - 1
      /\ round' = [round EXCEPT ![p] = @ + 1]
  BY DEF Nacked, TakeFirst, Available
<1>3. /\ retrans' \in Seq(Pid) /\ IsInjective(retrans')
      /\ Retrans' = Retrans \cup {p}
  BY NackedLists
<1> HIDE DEF p
<1>4. /\ round' \in [Pid -> 0 .. RoundMax - 1] /\ round'[p] > 0
      /\ \A q \in Pid \ {p} : round'[q] = round[q]
  BY <1>1, <1>2 DEF IInv, TypeOK
<1>5. TypeOK'
  BY <1>1, <1>2, <1>3, <1>4 DEF IInv, TypeOK
<1>6. ProcessesPartitioned'
  BY <1>1, <1>2, <1>3 DEF IInv, ProcessesPartitioned, NoDuplicates
<1>7. WaitingMeansFeedback'
  BY <1>1 DEF WaitingMeansFeedback
<1>8. RoundsMatchLists'
  BY <1>1, <1>2, <1>3, <1>4 DEF IInv, RoundsMatchLists, ProcessesPartitioned
<1>9. CarriersSized'
  BY <1>1, <1>2, <1>3 DEF IInv, CarriersSized
<1> QED
  BY <1>5, <1>6, <1>7, <1>8, <1>9 DEF IInv

\* Receiving a transport block consumes one report and moves no process.
LEMMA RxSduIInv ==
  ASSUME IInv, NEW ok \in BOOLEAN, NEW loud \in BOOLEAN, RxSdu(ok, loud)
  PROVE  IInv'
<1> DEFINE tx == Head(air)
<1> USE UlHarqAssumption
<1>1. /\ air \in Seq(Pusch) /\ air # <<>>
      /\ dtx \in 0 .. DtxThreshold /\ DtxThreshold \in Nat
      /\ schedBytes \in Nat
  BY DEF IInv, TypeOK, RxSdu
<1>2. tx \in Pusch /\ air' \in Seq(Pusch)
  BY <1>1 DEF RxSdu
<1>3. tx.tb \in Nat
  BY <1>2 DEF Pusch
<1>4. /\ lists' = lists /\ procs' = procs /\ disableHarq' = disableHarq
      /\ rx' = (IF disableHarq THEN NoRx ELSE [tx |-> tx, ok |-> ok])
      /\ schedBytes' = IF ok THEN Minus(schedBytes, tx.tb) ELSE schedBytes
      /\ dtx' = CASE ok -> 0
                  [] ~ok /\ loud /\ dtx < DtxThreshold -> dtx + 1
                  [] OTHER -> dtx
      /\ failure' = (failure \/ (~ok /\ dtx' >= DtxThreshold))
  BY DEF RxSdu
<1> HIDE DEF tx
<1>5. TypeOK'
  <2>1. rx' \in [tx : Pusch, ok : BOOLEAN] \cup {NoRx}
    BY <1>2, <1>4
  <2>2. schedBytes' \in Nat
    BY <1>1, <1>3, <1>4 DEF Minus
  <2>3. dtx' \in 0 .. DtxThreshold
    <3>1. CASE ok
      BY <1>1, <1>4, <3>1
    <3>2. CASE ~ok /\ loud /\ dtx < DtxThreshold
      <4>1. dtx' = dtx + 1
        BY <1>4, <3>2
      <4> QED
        BY <1>1, <3>2, <4>1
    <3>3. CASE ~ok /\ ~(loud /\ dtx < DtxThreshold)
      BY <1>1, <1>4, <3>3
    <3> QED
      BY <3>1, <3>2, <3>3
  <2>4. failure' \in BOOLEAN
    BY <1>4
  <2> QED
    BY <1>2, <1>4, <2>1, <2>2, <2>3, <2>4 DEF IInv, TypeOK, lists, procs
<1> QED
  BY <1>4, <1>5 DEF IInv, lists, procs, ProcessesPartitioned, NoDuplicates,
     WaitingMeansFeedback, RoundsMatchLists, CarriersSized, Available, Feedback, Retrans

\* The return of the UE puts every process back on the available list.
LEMMA ReaccessIInv ==
  ASSUME IInv, Reaccess
  PROVE  IInv'
<1> USE UlHarqAssumption
<1> DEFINE pending == available \o feedback
<1>1. /\ available \in Seq(Pid) /\ IsInjective(available)
      /\ feedback \in Seq(Pid) /\ IsInjective(feedback)
      /\ retrans \in Seq(Pid) /\ IsInjective(retrans)
  BY DEF IInv, TypeOK, ProcessesPartitioned, NoDuplicates
<1>2. /\ Range(available) \cap Range(feedback) = {}
      /\ Range(available) \cap Range(retrans) = {}
      /\ Range(feedback) \cap Range(retrans) = {}
      /\ Range(available) \cup Range(feedback) \cup Range(retrans) = Pid
  BY DEF IInv, ProcessesPartitioned, Available, Feedback, Retrans
<1>3. /\ pending \in Seq(Pid) /\ IsInjective(pending)
      /\ Range(pending) = Range(available) \cup Range(feedback)
  BY <1>1, <1>2, ConcatRange
<1>4. /\ available' = pending \o retrans
      /\ feedback' = <<>> /\ retrans' = <<>>
      /\ waiting' = [p \in Pid |-> FALSE]
      /\ round' = [p \in Pid |-> 0]
      /\ dtx' = 0 /\ failure' = FALSE
      /\ UNCHANGED <<disableHarq, ndi, tbSize, schedBytes, air, rx>>
  BY DEF Reaccess
<1> HIDE DEF pending
<1>5. /\ available' \in Seq(Pid) /\ IsInjective(available')
      /\ Range(available') = Pid
  <2>1. Range(pending) \cap Range(retrans) = {}
    BY <1>2, <1>3
  <2>2. /\ pending \o retrans \in Seq(Pid) /\ IsInjective(pending \o retrans)
        /\ Range(pending \o retrans) = Range(pending) \cup Range(retrans)
    BY <1>1, <1>3, <2>1, ConcatRange
  <2> QED
    BY <1>2, <1>3, <1>4, <2>2
<1>6. IsInjective(<<>>) /\ Range(<<>>) = {} /\ <<>> \in Seq(Pid)
  BY DEF IsInjective, Range
<1>7. TypeOK'
  <2>1. dtx' \in 0 .. DtxThreshold /\ round' \in [Pid -> 0 .. RoundMax - 1]
    BY <1>4
  <2> QED
    BY <1>4, <1>5, <1>6, <2>1 DEF IInv, TypeOK
<1>8. ProcessesPartitioned'
  BY <1>4, <1>5, <1>6 DEF ProcessesPartitioned, NoDuplicates, Available, Feedback, Retrans
<1>9. WaitingMeansFeedback' /\ RoundsMatchLists' /\ CarriersSized'
  BY <1>4, <1>5, <1>6 DEF WaitingMeansFeedback, RoundsMatchLists, CarriersSized,
     Available, Feedback, Retrans
<1> QED
  BY <1>7, <1>8, <1>9 DEF IInv

\* Every step of the scheduler, the receive path and the environment keeps
\* the invariant.
LEMMA NextIInv == IInv /\ [Next]_vars => IInv'
<1> SUFFICES ASSUME IInv, [Next]_vars PROVE IInv'
  OBVIOUS
<1>1. ASSUME NEW tb \in TbSize, ScheduleNew(tb) PROVE IInv'
  BY <1>1, ScheduleNewIInv
<1>2. ASSUME NEW tb \in TbSize, ScheduleNewNoHarq(tb) PROVE IInv'
  BY <1>2, ScheduleNewNoHarqIInv
<1>3. CASE ScheduleRetx
  BY <1>3, ScheduleRetxIInv
<1>4. ASSUME NEW ok \in BOOLEAN, NEW loud \in BOOLEAN, RxSdu(ok, loud) PROVE IInv'
  BY <1>4, RxSduIInv
<1>5. CASE FlushOne \/ HandleCrc
  BY <1>5, FeedbackStep, FinishedIInv, NackedIInv
<1>6. CASE DropIndication
  BY <1>6 DEF DropIndication, IInv, TypeOK, lists, procs, ProcessesPartitioned, NoDuplicates,
     WaitingMeansFeedback, RoundsMatchLists, CarriersSized, Available, Feedback, Retrans
<1>7. CASE LoseCrc
  <2>1. air' \in Seq(Pusch)
    BY <1>7 DEF LoseCrc, IInv, TypeOK
  <2> QED
    BY <1>7, <2>1 DEF LoseCrc, IInv, TypeOK, lists, procs, ProcessesPartitioned, NoDuplicates,
       WaitingMeansFeedback, RoundsMatchLists, CarriersSized, Available, Feedback, Retrans
<1>8. CASE Reaccess
  BY <1>8, ReaccessIInv
<1>9. CASE UNCHANGED vars
  BY <1>9 DEF vars, IInv, TypeOK, lists, procs, ProcessesPartitioned, NoDuplicates,
     WaitingMeansFeedback, RoundsMatchLists, CarriersSized, Available, Feedback, Retrans
<1> QED
  BY <1>1, <1>2, <1>3, <1>4, <1>5, <1>6, <1>7, <1>8, <1>9 DEF Next

\* Every state of the HARQ entity is well typed.
THEOREM UlHarqTypeOK == Spec => []TypeOK
<1>1. IInv => TypeOK
  BY DEF IInv
<1> QED
  BY <1>1, InitIInv, NextIInv, PTL DEF Spec

\* No process of the UE is ever lost or on two lists, whatever CRCs are lost
\* and whenever the UE comes back.
THEOREM UlHarqPartitioned == Spec => []ProcessesPartitioned
<1>1. IInv => ProcessesPartitioned
  BY DEF IInv
<1> QED
  BY <1>1, InitIInv, NextIInv, PTL DEF Spec

\* The assertions of the code on is_waiting never fail.
THEOREM UlHarqWaiting == Spec => []WaitingMeansFeedback
<1>1. IInv => WaitingMeansFeedback
  BY DEF IInv
<1> QED
  BY <1>1, InitIInv, NextIInv, PTL DEF Spec

\* The round tells the list a process is on.
THEOREM UlHarqRounds == Spec => []RoundsMatchLists
<1>1. IInv => RoundsMatchLists
  BY DEF IInv
<1> QED
  BY <1>1, InitIInv, NextIInv, PTL DEF Spec

-----------------------------------------------------------------------------
(* The loop of handle_nr_ul_harq                                           *)

\* a step taken while a report is handled ends the handling or takes a process
\* off the feedback list; nothing else happens meanwhile
Turn ==
  rx # NoRx =>
    \/ rx' = NoRx
    \/ rx' = rx /\ air' = air /\ feedback # <<>> /\ feedback' = Tail(feedback)
       /\ Len(feedback') < Len(feedback)

\* Each step under the lock is a turn of the loop, or its end.
LEMMA StepTurns ==
  ASSUME IInv, Next
  PROVE  Turn
<1> SUFFICES ASSUME rx # NoRx
             PROVE  \/ rx' = NoRx
                    \/ rx' = rx /\ air' = air /\ feedback # <<>> /\ feedback' = Tail(feedback)
                       /\ Len(feedback') < Len(feedback)
  BY DEF Turn
<1>1. CASE FlushOne
  <2>1. /\ rx' = rx /\ air' = air /\ feedback # <<>> /\ feedback' = Tail(feedback)
        /\ feedback \in Seq(Pid)
    BY <1>1 DEF FlushOne, IInv, TypeOK
  <2>2. Len(Tail(feedback)) = Len(feedback) - 1 /\ Len(feedback) \in Nat
    BY <2>1
  <2> QED
    BY <2>1, <2>2
<1>2. CASE DropIndication \/ HandleCrc
  BY <1>2 DEF DropIndication, HandleCrc
<1> QED
  BY <1>1, <1>2
     DEF Next, ScheduleNew, ScheduleNewNoHarq, GrantNoHarq, ScheduleRetx, Granting, RxSdu,
         LoseCrc, Reaccess

\* The loop of handle_nr_ul_harq ends after at most as many turns as processes
\* wait for feedback, whatever reports were lost and whenever the lists were
\* reset: every step of the loop is a turn, and a turn lowers the length of the
\* feedback list, which is never above the number of processes.
THEOREM UlHarqHandlingEnds ==
  Spec => [][Turn]_vars /\ [](Len(feedback) <= Cardinality(Pid))
<1>1. IInv /\ [Next]_vars => [Turn]_vars
  BY StepTurns
<1>2. IInv => Len(feedback) <= Cardinality(Pid)
  <2> SUFFICES ASSUME IInv PROVE Len(feedback) <= Cardinality(Pid)
    OBVIOUS
  <2>1. feedback \in Seq(Pid) /\ IsInjective(feedback)
    BY DEF IInv, TypeOK, ProcessesPartitioned, NoDuplicates
  <2>2. feedback \in Injection(1 .. Len(feedback), Pid) /\ Len(feedback) \in Nat
    BY <2>1 DEF Injection, IsInjective
  <2>3. /\ IsFiniteSet(1 .. Len(feedback))
        /\ Cardinality(1 .. Len(feedback)) = Len(feedback)
    <3>1. 1 \in Int /\ Len(feedback) \in Int
      BY <2>2
    <3> QED
      BY <2>2, <3>1, FS_Interval
  <2>4. Cardinality(1 .. Len(feedback)) <= Cardinality(Pid)
    BY <2>2, <2>3, UlHarqAssumption, FS_Injection DEF UlHarqAssumption
  <2> QED
    BY <2>3, <2>4
<1> QED
  BY <1>1, <1>2, InitIInv, NextIInv, PTL DEF Spec

-----------------------------------------------------------------------------
(* Refinement of HarqProcess                                               *)

\* the phases the refinement mapping gives
Phases == [p \in Pid |-> PhaseOf(p)]

\* On partitioned lists the phase of a process is the list it is on.
LEMMA PhaseIsList ==
  ASSUME ProcessesPartitioned, NEW p \in Pid
  PROVE  /\ Phases[p] = PhaseOf(p)
         /\ p \in Available => PhaseOf(p) = "idle"
         /\ p \in Feedback => PhaseOf(p) = "sent"
         /\ p \in Retrans => PhaseOf(p) = "nacked"
  BY DEF ProcessesPartitioned, Phases, PhaseOf

\* A step that moves one process changes the phase of no other.
LEMMA OneProcessMoves ==
  ASSUME NEW p \in Pid,
         \A q \in Pid \ {p} : /\ q \in Available' <=> q \in Available
                              /\ q \in Feedback' <=> q \in Feedback
  PROVE  Phases' = [Phases EXCEPT ![p] = PhaseOf(p)']
  BY DEF Phases, PhaseOf

\* A step that moves no process changes no phase.
LEMMA NoProcessMoves ==
  ASSUME Available' = Available, Feedback' = Feedback
  PROVE  Phases' = Phases
  BY DEF Phases, PhaseOf

\* Finishing or nacking the oldest process is the abstract step.
LEMMA FeedbackRefines ==
  ASSUME IInv, IInv', Finished \/ Nacked
  PROVE  Abstract!Next
<1>0. PICK p \in Pid : p = Head(feedback)
  BY TakeFirstLists DEF Finished, Nacked
<1>1. p \in Feedback /\ Feedback' = Feedback \ {p}
  BY <1>0, TakeFirstLists DEF Finished, Nacked
<1>2. Phases[p] = "sent"
  BY <1>1, PhaseIsList DEF IInv
<1>3. round \in [Pid -> 0 .. RoundMax - 1] /\ RoundMax \in Nat
  BY UlHarqAssumption DEF IInv, TypeOK
<1>4. CASE Finished
  <2>1. Available' = Available \cup {p} /\ round' = [round EXCEPT ![p] = 0]
    BY <1>0, <1>4, FinishedLists DEF Finished, FinishUlHarq
  <2>2. Phases' = [Phases EXCEPT ![p] = "idle"]
    <3>1. p \in Available' /\ ProcessesPartitioned'
      BY <2>1 DEF IInv
    <3>2. PhaseOf(p)' = "idle"
      BY <3>1 DEF PhaseOf
    <3> QED
      BY <1>1, <2>1, <3>2, OneProcessMoves
  <2>3. Abstract!Finish(p)
    BY <1>2, <2>1, <2>2 DEF Abstract!Finish, Abstract!Become, Phases
  <2> QED
    BY <1>1, <2>3 DEF Abstract!Next
<1>5. CASE Nacked
  <2>1. /\ Retrans' = Retrans \cup {p} /\ Available' = Available
        /\ round[p] < RoundMax - 1 /\ round' = [round EXCEPT ![p] = @ + 1]
    BY <1>0, <1>5, NackedLists DEF Nacked, Available
  <2>2. Phases' = [Phases EXCEPT ![p] = "nacked"]
    <3>1. p \notin Available' /\ p \notin Feedback'
      BY <1>1, <2>1 DEF IInv, ProcessesPartitioned
    <3>2. PhaseOf(p)' = "nacked"
      BY <3>1 DEF PhaseOf
    <3> QED
      BY <1>1, <2>1, <3>2, OneProcessMoves
  <2>3. round[p] + 1 < RoundMax
    BY <1>1, <1>3, <2>1
  <2>4. Abstract!Nack(p)
    BY <1>2, <2>1, <2>2, <2>3 DEF Abstract!Nack, Abstract!Become, Phases
  <2> QED
    BY <1>1, <2>4 DEF Abstract!Next
<1> QED
  BY <1>4, <1>5

\* Every step is a step of the abstract processes or leaves them alone.
LEMMA StepRefines ==
  ASSUME IInv, IInv', [Next]_vars
  PROVE  [Abstract!Next]_(Abstract!vars)
<1>1. ASSUME NEW tb \in TbSize, ScheduleNew(tb) PROVE Abstract!Next
  <2>0. PICK p \in Pid : p = Head(available)
    BY <1>1, ScheduleNewLists
  <2>1. /\ p \in Available
        /\ Available' = Available \ {p} /\ Feedback' = Feedback \cup {p}
        /\ round' = round
    BY <1>1, <2>0, ScheduleNewLists
  <2>2. Phases[p] = "idle" /\ round[p] = 0
    BY <2>1, PhaseIsList DEF IInv, RoundsMatchLists
  <2>3. PhaseOf(p)' = "sent"
    BY <2>1 DEF PhaseOf
  <2>4. round' = [round EXCEPT ![p] = 0]
    BY <2>1, <2>2 DEF IInv, TypeOK
  <2>5. Phases' = [Phases EXCEPT ![p] = "sent"]
    BY <2>1, <2>3, OneProcessMoves
  <2>6. Abstract!Send(p)
    BY <2>2, <2>4, <2>5 DEF Abstract!Send, Abstract!Become, Phases
  <2> QED
    BY <2>1, <2>6 DEF Abstract!Next
<1>2. CASE ScheduleRetx
  <2>0. PICK p \in Pid : p = Head(retrans)
    BY <1>2, ScheduleRetxLists
  <2>1. /\ p \in Retrans /\ p \notin Available
        /\ Available' = Available /\ Feedback' = Feedback \cup {p}
        /\ round' = round
    BY <1>2, <2>0, ScheduleRetxLists
  <2>2. Phases[p] = "nacked"
    BY <2>1, PhaseIsList DEF IInv
  <2>3. PhaseOf(p)' = "sent"
    BY <2>1 DEF PhaseOf
  <2>4. round' = [round EXCEPT ![p] = round[p]]
    BY <2>1 DEF IInv, TypeOK
  <2>5. Phases' = [Phases EXCEPT ![p] = "sent"]
    BY <2>1, <2>3, OneProcessMoves
  <2>6. Abstract!Resend(p)
    BY <2>2, <2>4, <2>5 DEF Abstract!Resend, Abstract!Become, Phases
  <2> QED
    BY <2>1, <2>6 DEF Abstract!Next
<1>3. CASE FlushOne \/ HandleCrc
  BY <1>3, FeedbackStep, FeedbackRefines
<1>4. CASE Reaccess
  <2>1. Feedback' = {} /\ Retrans' = {}
    BY <1>4 DEF Reaccess, Feedback, Retrans, Range
  <2>2. \A p \in Pid : PhaseOf(p)' = "idle"
    BY <2>1 DEF IInv, ProcessesPartitioned, PhaseOf
  <2>3. Phases' = [p \in Pid |-> "idle"]
    BY <2>2 DEF Phases
  <2>4. Abstract!Reset
    BY <1>4, <2>3 DEF Reaccess, Abstract!Reset, Phases
  <2> QED
    BY <2>4 DEF Abstract!Next
<1>5. ASSUME NEW tb \in TbSize, ScheduleNewNoHarq(tb) PROVE UNCHANGED Abstract!vars
  <2>1. Available' = Available /\ Feedback' = Feedback /\ round' = round
    BY <1>5, ScheduleNewNoHarqLists DEF ScheduleNewNoHarq, GrantNoHarq, Feedback
  <2> QED
    BY <2>1, NoProcessMoves DEF Abstract!vars, Phases
<1>6. ASSUME UNCHANGED lists, UNCHANGED procs PROVE UNCHANGED Abstract!vars
  <2>1. Available' = Available /\ Feedback' = Feedback /\ round' = round
    BY <1>6 DEF lists, procs, Available, Feedback
  <2> QED
    BY <2>1, NoProcessMoves DEF Abstract!vars, Phases
<1>7. ASSUME NEW ok \in BOOLEAN, NEW loud \in BOOLEAN, RxSdu(ok, loud)
      PROVE  UNCHANGED Abstract!vars
  BY <1>6, <1>7 DEF RxSdu
<1>8. CASE DropIndication \/ LoseCrc \/ UNCHANGED vars
  BY <1>6, <1>8 DEF DropIndication, LoseCrc, vars
<1> QED
  BY <1>1, <1>2, <1>3, <1>4, <1>5, <1>7, <1>8 DEF Next

\* The process lists of the MAC implement the promise of HarqProcess: a block
\* is sent at most RoundMax times and concludes before the next one starts.
THEOREM UlHarqRefines == Spec => ImplementsHarqProcess
<1>1. Init => Abstract!Init
  <2> SUFFICES ASSUME Init PROVE Abstract!Init
    OBVIOUS
  <2>1. \A p \in Pid : p \in Available
    BY DEF Init, Available
  <2>2. Phases = [p \in Pid |-> "idle"]
    BY <2>1 DEF Phases, PhaseOf
  <2> QED
    BY <2>2 DEF Abstract!Init, Init, Phases
<1>2. IInv /\ IInv' /\ [Next]_vars => [Abstract!Next]_(Abstract!vars)
  BY StepRefines
<1> QED
  BY <1>1, <1>2, InitIInv, NextIInv, PTL DEF Spec, ImplementsHarqProcess, Abstract!Spec
-----------------------------------------------------------------------------
(* How many moves a transport block has left                               *)
(*                                                                         *)
(* A block alternates between the feedback list and the retransmission     *)
(* list, one round further each time it comes back to the latter: what is  *)
(* left of its life can be counted.                                        *)

\* the moves between lists that the block of p can still make
MovesLeft(p) ==
  IF PhaseOf(p) = "idle" THEN 0
  ELSE 2 * (RoundMax - round[p]) - (IF PhaseOf(p) = "sent" THEN 1 ELSE 0)

\* A block on a list has moves left, fewer than two for every round.
MovesBounded ==
  \A p \in Pid : /\ MovesLeft(p) \in 0 .. 2 * RoundMax - 1
                 /\ MovesLeft(p) = 0 <=> p \in Available

\* A step leaves a block where it is, in its round, or uses up one of its
\* moves; handling a report always uses up a move of the oldest block, granting
\* a retransmission one of the block that was nacked first.
MovesRunOut ==
  /\ \A p \in Pid \ Available :
       \/ MovesLeft(p)' < MovesLeft(p)
       \/ PhaseOf(p)' = PhaseOf(p) /\ round'[p] = round[p]
  /\ FlushOne \/ HandleCrc =>
       \E p \in Pid : p = Head(feedback) /\ MovesLeft(p)' < MovesLeft(p)
  /\ ScheduleRetx =>
       \E p \in Pid : p = Head(retrans) /\ MovesLeft(p)' < MovesLeft(p)

\* What a step of the abstract processes does to one of them.
LEMMA AbstractMoves ==
  ASSUME IInv, [Next]_vars, IInv', NEW p \in Pid
  PROVE  \/ PhaseOf(p)' = PhaseOf(p) /\ round'[p] = round[p]
         \/ PhaseOf(p) = "idle"
         \/ PhaseOf(p) = "nacked" /\ PhaseOf(p)' = "sent" /\ round'[p] = round[p]
         \/ PhaseOf(p) = "sent" /\ PhaseOf(p)' = "nacked" /\ round'[p] = round[p] + 1
         \/ PhaseOf(p)' = "idle"
<1>1. /\ Phases[p] = PhaseOf(p) /\ Phases'[p] = PhaseOf(p)'
      /\ DOMAIN Phases = Pid /\ Phases = [q \in Pid |-> PhaseOf(q)]
  BY DEF Phases
<1>2. DOMAIN round = Pid
  BY DEF IInv, TypeOK
<1>3. [Abstract!Next]_(Abstract!vars)
  BY StepRefines
<1>4. CASE UNCHANGED Abstract!vars
  <2>1. Phases' = Phases /\ round' = round
    BY <1>4 DEF Abstract!vars, Phases
  <2> QED
    BY <1>1, <2>1
<1>5. CASE Abstract!Reset
  <2>1. Phases' = [q \in Pid |-> "idle"]
    BY <1>5 DEF Abstract!Reset, Phases
  <2> QED
    BY <1>1, <2>1
<1>6. ASSUME NEW q \in Pid, NEW from, NEW to, NEW r, Phases[q] = from,
             Phases' = [Phases EXCEPT ![q] = to], round' = [round EXCEPT ![q] = r]
      PROVE  \/ p # q /\ PhaseOf(p)' = PhaseOf(p) /\ round'[p] = round[p]
             \/ p = q /\ PhaseOf(p) = from /\ PhaseOf(p)' = to /\ round'[p] = r
  BY <1>1, <1>2, <1>6
<1>7. ASSUME NEW q \in Pid,
             Abstract!Send(q) \/ Abstract!Resend(q) \/ Abstract!Nack(q) \/ Abstract!Finish(q)
      PROVE  \/ PhaseOf(p)' = PhaseOf(p) /\ round'[p] = round[p]
             \/ PhaseOf(p) = "idle"
             \/ PhaseOf(p) = "nacked" /\ PhaseOf(p)' = "sent" /\ round'[p] = round[p]
             \/ PhaseOf(p) = "sent" /\ PhaseOf(p)' = "nacked" /\ round'[p] = round[p] + 1
             \/ PhaseOf(p)' = "idle"
  <2>1. CASE Abstract!Send(q)
    <3>1. /\ Phases[q] = "idle" /\ Phases' = [Phases EXCEPT ![q] = "sent"]
          /\ round' = [round EXCEPT ![q] = 0]
      BY <2>1 DEF Abstract!Send, Abstract!Become, Phases
    <3> QED
      BY <3>1, <1>6
  <2>2. CASE Abstract!Resend(q)
    <3>1. /\ Phases[q] = "nacked" /\ Phases' = [Phases EXCEPT ![q] = "sent"]
          /\ round' = [round EXCEPT ![q] = round[q]]
      BY <2>2 DEF Abstract!Resend, Abstract!Become, Phases
    <3> QED
      BY <3>1, <1>6
  <2>3. CASE Abstract!Nack(q)
    <3>1. /\ Phases[q] = "sent" /\ Phases' = [Phases EXCEPT ![q] = "nacked"]
          /\ round' = [round EXCEPT ![q] = round[q] + 1]
      BY <2>3 DEF Abstract!Nack, Abstract!Become, Phases
    <3> QED
      BY <3>1, <1>6
  <2>4. CASE Abstract!Finish(q)
    <3>1. /\ Phases[q] = "sent" /\ Phases' = [Phases EXCEPT ![q] = "idle"]
          /\ round' = [round EXCEPT ![q] = 0]
      BY <2>4 DEF Abstract!Finish, Abstract!Become, Phases
    <3> QED
      BY <3>1, <1>6
  <2> QED
    BY <1>7, <2>1, <2>2, <2>3, <2>4
<1> QED
  BY <1>3, <1>4, <1>5, <1>7 DEF Abstract!Next

\* What the lists and the rounds say of a process, now and after the step.
LEMMA PhaseFacts ==
  ASSUME ProcessesPartitioned, RoundsMatchLists, TypeOK, NEW p \in Pid
  PROVE  /\ round[p] \in 0 .. RoundMax - 1 /\ RoundMax \in Nat \ {0}
         /\ PhaseOf(p) \in {"idle", "sent", "nacked"}
         /\ PhaseOf(p) = "idle" <=> p \in Available
         /\ PhaseOf(p) = "nacked" => round[p] > 0
<1>1. /\ PhaseOf(p) = "idle" <=> p \in Available
      /\ PhaseOf(p) = "nacked" <=> p \notin Available /\ p \notin Feedback
      /\ PhaseOf(p) \in {"idle", "sent", "nacked"}
  BY DEF PhaseOf
<1>2. PhaseOf(p) = "nacked" => round[p] > 0
  BY <1>1 DEF ProcessesPartitioned, RoundsMatchLists
<1>3. round[p] \in 0 .. RoundMax - 1 /\ RoundMax \in Nat \ {0}
  BY UlHarqAssumption DEF TypeOK, UlHarqAssumption
<1> QED
  BY <1>1, <1>2, <1>3

\* The moves left are fewer than two for every round, and none when idle.
LEMMA MovesAreBounded ==
  ASSUME IInv
  PROVE  MovesBounded
<1> SUFFICES ASSUME NEW p \in Pid
             PROVE  /\ MovesLeft(p) \in 0 .. 2 * RoundMax - 1
                    /\ MovesLeft(p) = 0 <=> p \in Available
  BY DEF MovesBounded
<1>1. /\ round[p] \in 0 .. RoundMax - 1 /\ RoundMax \in Nat \ {0}
      /\ PhaseOf(p) \in {"idle", "sent", "nacked"}
      /\ PhaseOf(p) = "idle" <=> p \in Available
      /\ PhaseOf(p) = "nacked" => round[p] > 0
  BY PhaseFacts DEF IInv
<1>2. CASE PhaseOf(p) = "idle"
  BY <1>1, <1>2 DEF MovesLeft
<1>3. CASE PhaseOf(p) = "sent"
  <2>1. MovesLeft(p) = 2 * (RoundMax - round[p]) - 1
    BY <1>3 DEF MovesLeft
  <2> QED
    BY <1>1, <1>3, <2>1
<1>4. CASE PhaseOf(p) = "nacked"
  <2>1. MovesLeft(p) = 2 * (RoundMax - round[p]) - 0
    BY <1>4 DEF MovesLeft
  <2> QED
    BY <1>1, <1>4, <2>1
<1> QED
  BY <1>1, <1>2, <1>3, <1>4

\* The first part of MovesRunOut, for one process.
LEMMA MoveCounts ==
  ASSUME IInv, [Next]_vars, IInv', NEW p \in Pid \ Available
  PROVE  \/ MovesLeft(p)' < MovesLeft(p)
         \/ PhaseOf(p)' = PhaseOf(p) /\ round'[p] = round[p]
<1>1. /\ round[p] \in 0 .. RoundMax - 1 /\ RoundMax \in Nat \ {0}
      /\ PhaseOf(p) \in {"sent", "nacked"}
  BY PhaseFacts DEF IInv
<1>2. /\ PhaseOf(p) = "sent" => MovesLeft(p) = 2 * (RoundMax - round[p]) - 1
      /\ PhaseOf(p) = "nacked" => MovesLeft(p) = 2 * (RoundMax - round[p]) - 0
  BY DEF MovesLeft
<1>3. CASE PhaseOf(p)' = "idle"
  <2>1. MovesLeft(p)' = 0
    BY <1>3 DEF MovesLeft
  <2>2. MovesLeft(p) > 0
    BY <1>1, <1>2
  <2> QED
    BY <2>1, <2>2
<1>4. CASE PhaseOf(p) = "nacked" /\ PhaseOf(p)' = "sent" /\ round'[p] = round[p]
  <2>1. MovesLeft(p)' = 2 * (RoundMax - round[p]) - 1
    BY <1>4 DEF MovesLeft
  <2> QED
    BY <1>1, <1>2, <1>4, <2>1
<1>5. CASE PhaseOf(p) = "sent" /\ PhaseOf(p)' = "nacked" /\ round'[p] = round[p] + 1
  <2>1. MovesLeft(p)' = 2 * (RoundMax - (round[p] + 1)) - 0
    BY <1>5 DEF MovesLeft
  <2> QED
    BY <1>1, <1>2, <1>5, <2>1
<1> QED
  BY <1>1, <1>3, <1>4, <1>5, AbstractMoves

\* A block makes at most 2 * RoundMax - 1 further moves between the lists,
\* whatever is lost, and each report handled and each retransmission granted is
\* one of them: the measure behind BlocksConclude.
THEOREM UlHarqBlocksEnd == Spec => []MovesBounded /\ [][MovesRunOut]_vars
<1>1. ASSUME IInv PROVE MovesBounded
  BY <1>1, MovesAreBounded
<1>2. ASSUME IInv, [Next]_vars, IInv' PROVE MovesRunOut
  <2>1. ASSUME FlushOne \/ HandleCrc
        PROVE  \E p \in Pid : p = Head(feedback) /\ MovesLeft(p)' < MovesLeft(p)
    <3>1. Finished \/ Nacked
      BY <1>2, <2>1, FeedbackStep
    <3>2. PICK p \in Pid : p = Head(feedback)
      BY <1>2, <3>1, TakeFirstLists DEF Finished, Nacked
    <3>3. p \in Feedback /\ p \notin Feedback'
      BY <1>2, <3>1, <3>2, TakeFirstLists DEF Finished, Nacked
    <3>4. p \notin Available /\ PhaseOf(p) = "sent" /\ PhaseOf(p)' # "sent"
      BY <1>2, <3>3 DEF IInv, ProcessesPartitioned, PhaseOf
    <3> QED
      BY <1>2, <3>2, <3>4, MoveCounts
  <2>2. ASSUME ScheduleRetx
        PROVE  \E p \in Pid : p = Head(retrans) /\ MovesLeft(p)' < MovesLeft(p)
    <3>1. PICK p \in Pid : p = Head(retrans)
      BY <1>2, <2>2, ScheduleRetxLists
    <3>2. p \in Retrans /\ p \notin Available /\ p \in Feedback' /\ Available' = Available
      BY <1>2, <2>2, <3>1, ScheduleRetxLists
    <3>3. PhaseOf(p) = "nacked" /\ PhaseOf(p)' = "sent"
      BY <1>2, <3>2, PhaseIsList DEF IInv, PhaseOf
    <3> QED
      BY <1>2, <3>1, <3>2, <3>3, MoveCounts
  <2> QED
    BY <1>2, <2>1, <2>2, MoveCounts DEF MovesRunOut
<1> QED
  BY <1>1, <1>2, InitIInv, NextIInv, PTL DEF Spec
-----------------------------------------------------------------------------
(* Reports and the processes they are for                                  *)
(*                                                                         *)
(* While the UE does not come back through random access (MayReaccess is   *)
(* FALSE), the PUSCHs on the air are those of processes on the feedback    *)
(* list, in the order of that list: handling a report can only flush       *)
(* processes whose own report was lost.  After random access the lists     *)
(* start again while reports of the old PUSCHs may still come.             *)

\* p comes before q in the sequence s
Precedes(s, p, q) == \E m, n \in DOMAIN s : m < n /\ s[m] = p /\ s[n] = q

\* An element appended comes after all others, whose order is kept.
LEMMA PrecedesAppend ==
  ASSUME NEW S, NEW s \in Seq(S), NEW x \in S
  PROVE  /\ \A p, q : Precedes(s, p, q) => Precedes(Append(s, x), p, q)
         /\ \A p \in Range(s) : Precedes(Append(s, x), p, x)
<1> DEFINE t == Append(s, x)
<1>1. /\ DOMAIN t = 1 .. Len(s) + 1 /\ DOMAIN s = 1 .. Len(s) /\ Len(s) \in Nat
      /\ \A i \in 1 .. Len(s) : t[i] = s[i]
      /\ t[Len(s) + 1] = x
  OBVIOUS
<1> HIDE DEF t
<1>2. ASSUME NEW p, NEW q, Precedes(s, p, q) PROVE Precedes(t, p, q)
  BY <1>1, <1>2 DEF Precedes
<1>3. ASSUME NEW p \in Range(s) PROVE Precedes(t, p, x)
  <2>1. PICK m \in DOMAIN s : s[m] = p
    BY <1>3 DEF Range
  <2>2. m \in DOMAIN t /\ Len(s) + 1 \in DOMAIN t /\ m < Len(s) + 1 /\ t[m] = p
    BY <1>1, <2>1
  <2> QED
    BY <1>1, <2>2 DEF Precedes
<1> QED
  BY <1>2, <1>3 DEF t

\* Removing the head of a duplicate-free sequence keeps the order of the
\* others, and nothing comes before the head.
LEMMA PrecedesTail ==
  ASSUME NEW S, NEW s \in Seq(S), s # <<>>, IsInjective(s)
  PROVE  \A p, q : Precedes(s, p, q) =>
           q # Head(s) /\ (p # Head(s) => Precedes(Tail(s), p, q))
<1> DEFINE t == Tail(s)
<1>1. /\ DOMAIN t = 1 .. Len(s) - 1 /\ DOMAIN s = 1 .. Len(s) /\ Len(s) \in Nat
      /\ \A i \in 1 .. Len(s) - 1 : t[i] = s[i + 1]
      /\ Head(s) = s[1]
  OBVIOUS
<1> HIDE DEF t
<1> SUFFICES ASSUME NEW p, NEW q, Precedes(s, p, q)
             PROVE  q # Head(s) /\ (p # Head(s) => Precedes(t, p, q))
  BY DEF t
<1>2. PICK m \in DOMAIN s, n \in DOMAIN s : m < n /\ s[m] = p /\ s[n] = q
  BY DEF Precedes
<1>3. n # 1 /\ 1 \in DOMAIN s
  BY <1>1, <1>2
<1>4. q # Head(s)
  BY <1>1, <1>2, <1>3 DEF IsInjective
<1>5. ASSUME p # Head(s) PROVE Precedes(t, p, q)
  <2>1. m # 1
    BY <1>1, <1>2, <1>5
  <2>2. m - 1 \in DOMAIN t /\ n - 1 \in DOMAIN t /\ m - 1 < n - 1
    BY <1>1, <1>2, <2>1
  <2>3. t[m - 1] = p /\ t[n - 1] = q
    <3>1. (m - 1) + 1 = m /\ (n - 1) + 1 = n
      BY <1>1, <1>2
    <3> QED
      BY <1>1, <1>2, <2>2, <3>1
  <2> QED
    BY <2>2, <2>3 DEF Precedes
<1> QED
  BY <1>4, <1>5

\* What a step can do to a list: its head goes, a process that is not on it
\* joins at the end, or random access empties it.
ListMoves(s, t) ==
  \/ t = s \/ t = <<>>
  \/ s # <<>> /\ t = Tail(s)
  \/ \E x \in Pid \ Range(s) : t = Append(s, x)

\* Whoever is before a process of the list afterwards was before it.
LEMMA MovesInTurn ==
  ASSUME NEW s \in Seq(Pid), NEW t, ListMoves(s, t),
         NEW q \in Range(s), NEW p, Precedes(t, p, q)
  PROVE  Precedes(s, p, q)
<1>1. DOMAIN s = 1 .. Len(s) /\ Len(s) \in Nat
  OBVIOUS
<1>2. PICK m \in DOMAIN t, n \in DOMAIN t : m < n /\ t[m] = p /\ t[n] = q
  BY DEF Precedes
<1>3. CASE t = <<>>
  BY <1>2, <1>3
<1>4. CASE s # <<>> /\ t = Tail(s)
  <2>1. DOMAIN t = 1 .. Len(s) - 1 /\ \A i \in 1 .. Len(s) - 1 : t[i] = s[i + 1]
    BY <1>4
  <2>2. m + 1 \in DOMAIN s /\ n + 1 \in DOMAIN s /\ m + 1 < n + 1
    BY <1>1, <1>2, <2>1
  <2>3. s[m + 1] = p /\ s[n + 1] = q
    BY <1>2, <2>1
  <2> QED
    BY <2>2, <2>3 DEF Precedes
<1>5. ASSUME NEW x \in Pid \ Range(s), t = Append(s, x) PROVE Precedes(s, p, q)
  <2>1. /\ DOMAIN t = 1 .. Len(s) + 1 /\ \A i \in 1 .. Len(s) : t[i] = s[i]
        /\ t[Len(s) + 1] = x
    BY <1>5
  <2>2. n # Len(s) + 1
    BY <1>2, <1>5, <2>1
  <2>3. m \in DOMAIN s /\ n \in DOMAIN s
    BY <1>1, <1>2, <2>1, <2>2
  <2> QED
    BY <1>1, <1>2, <2>1, <2>3 DEF Precedes
<1> QED
  BY <1>2, <1>3, <1>4, <1>5 DEF ListMoves, Precedes

\* Nothing comes to be before a block on the feedback list, or before one that
\* waits for its retransmission, that was not before it already.
InTurn ==
  /\ \A q \in Feedback : \A p : Precedes(feedback', p, q) => Precedes(feedback, p, q)
  /\ \A q \in Retrans : \A p : Precedes(retrans', p, q) => Precedes(retrans, p, q)

\* No block is overtaken on its list, whatever is lost: a report always goes to
\* the oldest block, and a retransmission to the one that waits longest.
THEOREM UlHarqInTurn == Spec => [][InTurn]_vars
<1>1. ASSUME IInv, Next PROVE ListMoves(feedback, feedback') /\ ListMoves(retrans, retrans')
  <2>1. ASSUME NEW tb \in TbSize, ScheduleNew(tb)
        PROVE  ListMoves(feedback, feedback') /\ ListMoves(retrans, retrans')
    <3>1. Head(available) \in Pid /\ Head(available) \notin Feedback
      BY <1>1, <2>1, ScheduleNewLists
    <3> QED
      BY <2>1, <3>1 DEF ScheduleNew, Transmit, ListMoves, Feedback
  <2>2. ASSUME NEW tb \in TbSize, ScheduleNewNoHarq(tb)
        PROVE  ListMoves(feedback, feedback') /\ ListMoves(retrans, retrans')
    BY <2>2 DEF ScheduleNewNoHarq, GrantNoHarq, ListMoves
  <2>3. CASE ScheduleRetx
    <3>1. Head(retrans) \in Pid /\ Head(retrans) \notin Feedback
      BY <1>1, <2>3, ScheduleRetxLists
    <3> QED
      BY <2>3, <3>1 DEF ScheduleRetx, Transmit, ListMoves, Feedback
  <2>4. CASE FlushOne \/ HandleCrc
    <3>1. Finished \/ Nacked
      BY <1>1, <2>4, FeedbackStep
    <3>2. Head(feedback) \in Pid /\ Head(feedback) \notin Retrans
      BY <1>1, <3>1, TakeFirstLists DEF Finished, Nacked
    <3> QED
      BY <3>1, <3>2 DEF Finished, Nacked, TakeFirst, ListMoves, Retrans
  <2>5. CASE Reaccess
    BY <2>5 DEF Reaccess, ListMoves
  <2>6. ASSUME NEW ok \in BOOLEAN, NEW loud \in BOOLEAN, RxSdu(ok, loud)
        PROVE  UNCHANGED lists
    BY <2>6 DEF RxSdu
  <2>7. CASE DropIndication \/ LoseCrc
    BY <2>7 DEF DropIndication, LoseCrc, lists, ListMoves
  <2> QED
    BY <1>1, <2>1, <2>2, <2>3, <2>4, <2>5, <2>6, <2>7 DEF Next, lists, ListMoves
<1>2. ASSUME IInv, Next PROVE InTurn
  <2>1. feedback \in Seq(Pid) /\ retrans \in Seq(Pid)
    BY <1>2 DEF IInv, TypeOK
  <2>2. ASSUME NEW q \in Feedback, NEW p, Precedes(feedback', p, q)
        PROVE  Precedes(feedback, p, q)
    BY <1>1, <1>2, <2>1, <2>2, MovesInTurn DEF Feedback
  <2>3. ASSUME NEW q \in Retrans, NEW p, Precedes(retrans', p, q)
        PROVE  Precedes(retrans, p, q)
    BY <1>1, <1>2, <2>1, <2>3, MovesInTurn DEF Retrans
  <2> QED
    BY <2>2, <2>3 DEF InTurn
<1>3. IInv /\ [Next]_vars => [InTurn]_vars
  BY <1>2
<1> QED
  BY <1>3, InitIInv, NextIInv, PTL DEF Spec

\* tx is the transmission its process expects feedback for
Matches(tx) ==
  /\ tx.pid \in Feedback
  /\ tx.ndi = ndi[tx.pid] /\ tx.round = round[tx.pid] /\ tx.tb = tbSize[tx.pid]

AirMatches == \A i \in DOMAIN air : Matches(air[i])

AirInOrder ==
  \A i, j \in DOMAIN air : i < j => Precedes(feedback, air[i].pid, air[j].pid)

\* the report being handled is of the oldest of them
RxFirst ==
  rx # NoRx =>
    /\ Matches(rx.tx)
    /\ \A i \in DOMAIN air : Precedes(feedback, rx.tx.pid, air[i].pid)

ReportsInOrder == AirMatches /\ AirInOrder /\ RxFirst

\* with HARQ disabled no process ever waits
NothingWaits == feedback = <<>> /\ retrans = <<>> /\ rx = NoRx

OrderInv == IF disableHarq THEN NothingWaits ELSE ReportsInOrder

\* The next PUSCH granted goes to the end of both the air and the list.
LEMMA GrantOrder ==
  ASSUME IInv, ReportsInOrder, rx = NoRx, rx' = NoRx,
         NEW p \in Pid, p \notin Feedback, NEW tb \in TbSize,
         feedback' = Append(feedback, p), Feedback' = Feedback \cup {p},
         Grant(p, tb, ndi[p]), ndi' = ndi, round' = round,
         tbSize' = [tbSize EXCEPT ![p] = tb]
  PROVE  ReportsInOrder'
<1> DEFINE tx == [pid |-> p, ndi |-> ndi[p], round |-> round[p], tb |-> tb]
<1>1. feedback \in Seq(Pid) /\ air \in Seq(Pusch) /\ tbSize \in [Pid -> TbSize \cup {0}]
  BY DEF IInv, TypeOK
<1>2. /\ DOMAIN air = 1 .. Len(air) /\ DOMAIN air' = 1 .. Len(air) + 1 /\ Len(air) \in Nat
      /\ \A i \in 1 .. Len(air) : air'[i] = air[i]
      /\ air'[Len(air) + 1] = tx
  BY <1>1 DEF Grant
<1>3. tbSize'[p] = tb /\ \A q \in Pid : q # p => tbSize'[q] = tbSize[q]
  BY <1>1
<1>4. \A i \in DOMAIN air : air[i].pid \in Pid
  <2>1. \A i \in DOMAIN air : air[i] \in Pusch
    BY <1>1
  <2> QED
    BY <2>1 DEF Pusch
<1>5. AirMatches'
  <2> SUFFICES ASSUME NEW i \in DOMAIN air' PROVE Matches(air[i])'
    BY DEF AirMatches
  <2>1. CASE i \in DOMAIN air
    <3>1. air'[i] = air[i] /\ air[i].pid \in Pid /\ Matches(air[i])
      BY <1>2, <1>4, <2>1 DEF ReportsInOrder, AirMatches
    <3>2. air[i].pid # p
      BY <3>1 DEF Matches
    <3> QED
      BY <1>3, <3>1, <3>2 DEF Matches
  <2>2. CASE i = Len(air) + 1
    BY <1>2, <1>3, <2>2 DEF Matches
  <2> QED
    BY <1>2, <2>1, <2>2
<1>6. AirInOrder'
  <2> SUFFICES ASSUME NEW i \in DOMAIN air', NEW j \in DOMAIN air', i < j
               PROVE  Precedes(feedback', air'[i].pid, air'[j].pid)
    BY DEF AirInOrder
  <2>1. i \in DOMAIN air /\ air'[i] = air[i] /\ air[i].pid \in Feedback
    BY <1>2 DEF ReportsInOrder, AirMatches, Matches
  <2>2. CASE j \in DOMAIN air
    <3>1. air'[j] = air[j] /\ Precedes(feedback, air[i].pid, air[j].pid)
      BY <1>2, <2>1, <2>2 DEF ReportsInOrder, AirInOrder
    <3> QED
      BY <1>1, <2>1, <3>1, PrecedesAppend
  <2>3. CASE j = Len(air) + 1
    <3>1. air'[j].pid = p
      BY <1>2, <2>3
    <3>2. Precedes(feedback', air[i].pid, p)
      BY <1>1, <2>1, PrecedesAppend DEF Feedback
    <3> QED
      BY <2>1, <3>1, <3>2
  <2> QED
    BY <1>2, <2>2, <2>3
<1> QED
  BY <1>5, <1>6 DEF ReportsInOrder, RxFirst

\* Done with its oldest process, the list still holds those on the air: the
\* process was the one reported, or it comes before that one.
LEMMA TakeOrder ==
  ASSUME IInv, ReportsInOrder, TakeFirst, rx # NoRx,
         \A q \in Pid \ {Head(feedback)} : ndi'[q] = ndi[q] /\ round'[q] = round[q],
         \/ Head(feedback) # rx.tx.pid /\ rx' = rx
         \/ Head(feedback) = rx.tx.pid /\ rx' = NoRx
  PROVE  ReportsInOrder'
<1> DEFINE p == Head(feedback)
<1>1. feedback \in Seq(Pid) /\ feedback # <<>> /\ IsInjective(feedback)
  BY DEF IInv, TypeOK, ProcessesPartitioned, NoDuplicates, TakeFirst
<1>2. feedback' = Tail(feedback) /\ Feedback' = Feedback \ {p} /\ Feedback \subseteq Pid
  BY TakeFirstLists DEF TakeFirst, IInv, ProcessesPartitioned
<1>3. air' = air /\ tbSize' = tbSize
  BY DEF TakeFirst
<1>4. \A q, r : Precedes(feedback, q, r) => r # p /\ (q # p => Precedes(feedback', q, r))
  BY <1>1, <1>2, PrecedesTail
<1>5. \A i \in DOMAIN air : air[i].pid # p
  BY <1>4 DEF ReportsInOrder, RxFirst
<1> HIDE DEF p
<1>6. ASSUME NEW tx, Matches(tx), tx.pid # p PROVE Matches(tx)'
  BY <1>2, <1>3, <1>6 DEF Matches, p
<1>7. AirMatches'
  <2>1. \A i \in DOMAIN air : Matches(air[i])'
    BY <1>3, <1>5, <1>6 DEF ReportsInOrder, AirMatches, Matches
  <2> QED
    BY <1>3, <2>1 DEF AirMatches, Matches
<1>8. AirInOrder'
  BY <1>3, <1>4, <1>5 DEF ReportsInOrder, AirInOrder
<1>9. RxFirst'
  <2> SUFFICES ASSUME rx' # NoRx PROVE RxFirst'
    BY DEF RxFirst
  <2>1. rx' = rx /\ rx.tx.pid # p
    BY DEF p
  <2>2. Matches(rx.tx)'
    <3>1. Matches(rx.tx)
      BY DEF ReportsInOrder, RxFirst
    <3> QED
      BY <1>2, <1>3, <2>1, <3>1 DEF Matches, p
  <2>3. \A i \in DOMAIN air' : Precedes(feedback', rx'.tx.pid, air'[i].pid)
    BY <1>3, <1>4, <2>1 DEF ReportsInOrder, RxFirst
  <2> QED
    BY <2>1, <2>2, <2>3 DEF RxFirst
<1> QED
  BY <1>7, <1>8, <1>9 DEF ReportsInOrder

\* The oldest PUSCH leaves the air, reported or not.
LEMMA ReportOrder ==
  ASSUME IInv, ReportsInOrder, air # <<>>, air' = Tail(air),
         UNCHANGED lists, UNCHANGED procs,
         rx' = NoRx \/ rx'.tx = Head(air)
  PROVE  ReportsInOrder'
<1>1. air \in Seq(Pusch)
  BY DEF IInv, TypeOK
<1>2. /\ DOMAIN air = 1 .. Len(air) /\ DOMAIN air' = 1 .. Len(air) - 1
      /\ Len(air) \in Nat \ {0} /\ Head(air) = air[1]
      /\ \A i \in 1 .. Len(air) - 1 : air'[i] = air[i + 1]
  BY <1>1
<1>3. /\ feedback' = feedback /\ Feedback' = Feedback
      /\ ndi' = ndi /\ round' = round /\ tbSize' = tbSize
  BY DEF lists, procs, Feedback
<1>4. \A i \in DOMAIN air' : i + 1 \in DOMAIN air /\ 1 < i + 1 /\ air'[i] = air[i + 1]
  BY <1>2
<1>5. AirMatches'
  BY <1>3, <1>4 DEF ReportsInOrder, AirMatches, Matches
<1>6. AirInOrder'
  <2> SUFFICES ASSUME NEW i \in DOMAIN air', NEW j \in DOMAIN air', i < j
               PROVE  Precedes(feedback', air'[i].pid, air'[j].pid)
    BY DEF AirInOrder
  <2>1. i + 1 < j + 1
    BY <1>2
  <2> QED
    BY <1>3, <1>4, <2>1 DEF ReportsInOrder, AirInOrder
<1>7. RxFirst'
  <2> SUFFICES ASSUME rx' # NoRx PROVE RxFirst'
    BY DEF RxFirst
  <2>1. rx'.tx = air[1] /\ 1 \in DOMAIN air
    BY <1>2
  <2>2. Matches(air[1])
    BY <2>1 DEF ReportsInOrder, AirMatches
  <2>3. \A i \in DOMAIN air' : Precedes(feedback', rx'.tx.pid, air'[i].pid)
    BY <1>3, <1>4, <2>1 DEF ReportsInOrder, AirInOrder
  <2> QED
    BY <1>3, <2>1, <2>2, <2>3 DEF RxFirst, Matches
<1> QED
  BY <1>5, <1>6, <1>7 DEF ReportsInOrder

\* What handling a report can do, in full: a block that arrived is done, one
\* whose report was lost or negative is given up or granted again.
LEMMA HandlingCases ==
  ASSUME IInv, FlushOne \/ HandleCrc
  PROVE  LET p == Head(feedback) IN
           /\ TakeFirst /\ rx # NoRx /\ p \in Pid
           /\ \/ /\ rx.ok /\ p = rx.tx.pid /\ rx' = NoRx
                 /\ FinishUlHarq(p)
                 /\ UNCHANGED <<retrans, schedBytes>>
              \/ /\ \/ p # rx.tx.pid /\ rx' = rx
                    \/ p = rx.tx.pid /\ ~rx.ok /\ rx' = NoRx
                 /\ \/ AbortUlHarq(p) /\ UNCHANGED retrans
                    \/ Nacked
<1> DEFINE p == Head(feedback)
<1>1. feedback \in Seq(Pid) /\ feedback # <<>>
  BY DEF FlushOne, CrcFailed, Retransmit, HandleCrc, IInv, TypeOK
<1>2. p \in Pid
  BY <1>1
<1>3. TakeFirst /\ rx # NoRx
  BY DEF FlushOne, CrcFailed, Retransmit, HandleCrc, TakeFirst
<1>4. ASSUME CrcFailed(p)
      PROVE  (AbortUlHarq(p) /\ UNCHANGED retrans) \/ Nacked
  BY <1>3, <1>4 DEF CrcFailed, Retransmit, Nacked
<1>5. CASE FlushOne
  <2>1. p # rx.tx.pid /\ rx' = rx /\ CrcFailed(p)
    BY <1>5 DEF FlushOne
  <2> HIDE DEF p
  <2> QED
    BY <1>2, <1>3, <1>4, <2>1 DEF p
<1>6. CASE HandleCrc
  <2>1. /\ p = rx.tx.pid /\ rx' = NoRx
        /\ \/ rx.ok /\ FinishUlHarq(p) /\ UNCHANGED <<retrans, schedBytes>>
           \/ ~rx.ok /\ CrcFailed(p)
    BY <1>6 DEF HandleCrc
  <2> HIDE DEF p
  <2> QED
    BY <1>2, <1>3, <1>4, <2>1 DEF p
<1> QED
  BY <1>5, <1>6

\* Handling a report changes only the process it takes off the list.
LEMMA HandlingOrder ==
  ASSUME IInv, ReportsInOrder, FlushOne \/ HandleCrc
  PROVE  ReportsInOrder'
<1> DEFINE p == Head(feedback)
<1>1. /\ TakeFirst /\ rx # NoRx /\ p \in Pid
      /\ \/ p # rx.tx.pid /\ rx' = rx
         \/ p = rx.tx.pid /\ rx' = NoRx
      /\ FinishUlHarq(p) \/ Nacked
  BY HandlingCases DEF AbortUlHarq
<1>2. ndi \in [Pid -> {0, 1}] /\ round \in [Pid -> 0 .. RoundMax - 1]
  BY DEF IInv, TypeOK
<1>3. \A q \in Pid \ {p} : ndi'[q] = ndi[q] /\ round'[q] = round[q]
  <2>1. CASE FinishUlHarq(p)
    BY <1>2, <2>1 DEF FinishUlHarq
  <2>2. CASE Nacked
    BY <1>2, <2>2 DEF Nacked
  <2> QED
    BY <1>1, <2>1, <2>2
<1> QED
  BY <1>1, <1>3, TakeOrder

LEMMA InitOrderInv == Init => OrderInv
<1> SUFFICES ASSUME Init PROVE OrderInv
  OBVIOUS
<1>1. feedback = <<>> /\ retrans = <<>> /\ air = <<>> /\ rx = NoRx
  BY DEF Init
<1> QED
  BY <1>1 DEF OrderInv, NothingWaits, ReportsInOrder, AirMatches, AirInOrder, RxFirst

\* Every step but the return of the UE keeps reports and lists in order.
LEMMA NextOrderInv ==
  ASSUME ~MayReaccess
  PROVE  IInv /\ OrderInv /\ [Next]_vars => OrderInv'
<1> SUFFICES ASSUME IInv, OrderInv, [Next]_vars PROVE OrderInv'
  OBVIOUS
<1>1. disableHarq' = disableHarq
  BY DEF Next, ScheduleNew, ScheduleNewNoHarq, GrantNoHarq, ScheduleRetx, RxSdu, FlushOne,
     DropIndication, HandleCrc, LoseCrc, Reaccess, vars
<1>2. CASE disableHarq
  <2>1. NothingWaits /\ disableHarq'
    BY <1>1, <1>2 DEF OrderInv
  <2>2. NothingWaits'
    BY <1>2, <2>1 DEF Next, ScheduleNew, ScheduleNewNoHarq, GrantNoHarq, ScheduleRetx, RxSdu,
       FlushOne, DropIndication, HandleCrc, LoseCrc, Reaccess, vars, lists, NothingWaits
  <2> QED
    BY <2>1, <2>2 DEF OrderInv
<1>3. CASE ~disableHarq
  <2>1. ReportsInOrder /\ ~disableHarq'
    BY <1>1, <1>3 DEF OrderInv
  <2> SUFFICES ReportsInOrder'
    BY <2>1 DEF OrderInv
  <2>2. ASSUME NEW tb \in TbSize, ScheduleNew(tb) PROVE ReportsInOrder'
    <3> DEFINE p == Head(available)
    <3>1. p \in Pid /\ p \notin Feedback /\ Feedback' = Feedback \cup {p}
      BY <2>2, ScheduleNewLists
    <3>2. /\ rx = NoRx /\ rx' = NoRx /\ feedback' = Append(feedback, p)
          /\ Grant(p, tb, ndi[p]) /\ ndi' = ndi /\ round' = round
          /\ tbSize' = [tbSize EXCEPT ![p] = tb]
      BY <2>2 DEF ScheduleNew, Granting, Transmit
    <3> HIDE DEF p
    <3> QED
      BY <2>1, <3>1, <3>2, GrantOrder
  <2>3. CASE ScheduleRetx
    <3> DEFINE p == Head(retrans)
    <3>1. p \in Pid /\ p \in Retrans /\ p \notin Feedback /\ Feedback' = Feedback \cup {p}
      BY <2>3, ScheduleRetxLists
    <3>2. /\ rx = NoRx /\ rx' = NoRx /\ feedback' = Append(feedback, p)
          /\ Grant(p, tbSize[p], ndi[p]) /\ ndi' = ndi /\ round' = round /\ tbSize' = tbSize
      BY <2>3 DEF ScheduleRetx, Granting, Transmit
    <3> HIDE DEF p
    <3>3. tbSize[p] \in TbSize /\ tbSize' = [tbSize EXCEPT ![p] = tbSize[p]]
      BY <3>1, <3>2 DEF IInv, TypeOK, CarriersSized
    <3> QED
      BY <2>1, <3>1, <3>2, <3>3, GrantOrder
  <2>4. ASSUME NEW ok \in BOOLEAN, NEW loud \in BOOLEAN, RxSdu(ok, loud)
        PROVE  ReportsInOrder'
    <3>1. /\ air # <<>> /\ air' = Tail(air) /\ UNCHANGED lists /\ UNCHANGED procs
          /\ rx' = [tx |-> Head(air), ok |-> ok]
      BY <1>3, <2>4 DEF RxSdu
    <3> QED
      BY <2>1, <3>1, ReportOrder
  <2>5. CASE FlushOne \/ HandleCrc
    BY <2>1, <2>5, HandlingOrder
  <2>6. CASE DropIndication
    <3>1. rx # NoRx /\ Feedback = {}
      BY <2>6 DEF DropIndication, Feedback, Range
    <3> QED
      BY <2>1, <3>1 DEF ReportsInOrder, RxFirst, Matches
  <2>7. CASE LoseCrc
    <3>1. /\ air # <<>> /\ air' = Tail(air) /\ UNCHANGED lists /\ UNCHANGED procs /\ rx' = NoRx
      BY <2>7 DEF LoseCrc
    <3> QED
      BY <2>1, <3>1, ReportOrder
  <2>8. CASE UNCHANGED vars
    BY <2>1, <2>8 DEF vars, lists, procs, ReportsInOrder, AirMatches, AirInOrder, RxFirst,
       Matches, Feedback
  <2>9. ASSUME NEW tb \in TbSize, ScheduleNewNoHarq(tb) PROVE FALSE
    BY <1>3, <2>9 DEF ScheduleNewNoHarq, GrantNoHarq
  <2>10. ~Reaccess
    BY DEF Reaccess
  <2> QED
    BY <2>2, <2>3, <2>4, <2>5, <2>6, <2>7, <2>8, <2>9, <2>10 DEF Next
<1> QED
  BY <1>2, <1>3

\* The CRC taken for a process is that of the very transmission it waits for.
THEOREM UlHarqCrcMatches ==
  ASSUME ~MayReaccess
  PROVE  Spec => []CrcMatchesGrant
<1>1. IInv /\ OrderInv => CrcMatchesGrant
  BY DEF OrderInv, NothingWaits, ReportsInOrder, RxFirst, Matches, CrcMatchesGrant
<1>2. IInv /\ OrderInv /\ [Next]_vars => OrderInv'
  BY NextOrderInv
<1> QED
  BY <1>1, <1>2, InitIInv, NextIInv, InitOrderInv, PTL DEF Spec

\* No report is dropped for want of a process, and so no process that can
\* still be reported is ever flushed.
ReportsFindTheirProcess ==
  ~disableHarq /\ rx # NoRx =>
    /\ rx.tx.pid \in Feedback
    /\ \A i \in DOMAIN air : Precedes(feedback, rx.tx.pid, air[i].pid)

THEOREM UlHarqReportsFound ==
  ASSUME ~MayReaccess
  PROVE  Spec => []ReportsFindTheirProcess
<1>1. OrderInv => ReportsFindTheirProcess
  BY DEF OrderInv, ReportsInOrder, RxFirst, Matches, ReportsFindTheirProcess
<1>2. IInv /\ OrderInv /\ [Next]_vars => OrderInv'
  BY NextOrderInv
<1> QED
  BY <1>1, <1>2, InitIInv, NextIInv, InitOrderInv, PTL DEF Spec

-----------------------------------------------------------------------------
(* The new data indicator                                                  *)

\* the condition NdiTogglesPerBlock puts on a step
Toggles ==
  ~disableHarq =>
    \A p \in Pid : ndi'[p] # ndi[p] <=> p \notin Available /\ p \in Available'

\* Only a process that is done with its block joins the available list.
LEMMA StepToggles ==
  ASSUME ~Reaccess, IInv, [Next]_vars
  PROVE  Toggles
<1> SUFFICES ASSUME ~disableHarq
             PROVE  \A p \in Pid : ndi'[p] # ndi[p] <=> p \notin Available /\ p \in Available'
  BY DEF Toggles
<1>1. ASSUME ndi' = ndi, Available' \subseteq Available
      PROVE  \A p \in Pid : ndi'[p] # ndi[p] <=> p \notin Available /\ p \in Available'
  BY <1>1
<1>2. ASSUME NEW tb \in TbSize, ScheduleNew(tb) PROVE ndi' = ndi /\ Available' \subseteq Available
  <2>1. ndi' = ndi
    BY <1>2 DEF ScheduleNew
  <2> QED
    BY <1>2, <2>1, ScheduleNewLists
<1>3. CASE FlushOne \/ HandleCrc
  <2>1. CASE Nacked
    BY <1>1, <2>1 DEF Nacked, Available
  <2>2. CASE Finished
    <3> DEFINE p == Head(feedback)
    <3>1. /\ p \in Pid /\ p \notin Available /\ Available' = Available \cup {p}
          /\ ndi' = [ndi EXCEPT ![p] = 1 - @]
      BY <2>2, TakeFirstLists, FinishedLists DEF Finished, FinishUlHarq
    <3> HIDE DEF p
    <3>2. ndi \in [Pid -> {0, 1}] /\ \A b \in {0, 1} : 1 - b # b
      BY DEF IInv, TypeOK
    <3>3. ndi'[p] # ndi[p] /\ \A q \in Pid : q # p => ndi'[q] = ndi[q]
      BY <3>1, <3>2
    <3> QED
      BY <3>1, <3>3
  <2> QED
    BY <1>3, <2>1, <2>2, FeedbackStep
<1>4. CASE \/ ScheduleRetx \/ DropIndication \/ LoseCrc \/ UNCHANGED vars
           \/ \E ok, loud \in BOOLEAN : RxSdu(ok, loud)
  <2>1. ndi' = ndi /\ available' = available
    BY <1>4 DEF ScheduleRetx, DropIndication, LoseCrc, RxSdu, vars, lists, procs
  <2> QED
    BY <1>1, <2>1 DEF Available
<1>5. \A tb \in TbSize : ~ScheduleNewNoHarq(tb)
  BY DEF ScheduleNewNoHarq, GrantNoHarq
<1> QED
  BY <1>1, <1>2, <1>3, <1>4, <1>5 DEF Next

\* The indicator toggles exactly when a process is done with its block.
THEOREM UlHarqNdiToggles ==
  ASSUME ~MayReaccess
  PROVE  Spec => NdiTogglesPerBlock
<1>1. IInv /\ [Next]_vars => Toggles
  BY StepToggles DEF Reaccess
<1>2. IInv /\ [Next]_vars => [Toggles]_vars
  BY <1>1
<1> QED
  BY <1>2, InitIInv, NextIInv, PTL DEF Spec, NdiTogglesPerBlock, Toggles

\* a new indicator only for a process that becomes free
TogglesAtEnd ==
  ~disableHarq =>
    \A p \in Pid : ndi'[p] # ndi[p] => p \notin Available /\ p \in Available'

\* Even when the UE comes back through random access, an indicator toggles only
\* in the step that takes its process from another list to the available one,
\* never while the process keeps its block or when it is granted.
THEOREM UlHarqNdiKept == Spec => [][TogglesAtEnd]_vars
<1>1. IInv /\ [Next]_vars => TogglesAtEnd
  <2> SUFFICES ASSUME IInv, [Next]_vars PROVE TogglesAtEnd
    OBVIOUS
  <2>1. CASE Reaccess
    BY <2>1 DEF Reaccess, TogglesAtEnd
  <2>2. CASE ~Reaccess
    BY <2>2, StepToggles DEF Toggles, TogglesAtEnd
  <2> QED
    BY <2>1, <2>2
<1>2. IInv /\ [Next]_vars => [TogglesAtEnd]_vars
  BY <1>1
<1> QED
  BY <1>2, InitIInv, NextIInv, PTL DEF Spec

-----------------------------------------------------------------------------
(* Sums.  SumFunctionOnSet is a fold, a recursive function over the        *)
(* subsets of the set summed; what it computes is proved from the smallest *)
(* subset on which a claim would fail.                                     *)

\* the element a fold takes first, and the rest it goes on with
SumFirst(s) == CHOOSE x \in s : TRUE
SumRest(s) == s \ {SumFirst(s)}

\* g gives the sums of f over the subsets of S
SumsBelow(f, S, g) ==
  g = [s \in SUBSET S |-> IF s = {} THEN 0 ELSE f[SumFirst(s)] + g[SumRest(s)]]

PartialSums(f, S) == CHOOSE g : SumsBelow(f, S, g)

\* The sum is the entry of the whole set in that function.
LEMMA SumDef ==
  ASSUME NEW f, NEW S
  PROVE  SumFunctionOnSet(f, S) = PartialSums(f, S)[S]
BY DEF SumFunctionOnSet, FoldFunctionOnSet, MapThenFoldSet, PartialSums, SumsBelow, SumFirst, SumRest

\* A fold goes on with a smaller set.
LEMMA RestSmaller ==
  ASSUME NEW s, s # {}
  PROVE  SumFirst(s) \in s /\ SumRest(s) \subseteq s /\ SumRest(s) # s
BY DEF SumFirst, SumRest

\* Of the subsets of a finite set that refute a claim one is smallest.
LEMMA SmallestSubset ==
  ASSUME NEW S, IsFiniteSet(S), NEW T \in SUBSET SUBSET S, T # {}
  PROVE  \E u \in T : \A v \in T : v \subseteq u => v = u
<1>1. FiniteSubsetsOf(S) = SUBSET S
  BY FS_FiniteSubsetsOfFinite
<1>2. IsWellFoundedOn(StrictSubsetOrdering(S), SUBSET S)
  BY <1>1, FS_StrictSubsetOrderingWellFounded
<1>3. PICK u \in T : \A v \in T : ~(<<v, u>> \in StrictSubsetOrdering(S))
  BY <1>2, WFMin
<1>4. ASSUME NEW v \in T, v \subseteq u, v # u PROVE FALSE
  BY <1>3, <1>4 DEF StrictSubsetOrdering
<1> QED
  BY <1>4

\* Two such functions agree where both are defined.
LEMMA SumsBelowAgree ==
  ASSUME NEW f, NEW S, IsFiniteSet(S), NEW R \in SUBSET S, 
         NEW g, SumsBelow(f, S, g), NEW h, SumsBelow(f, R, h)
  PROVE  \A s \in SUBSET R : g[s] = h[s]
<1> DEFINE T == {s \in SUBSET R : g[s] # h[s]}
<1>1. IsFiniteSet(R)
  BY FS_Subset
<1> SUFFICES ASSUME T # {} PROVE FALSE
  OBVIOUS
<1>2. PICK u \in T : \A v \in T : v \subseteq u => v = u
  <2>1. T \in SUBSET SUBSET R
    OBVIOUS
  <2> HIDE DEF T
  <2> QED
    BY <1>1, <2>1, SmallestSubset
<1>3. /\ g[u] = IF u = {} THEN 0 ELSE f[SumFirst(u)] + g[SumRest(u)]
      /\ h[u] = IF u = {} THEN 0 ELSE f[SumFirst(u)] + h[SumRest(u)]
  BY DEF SumsBelow
<1>4. u # {}
  BY <1>3
<1>5. SumRest(u) \in SUBSET R /\ SumRest(u) \notin T
  BY <1>2, <1>4, RestSmaller
<1>6. g[SumRest(u)] = h[SumRest(u)]
  BY <1>5
<1>7. g[u] # h[u]
  BY <1>2
<1> QED
  BY <1>3, <1>4, <1>6, <1>7

\* Such a function exists for every finite set.
LEMMA SumsBelowExist ==
  ASSUME NEW f, NEW S, IsFiniteSet(S)
  PROVE  SumsBelow(f, S, PartialSums(f, S))
<1> DEFINE T == {s \in SUBSET S : ~SumsBelow(f, s, PartialSums(f, s))}
<1> SUFFICES ASSUME T # {} PROVE FALSE
  BY DEF PartialSums
<1>2. PICK u \in T : \A v \in T : v \subseteq u => v = u
  <2>1. T \in SUBSET SUBSET S
    OBVIOUS
  <2> HIDE DEF T
  <2> QED
    BY <2>1, SmallestSubset
<1>3. \A v \in SUBSET u : v # u => SumsBelow(f, v, PartialSums(f, v))
  BY <1>2
<1> DEFINE Part(v) == PartialSums(f, v)
           g == [s \in SUBSET u |-> IF s = {} THEN 0 ELSE f[SumFirst(s)] + Part(SumRest(s))[SumRest(s)]]
<1>4. ASSUME NEW s \in SUBSET u, s # {} PROVE g[SumRest(s)] = Part(SumRest(s))[SumRest(s)]
  <2> DEFINE r == SumRest(s)
  <2>1. r \in SUBSET u /\ r # u
    BY <1>4, RestSmaller
  <2>2. SumsBelow(f, r, Part(r)) /\ IsFiniteSet(r)
    BY <1>3, <2>1, FS_Subset
  <2>3. CASE r = {}
    <3>1. Part(r)[r] = 0
      BY <2>2, <2>3 DEF SumsBelow
    <3> QED
      BY <2>1, <2>3, <3>1
  <2>4. CASE r # {}
    <3> DEFINE q == SumRest(r)
    <3>1. q \in SUBSET r /\ q # r
      BY <2>4, RestSmaller
    <3>2. SumsBelow(f, q, Part(q))
      BY <1>3, <2>1, <3>1
    <3>3. Part(r)[q] = Part(q)[q]
      BY <2>2, <3>1, <3>2, SumsBelowAgree
    <3>4. Part(r)[r] = f[SumFirst(r)] + Part(r)[q]
      BY <2>2, <2>4 DEF SumsBelow
    <3>5. g[r] = f[SumFirst(r)] + Part(q)[q]
      BY <2>1, <2>4
    <3> QED
      BY <3>3, <3>4, <3>5
  <2> QED
    BY <2>3, <2>4
<1>5. SumsBelow(f, u, g)
  BY <1>4 DEF SumsBelow
<1> HIDE DEF g
<1>6. SumsBelow(f, u, PartialSums(f, u))
  BY <1>5 DEF PartialSums
<1> QED
  BY <1>6

\* The sum is its recursive definition.
LEMMA SumStep ==
  ASSUME NEW f, NEW S, IsFiniteSet(S)
  PROVE  SumFunctionOnSet(f, S) = IF S = {} THEN 0 ELSE f[SumFirst(S)] + SumFunctionOnSet(f, SumRest(S))
<1>1. SumFunctionOnSet(f, S) = PartialSums(f, S)[S] /\ SumsBelow(f, S, PartialSums(f, S))
  BY SumDef, SumsBelowExist
<1>2. CASE S = {}
  BY <1>1, <1>2 DEF SumsBelow
<1>3. CASE S # {}
  <2> DEFINE r == SumRest(S)
  <2>1. r \in SUBSET S /\ IsFiniteSet(r)
    BY <1>3, RestSmaller, FS_Subset
  <2>2. SumFunctionOnSet(f, r) = PartialSums(f, r)[r] /\ SumsBelow(f, r, PartialSums(f, r))
    BY <2>1, SumDef, SumsBelowExist
  <2>3. PartialSums(f, S)[r] = PartialSums(f, r)[r]
    BY <1>1, <2>1, <2>2, SumsBelowAgree
  <2>4. PartialSums(f, S)[S] = f[SumFirst(S)] + PartialSums(f, S)[r]
    BY <1>1, <1>3 DEF SumsBelow
  <2> QED
    BY <1>1, <1>3, <2>2, <2>3, <2>4
<1> QED
  BY <1>2, <1>3

\* A sum of naturals is a natural.
LEMMA SumNat ==
  ASSUME NEW f, NEW S, IsFiniteSet(S), \A x \in S : f[x] \in Nat
  PROVE  SumFunctionOnSet(f, S) \in Nat
<1> DEFINE T == {s \in SUBSET S : SumFunctionOnSet(f, s) \notin Nat}
<1> SUFFICES ASSUME T # {} PROVE FALSE
  OBVIOUS
<1>1. PICK u \in T : \A v \in T : v \subseteq u => v = u
  <2>1. T \in SUBSET SUBSET S
    OBVIOUS
  <2> HIDE DEF T
  <2> QED
    BY <2>1, SmallestSubset
<1>2. IsFiniteSet(u)
  BY FS_Subset
<1>3. SumFunctionOnSet(f, u) = IF u = {} THEN 0 ELSE f[SumFirst(u)] + SumFunctionOnSet(f, SumRest(u))
  BY <1>2, SumStep
<1>4. u # {} /\ SumFunctionOnSet(f, u) \notin Nat
  BY <1>3
<1>5. SumFirst(u) \in S /\ SumRest(u) \in SUBSET S /\ SumRest(u) \notin T
  BY <1>1, <1>4, RestSmaller
<1>6. SumFunctionOnSet(f, SumRest(u)) \in Nat
  BY <1>5
<1> QED
  BY <1>3, <1>4, <1>5, <1>6

\* Any element can be taken out of the sum first.
LEMMA SumRemove ==
  ASSUME NEW f, NEW S, IsFiniteSet(S), \A z \in S : f[z] \in Nat, NEW x \in S
  PROVE  SumFunctionOnSet(f, S) = f[x] + SumFunctionOnSet(f, S \ {x})
<1> DEFINE T == {s \in SUBSET S : \E z \in s : SumFunctionOnSet(f, s) # f[z] + SumFunctionOnSet(f, s \ {z})}
<1> SUFFICES ASSUME T # {} PROVE FALSE
  OBVIOUS
<1>1. PICK u \in T : \A v \in T : v \subseteq u => v = u
  <2>1. T \in SUBSET SUBSET S
    OBVIOUS
  <2> HIDE DEF T
  <2> QED
    BY <2>1, SmallestSubset
<1>2. PICK z \in u : SumFunctionOnSet(f, u) # f[z] + SumFunctionOnSet(f, u \ {z})
  OBVIOUS
<1> DEFINE y == SumFirst(u)
<1>3. IsFiniteSet(u) /\ u \in SUBSET S /\ y \in u /\ SumRest(u) = u \ {y}
  BY FS_Subset, RestSmaller DEF SumRest
<1>4. SumFunctionOnSet(f, u) = f[y] + SumFunctionOnSet(f, u \ {y})
  BY <1>3, SumStep
<1>5. z # y
  BY <1>2, <1>4
<1> HIDE DEF y
<1>6. SumFunctionOnSet(f, u \ {y}) = f[z] + SumFunctionOnSet(f, (u \ {y}) \ {z})
  <2>1. u \ {y} \notin T
    BY <1>1, <1>3
  <2>2. u \ {y} \in SUBSET S /\ z \in u \ {y}
    BY <1>3, <1>5
  <2> QED
    BY <2>1, <2>2
<1>7. SumFunctionOnSet(f, u \ {z}) = f[y] + SumFunctionOnSet(f, (u \ {z}) \ {y})
  <2>1. u \ {z} \notin T
    BY <1>1
  <2>2. u \ {z} \in SUBSET S /\ y \in u \ {z}
    BY <1>3, <1>5
  <2> QED
    BY <2>1, <2>2
<1> DEFINE r == (u \ {z}) \ {y}
<1>8. r = (u \ {y}) \ {z}
  OBVIOUS
<1>9. f[y] \in Nat /\ f[z] \in Nat /\ SumFunctionOnSet(f, r) \in Nat
  <2>1. IsFiniteSet(r) /\ \A q \in r : f[q] \in Nat
    BY <1>3, FS_Subset
  <2> HIDE DEF r
  <2>2. SumFunctionOnSet(f, r) \in Nat
    BY <2>1, SumNat
  <2> QED
    BY <1>3, <2>2
<1> HIDE DEF r
<1> QED
  BY <1>2, <1>4, <1>6, <1>7, <1>8, <1>9 DEF r

\* Equal summands give equal sums.
LEMMA SumAgree ==
  ASSUME NEW f, NEW g, NEW S, IsFiniteSet(S), \A x \in S : f[x] = g[x]
  PROVE  SumFunctionOnSet(f, S) = SumFunctionOnSet(g, S)
<1> DEFINE T == {s \in SUBSET S : SumFunctionOnSet(f, s) # SumFunctionOnSet(g, s)}
<1> SUFFICES ASSUME T # {} PROVE FALSE
  OBVIOUS
<1>1. PICK u \in T : \A v \in T : v \subseteq u => v = u
  <2>1. T \in SUBSET SUBSET S
    OBVIOUS
  <2> HIDE DEF T
  <2> QED
    BY <2>1, SmallestSubset
<1>2. /\ SumFunctionOnSet(f, u) = IF u = {} THEN 0 ELSE f[SumFirst(u)] + SumFunctionOnSet(f, SumRest(u))
      /\ SumFunctionOnSet(g, u) = IF u = {} THEN 0 ELSE g[SumFirst(u)] + SumFunctionOnSet(g, SumRest(u))
  BY FS_Subset, SumStep
<1>3. u # {} /\ SumFunctionOnSet(f, u) # SumFunctionOnSet(g, u)
  BY <1>2
<1>4. SumFirst(u) \in S /\ SumRest(u) \in SUBSET S /\ SumRest(u) \notin T
  BY <1>1, <1>3, RestSmaller
<1>5. f[SumFirst(u)] = g[SumFirst(u)] /\ SumFunctionOnSet(f, SumRest(u)) = SumFunctionOnSet(g, SumRest(u))
  BY <1>4
<1> QED
  BY <1>2, <1>3, <1>5

\* A smaller set has no larger sum.
LEMMA SumMonotone ==
  ASSUME NEW f, NEW S, IsFiniteSet(S), \A x \in S : f[x] \in Nat, NEW R \in SUBSET S
  PROVE  SumFunctionOnSet(f, R) <= SumFunctionOnSet(f, S)
<1> DEFINE T == {s \in SUBSET S : R \subseteq s /\ ~(SumFunctionOnSet(f, R) <= SumFunctionOnSet(f, s))}
<1> SUFFICES ASSUME T # {} PROVE FALSE
  OBVIOUS
<1>1. PICK u \in T : \A v \in T : v \subseteq u => v = u
  <2>1. T \in SUBSET SUBSET S
    OBVIOUS
  <2> HIDE DEF T
  <2> QED
    BY <2>1, SmallestSubset
<1>2. IsFiniteSet(R) /\ IsFiniteSet(u) /\ u \in SUBSET S /\ R \subseteq u
  BY FS_Subset
<1>3. SumFunctionOnSet(f, R) \in Nat
  BY <1>2, SumNat
<1>4. u # R
  BY <1>3
<1>5. PICK x \in u : x \notin R
  BY <1>2, <1>4
<1>6. SumFunctionOnSet(f, u) = f[x] + SumFunctionOnSet(f, u \ {x})
  BY <1>2, SumRemove
<1>7. u \ {x} \in SUBSET S /\ R \subseteq u \ {x} /\ u \ {x} \notin T
  BY <1>1, <1>2, <1>5
<1>8. SumFunctionOnSet(f, R) <= SumFunctionOnSet(f, u \ {x}) /\ f[x] \in Nat /\ ~(SumFunctionOnSet(f, R) <= SumFunctionOnSet(f, u))
  BY <1>2, <1>7
<1>9. SumFunctionOnSet(f, u \ {x}) \in Nat
  <2> DEFINE w == u \ {x}
  <2>1. IsFiniteSet(w) /\ \A q \in w : f[q] \in Nat
    BY <1>2, FS_Subset
  <2> HIDE DEF w
  <2>2. SumFunctionOnSet(f, w) \in Nat
    BY <2>1, SumNat
  <2> QED
    BY <2>2 DEF w
<1> QED
  BY <1>3, <1>6, <1>8, <1>9

\* A sum over the indices of a family of distinct elements is a sum over the
\* elements.
LEMMA SumInjection ==
  ASSUME NEW f, NEW g, NEW I, IsFiniteSet(I), NEW q,
         \A i \in I : f[i] \in Nat /\ f[i] = g[q[i]],
         \A i, j \in I : q[i] = q[j] => i = j
  PROVE  SumFunctionOnSet(f, I) = SumFunctionOnSet(g, {q[i] : i \in I})
<1> DEFINE Im(s) == {q[i] : i \in s}
           T == {s \in SUBSET I : SumFunctionOnSet(f, s) # SumFunctionOnSet(g, Im(s))}
<1> SUFFICES ASSUME T # {} PROVE FALSE
  OBVIOUS
<1>1. PICK u \in T : \A v \in T : v \subseteq u => v = u
  <2>1. T \in SUBSET SUBSET I
    OBVIOUS
  <2> HIDE DEF T
  <2> QED
    BY <2>1, SmallestSubset
<1>2. IsFiniteSet(u) /\ u \in SUBSET I /\ SumFunctionOnSet(f, u) # SumFunctionOnSet(g, Im(u))
  BY FS_Subset
<1>3. u # {}
  <2>1. Im({}) = {}
    OBVIOUS
  <2>2. SumFunctionOnSet(f, {}) = 0 /\ SumFunctionOnSet(g, {}) = 0
    BY FS_EmptySet, SumStep
  <2> QED
    BY <1>2, <2>1, <2>2
<1>4. PICK i \in u : TRUE
  BY <1>3
<1>5. SumFunctionOnSet(f, u) = f[i] + SumFunctionOnSet(f, u \ {i})
  BY <1>2, SumRemove
<1>6. Im(u) \ {q[i]} = Im(u \ {i})
  <2>1. \A j \in u : q[j] = q[i] => j = i
    BY <1>2
  <2> QED
    BY <2>1
<1>7. SumFunctionOnSet(g, Im(u)) = g[q[i]] + SumFunctionOnSet(g, Im(u) \ {q[i]})
  <2> DEFINE w == Im(u)
  <2> DEFINE h == [j \in u |-> q[j]]
  <2>1. h \in Surjection(u, w)
    BY DEF Surjection
  <2>9. IsFiniteSet(w)
    BY <1>2, <2>1, FS_Surjection
  <2>2. q[i] \in w /\ \A z \in w : g[z] \in Nat
    BY <1>2
  <2> HIDE DEF w
  <2>3. SumFunctionOnSet(g, w) = g[q[i]] + SumFunctionOnSet(g, w \ {q[i]})
    BY <2>9, <2>2, SumRemove
  <2> QED
    BY <2>3 DEF w
<1>8. SumFunctionOnSet(f, u \ {i}) = SumFunctionOnSet(g, Im(u \ {i}))
  BY <1>1, <1>2
<1> QED
  BY <1>2, <1>5, <1>6, <1>7, <1>8

\* The sum over a sequence to which one element is appended.
LEMMA SumAppend ==
  ASSUME NEW f, NEW g, NEW n \in Nat,
         \A i \in 1 .. n : f[i] \in Nat /\ g[i] = f[i],
         g[n + 1] \in Nat
  PROVE  SumFunctionOnSet(g, 1 .. n + 1) = g[n + 1] + SumFunctionOnSet(f, 1 .. n)
<1> DEFINE S == 1 .. n + 1
<1>1. IsFiniteSet(S) /\ IsFiniteSet(1 .. n)
  BY FS_Interval
<1>2. n + 1 \in S /\ S \ {n + 1} = 1 .. n /\ \A i \in S : g[i] \in Nat
  OBVIOUS
<1> HIDE DEF S
<1>3. SumFunctionOnSet(g, S) = g[n + 1] + SumFunctionOnSet(g, S \ {n + 1})
  BY <1>1, <1>2, SumRemove
<1>4. SumFunctionOnSet(g, 1 .. n) = SumFunctionOnSet(f, 1 .. n)
  <2> DEFINE T == 1 .. n
  <2>1. IsFiniteSet(T) /\ \A i \in T : g[i] = f[i]
    BY <1>1
  <2> HIDE DEF T
  <2>2. SumFunctionOnSet(g, T) = SumFunctionOnSet(f, T)
    BY <2>1, SumAgree
  <2> QED
    BY <2>2 DEF T
<1> QED
  BY <1>2, <1>3, <1>4 DEF S

\* The sum over a sequence from which the head is removed.
LEMMA SumTail ==
  ASSUME NEW f, NEW g, NEW n \in Nat \ {0},
         \A i \in 1 .. n : g[i] \in Nat,
         \A i \in 1 .. n - 1 : f[i] = g[i + 1]
  PROVE  SumFunctionOnSet(g, 1 .. n) = g[1] + SumFunctionOnSet(f, 1 .. n - 1)
<1> DEFINE S == 1 .. n
           T == 1 .. n - 1
           q == [i \in T |-> i + 1]
<1>1. IsFiniteSet(S) /\ IsFiniteSet(T)
  BY FS_Interval
<1>2. 1 \in S /\ \A i \in S : g[i] \in Nat
  OBVIOUS
<1>3. S \ {1} = {q[i] : i \in T}
  <2>1. ASSUME NEW j \in S \ {1} PROVE j \in {q[i] : i \in T}
    <3>1. j - 1 \in T /\ q[j - 1] = j
      OBVIOUS
    <3> QED
      BY <3>1
  <2>2. ASSUME NEW i \in T PROVE q[i] \in S \ {1}
    OBVIOUS
  <2> QED
    BY <2>1, <2>2
<1>4. /\ \A i \in T : f[i] \in Nat /\ f[i] = g[q[i]]
      /\ \A i, j \in T : q[i] = q[j] => i = j
  OBVIOUS
<1> HIDE DEF S, T, q
<1>5. SumFunctionOnSet(g, S) = g[1] + SumFunctionOnSet(g, S \ {1})
  BY <1>1, <1>2, SumRemove
<1>6. SumFunctionOnSet(f, T) = SumFunctionOnSet(g, {q[i] : i \in T})
  BY <1>1, <1>4, SumInjection
<1> QED
  BY <1>3, <1>5, <1>6 DEF S, T

-----------------------------------------------------------------------------
(* The byte count                                                          *)

Carrying == Feedback \cup Retrans

\* the processes whose bytes are still counted: those of a block that arrived
\* are subtracted before its process leaves the list
Counted ==
  {p \in Carrying : ~(rx # NoRx /\ rx.ok /\ p = rx.tx.pid)}

BytesCounted == schedBytes = SumFunctionOnSet(tbSize, Counted)

\* the bytes of the PUSCHs on the air
AirBytes == SumFunctionOnSet([i \in DOMAIN air |-> air[i].tb], DOMAIN air)

BytesInv == IF disableHarq THEN schedBytes >= AirBytes ELSE BytesCounted

\* Sizes are naturals and the lists finite: the sums below are defined.
Summable ==
  /\ tbSize \in [Pid -> Nat] /\ schedBytes \in Nat
  /\ IsFiniteSet(Carrying) /\ Carrying \subseteq Pid
  /\ IsFiniteSet(Counted) /\ Counted \subseteq Pid

LEMMA SumsDefined == IInv => Summable
<1> SUFFICES ASSUME IInv PROVE Summable
  OBVIOUS
<1>1. tbSize \in [Pid -> TbSize \cup {0}] /\ schedBytes \in Nat
  BY DEF IInv, TypeOK
<1>2. TbSize \cup {0} \subseteq Nat
  BY UlHarqAssumption
<1>3. tbSize \in [Pid -> Nat]
  BY <1>1, <1>2
<1>4. Carrying \subseteq Pid /\ Counted \subseteq Pid
  BY DEF IInv, ProcessesPartitioned, Carrying, Counted
<1> QED
  BY <1>1, <1>3, <1>4, FS_Subset, UlHarqAssumption DEF Summable

LEMMA SumsDefinedNext == IInv' => Summable'
BY SumsDefined, PTL

\* A step that counts one process less and subtracts its size.
LEMMA Uncount ==
  ASSUME IInv, BytesCounted, NEW p \in Counted, Counted' = Counted \ {p},
         tbSize' = tbSize, schedBytes' = Minus(schedBytes, tbSize[p])
  PROVE  BytesCounted'
<1> DEFINE rest == SumFunctionOnSet(tbSize, Counted \ {p})
<1>1. /\ IsFiniteSet(Counted) /\ \A q \in Counted : tbSize[q] \in Nat
      /\ p \in Pid /\ tbSize[p] \in Nat
  BY SumsDefined DEF Summable
<1>2. schedBytes = tbSize[p] + rest
  BY <1>1, SumRemove DEF BytesCounted
<1>3. rest \in Nat
  <2> DEFINE S == Counted \ {p}
  <2>1. IsFiniteSet(S) /\ \A q \in S : tbSize[q] \in Nat
    BY <1>1, FS_Subset
  <2> HIDE DEF S
  <2>2. SumFunctionOnSet(tbSize, S) \in Nat
    BY <2>1, SumNat
  <2> QED
    BY <2>2 DEF S
<1> HIDE DEF rest
<1>4. schedBytes' = rest
  BY <1>1, <1>2, <1>3 DEF Minus
<1> QED
  BY <1>4 DEF BytesCounted, rest

\* A step that moves no counted process.
LEMMA SameCount ==
  ASSUME BytesCounted, Counted' = Counted, tbSize' = tbSize, schedBytes' = schedBytes
  PROVE  BytesCounted'
BY DEF BytesCounted

\* New data adds its process and its bytes.
LEMMA ScheduleNewBytes ==
  ASSUME IInv, IInv', BytesCounted, NEW tb \in TbSize, ScheduleNew(tb)
  PROVE  BytesCounted'
<1> DEFINE p == Head(available)
<1>1. /\ p \in Pid /\ p \notin Feedback /\ p \notin Retrans
      /\ Feedback' = Feedback \cup {p} /\ Retrans' = Retrans
  BY ScheduleNewLists
<1>2. /\ rx = NoRx /\ rx' = NoRx /\ tbSize' = [tbSize EXCEPT ![p] = tb]
      /\ schedBytes' = schedBytes + tb
  BY DEF ScheduleNew, Granting
<1> HIDE DEF p
<1>3. Counted' = Counted \cup {p} /\ p \notin Counted
  BY <1>1, <1>2 DEF Counted, Carrying
<1>4. /\ IsFiniteSet(Counted') /\ \A q \in Counted' : tbSize'[q] \in Nat
      /\ IsFiniteSet(Counted)
  <2>1. /\ tbSize' \in [Pid -> Nat] /\ IsFiniteSet(Counted') /\ Counted' \subseteq Pid
    BY SumsDefinedNext DEF Summable
  <2> QED
    BY <2>1, SumsDefined DEF Summable
<1>5. SumFunctionOnSet(tbSize', Counted') = tbSize'[p] + SumFunctionOnSet(tbSize', Counted)
  <2> DEFINE S == Counted'
             f == tbSize'
  <2>1. IsFiniteSet(S) /\ (\A q \in S : f[q] \in Nat) /\ p \in S /\ S \ {p} = Counted
    BY <1>3, <1>4
  <2> HIDE DEF S, f
  <2>2. SumFunctionOnSet(f, S) = f[p] + SumFunctionOnSet(f, Counted)
    BY <2>1, SumRemove
  <2> QED
    BY <2>2 DEF S, f
<1>6. SumFunctionOnSet(tbSize', Counted) = SumFunctionOnSet(tbSize, Counted)
  <2> DEFINE f == tbSize'
  <2>1. \A q \in Counted : f[q] = tbSize[q]
    BY <1>2, <1>3 DEF IInv, TypeOK
  <2> HIDE DEF f
  <2>2. SumFunctionOnSet(f, Counted) = SumFunctionOnSet(tbSize, Counted)
    BY <1>4, <2>1, SumAgree
  <2> QED
    BY <2>2 DEF f
<1>7. tbSize'[p] = tb
  BY <1>1, <1>2 DEF IInv, TypeOK
<1>8. schedBytes \in Nat /\ tb \in Nat
  BY UlHarqAssumption DEF IInv, TypeOK
<1> QED
  BY <1>2, <1>5, <1>6, <1>7, <1>8 DEF BytesCounted

\* A report that a block arrived takes its bytes off the count.
LEMMA RxSduBytes ==
  ASSUME IInv, BytesCounted, ReportsInOrder, ~disableHarq,
         NEW ok \in BOOLEAN, NEW loud \in BOOLEAN, RxSdu(ok, loud)
  PROVE  BytesCounted'
<1> DEFINE tx == Head(air)
<1>1. /\ rx = NoRx /\ rx' = [tx |-> tx, ok |-> ok] /\ air # <<>>
      /\ schedBytes' = IF ok THEN Minus(schedBytes, tx.tb) ELSE schedBytes
      /\ tbSize' = tbSize /\ Carrying' = Carrying
  BY DEF RxSdu, lists, procs, Carrying, Feedback, Retrans
<1>2. tx.pid \in Feedback /\ tx.tb = tbSize[tx.pid]
  <2>1. air \in Seq(Pusch)
    BY DEF IInv, TypeOK
  <2>2. 1 \in DOMAIN air /\ tx = air[1]
    BY <1>1, <2>1
  <2> QED
    BY <2>2 DEF ReportsInOrder, AirMatches, Matches
<1> HIDE DEF tx
<1>3. CASE ok
  <2>1. rx' # NoRx /\ rx'.ok /\ rx'.tx.pid = tx.pid
    BY <1>1, <1>3 DEF NoRx
  <2>2. Counted' = Counted \ {tx.pid} /\ tx.pid \in Counted
    BY <1>1, <1>2, <2>1 DEF Counted, Carrying
  <2>3. schedBytes' = Minus(schedBytes, tbSize[tx.pid])
    BY <1>1, <1>2, <1>3
  <2> QED
    BY <1>1, <2>2, <2>3, Uncount
<1>4. CASE ~ok
  <2>1. ~rx'.ok
    BY <1>1, <1>4
  <2>2. Counted' = Counted
    BY <1>1, <2>1 DEF Counted
  <2> QED
    BY <1>1, <1>4, <2>2, SameCount
<1> QED
  BY <1>3, <1>4

\* Handling a report: a block given up takes its bytes off the count, one
\* that arrived was already taken off.
LEMMA HandlingBytes ==
  ASSUME IInv, BytesCounted, FlushOne \/ HandleCrc
  PROVE  BytesCounted'
<1> DEFINE p == Head(feedback)
<1>1. /\ p \in Pid /\ p \in Feedback /\ p \notin Retrans /\ Feedback' = Feedback \ {p}
      /\ tbSize' = tbSize /\ rx # NoRx
      /\ \/ /\ rx.ok /\ p = rx.tx.pid /\ rx' = NoRx
            /\ UNCHANGED <<retrans, schedBytes>>
         \/ /\ \/ p # rx.tx.pid /\ rx' = rx
               \/ p = rx.tx.pid /\ ~rx.ok /\ rx' = NoRx
            /\ \/ AbortUlHarq(p) /\ UNCHANGED retrans
               \/ Nacked
  <2>1. TakeFirst /\ tbSize' = tbSize
    BY HandlingCases DEF TakeFirst
  <2> QED
    BY <2>1, HandlingCases, TakeFirstLists
<1>2. CASE rx.ok /\ p = rx.tx.pid /\ rx' = NoRx /\ UNCHANGED <<retrans, schedBytes>>
  <2>1. Retrans' = Retrans
    BY <1>2 DEF Retrans
  <2> HIDE DEF p
  <2>2. Counted' = Counted
    BY <1>1, <1>2, <2>1 DEF Counted, Carrying
  <2> QED
    BY <1>1, <1>2, <2>2, SameCount
<1>3. ASSUME \/ p # rx.tx.pid /\ rx' = rx
             \/ p = rx.tx.pid /\ ~rx.ok /\ rx' = NoRx
      PROVE  /\ p \in Counted
             /\ Carrying' = Carrying => Counted' = Counted
             /\ Carrying' = Carrying \ {p} => Counted' = Counted \ {p}
  <2> HIDE DEF p
  <2> QED
    BY <1>1, <1>3 DEF Counted, Carrying
<1>4. CASE /\ \/ p # rx.tx.pid /\ rx' = rx
              \/ p = rx.tx.pid /\ ~rx.ok /\ rx' = NoRx
           /\ AbortUlHarq(p) /\ UNCHANGED retrans
  <2>1. Retrans' = Retrans /\ schedBytes' = Minus(schedBytes, tbSize[p])
    BY <1>4 DEF Retrans, AbortUlHarq
  <2> HIDE DEF p
  <2>2. Carrying' = Carrying \ {p}
    BY <1>1, <2>1 DEF Carrying
  <2> QED
    BY <1>1, <1>3, <1>4, <2>1, <2>2, Uncount
<1>5. CASE /\ \/ p # rx.tx.pid /\ rx' = rx
              \/ p = rx.tx.pid /\ ~rx.ok /\ rx' = NoRx
           /\ Nacked
  <2>1. Retrans' = Retrans \cup {p} /\ schedBytes' = schedBytes
    BY <1>5, NackedLists DEF Nacked
  <2> HIDE DEF p
  <2>2. Carrying' = Carrying
    BY <1>1, <2>1 DEF Carrying
  <2> QED
    BY <1>1, <1>3, <1>5, <2>1, <2>2, SameCount
<1> QED
  BY <1>1, <1>2, <1>4, <1>5

\* The bytes on the air are a natural number.
AirSummable ==
  /\ air \in Seq(Pusch) /\ IsFiniteSet(DOMAIN air)
  /\ \A i \in DOMAIN air : air[i].tb \in Nat /\ air[i].pid \in Pid
  /\ AirBytes \in Nat

LEMMA AirBytesNat == IInv => AirSummable
<1> SUFFICES ASSUME IInv PROVE AirSummable
  OBVIOUS
<1> DEFINE f == [i \in DOMAIN air |-> air[i].tb]
<1>1. air \in Seq(Pusch)
  BY DEF IInv, TypeOK
<1>2. IsFiniteSet(DOMAIN air)
  <2>1. DOMAIN air = 1 .. Len(air) /\ Len(air) \in Int
    BY <1>1
  <2> QED
    BY <2>1, FS_Interval
<1>3. \A i \in DOMAIN air : air[i].tb \in Nat /\ air[i].pid \in Pid
  <2>1. \A i \in DOMAIN air : air[i] \in Pusch
    BY <1>1
  <2> QED
    BY <2>1, UlHarqAssumption DEF Pusch
<1>4. \A i \in DOMAIN air : f[i] \in Nat
  BY <1>3
<1> HIDE DEF f
<1>5. SumFunctionOnSet(f, DOMAIN air) \in Nat
  BY <1>2, <1>4, SumNat
<1> QED
  BY <1>1, <1>2, <1>3, <1>5 DEF f, AirBytes, AirSummable

LEMMA AirBytesNatNext == IInv' => AirSummable'
BY AirBytesNat, PTL

\* A grant adds its block to the air.
LEMMA GrantAirBytes ==
  ASSUME IInv, NEW p \in Pid, NEW tb \in TbSize, NEW bit, Grant(p, tb, bit)
  PROVE  AirBytes' = tb + AirBytes
<1> DEFINE f == [i \in DOMAIN air |-> air[i].tb]
           g == [i \in DOMAIN air' |-> air'[i].tb]
           n == Len(air)
           tx == [pid |-> p, ndi |-> bit, round |-> round[p], tb |-> tb]
<1>1. air \in Seq(Pusch) /\ \A i \in DOMAIN air : air[i].tb \in Nat
  BY AirBytesNat DEF AirSummable
<1>2. /\ n \in Nat /\ DOMAIN air = 1 .. n /\ DOMAIN air' = 1 .. n + 1
      /\ \A i \in 1 .. n : air'[i] = air[i]
      /\ air'[n + 1] = tx
  BY <1>1 DEF Grant
<1>3. (\A i \in 1 .. n : f[i] \in Nat /\ g[i] = f[i]) /\ g[n + 1] = tb /\ tb \in Nat
  BY <1>1, <1>2, UlHarqAssumption
<1> HIDE DEF f, g, n
<1>4. SumFunctionOnSet(g, 1 .. n + 1) = g[n + 1] + SumFunctionOnSet(f, 1 .. n)
  BY <1>2, <1>3, SumAppend
<1> QED
  BY <1>2, <1>3, <1>4 DEF f, g, AirBytes

\* A report, or its loss, takes the oldest block off the air.
LEMMA TailAirBytes ==
  ASSUME IInv, IInv', air # <<>>, air' = Tail(air)
  PROVE  /\ AirBytes = Head(air).tb + AirBytes'
         /\ Head(air).tb \in Nat /\ AirBytes' \in Nat
<1> DEFINE f == [i \in DOMAIN air' |-> air'[i].tb]
           g == [i \in DOMAIN air |-> air[i].tb]
           n == Len(air)
<1>1. air \in Seq(Pusch) /\ \A i \in DOMAIN air : air[i].tb \in Nat
  BY AirBytesNat DEF AirSummable
<1>2. /\ n \in Nat \ {0} /\ DOMAIN air = 1 .. n /\ DOMAIN air' = 1 .. n - 1
      /\ \A i \in 1 .. n - 1 : air'[i] = air[i + 1]
      /\ Head(air) = air[1]
  BY <1>1
<1>3. (\A i \in 1 .. n : g[i] \in Nat) /\ g[1] = Head(air).tb
  BY <1>1, <1>2
<1>4. \A i \in 1 .. n - 1 : f[i] = g[i + 1]
  BY <1>2
<1>5. AirBytes' = SumFunctionOnSet(f, 1 .. n - 1) /\ AirBytes = SumFunctionOnSet(g, 1 .. n)
  BY <1>2 DEF AirBytes
<1>6. 1 \in 1 .. n
  BY <1>2
<1> HIDE DEF f, g, n
<1>7. SumFunctionOnSet(g, 1 .. n) = g[1] + SumFunctionOnSet(f, 1 .. n - 1)
  BY <1>2, <1>3, <1>4, SumTail
<1>8. AirBytes' \in Nat
  BY AirBytesNatNext DEF AirSummable
<1> QED
  BY <1>3, <1>5, <1>6, <1>7, <1>8

\* With HARQ disabled the count never falls below what is on the air.
LEMMA NoHarqBytes ==
  ASSUME IInv, IInv', disableHarq, NothingWaits, schedBytes >= AirBytes, [Next]_vars,
         ~MayReaccess
  PROVE  (schedBytes >= AirBytes)'
<1>1. schedBytes \in Nat /\ AirBytes \in Nat
  BY AirBytesNat DEF IInv, TypeOK, AirSummable
<1>2. ASSUME NEW tb \in TbSize, ScheduleNewNoHarq(tb) PROVE (schedBytes >= AirBytes)'
  <2> DEFINE p == Head(available)
  <2>1. p \in Pid /\ schedBytes' = schedBytes + tb /\ Grant(p, tb, ndi'[p])
    BY <1>2, ScheduleNewNoHarqLists
       DEF ScheduleNewNoHarq, GrantNoHarq, IInv, ProcessesPartitioned
  <2> HIDE DEF p
  <2>2. AirBytes' = tb + AirBytes /\ tb \in Nat
    BY <2>1, GrantAirBytes, UlHarqAssumption
  <2> QED
    BY <1>1, <2>1, <2>2
<1>3. ASSUME NEW ok \in BOOLEAN, NEW loud \in BOOLEAN, RxSdu(ok, loud)
      PROVE  (schedBytes >= AirBytes)'
  <2>1. /\ air # <<>> /\ air' = Tail(air)
        /\ schedBytes' = IF ok THEN Minus(schedBytes, Head(air).tb) ELSE schedBytes
    BY <1>3 DEF RxSdu
  <2>2. /\ AirBytes = Head(air).tb + AirBytes'
        /\ Head(air).tb \in Nat /\ AirBytes' \in Nat
    BY <2>1, TailAirBytes
  <2> QED
    BY <1>1, <2>1, <2>2 DEF Minus
<1>4. CASE LoseCrc
  <2>1. air # <<>> /\ air' = Tail(air) /\ schedBytes' = schedBytes
    BY <1>4 DEF LoseCrc
  <2>2. /\ AirBytes = Head(air).tb + AirBytes'
        /\ Head(air).tb \in Nat /\ AirBytes' \in Nat
    BY <2>1, TailAirBytes
  <2> QED
    BY <1>1, <2>1, <2>2
<1>5. CASE UNCHANGED vars
  BY <1>5 DEF vars, AirBytes
<1>6. /\ \A tb \in TbSize : ~ScheduleNew(tb)
      /\ ~ScheduleRetx /\ ~FlushOne /\ ~DropIndication /\ ~HandleCrc /\ ~Reaccess
  BY DEF ScheduleNew, ScheduleRetx, FlushOne, DropIndication, HandleCrc, Reaccess, NothingWaits
<1> QED
  BY <1>2, <1>3, <1>4, <1>5, <1>6 DEF Next

\* Every step but the return of the UE keeps the count right.
LEMMA NextBytesInv ==
  ASSUME ~MayReaccess
  PROVE  IInv /\ IInv' /\ OrderInv /\ OrderInv' /\ BytesInv /\ [Next]_vars => BytesInv'
<1> SUFFICES ASSUME IInv, IInv', OrderInv, OrderInv', BytesInv, [Next]_vars PROVE BytesInv'
  OBVIOUS
<1>1. disableHarq' = disableHarq
  BY DEF Next, ScheduleNew, ScheduleNewNoHarq, GrantNoHarq, ScheduleRetx, RxSdu, FlushOne,
     DropIndication, HandleCrc, LoseCrc, Reaccess, vars
<1>2. CASE disableHarq
  BY <1>1, <1>2, NoHarqBytes DEF OrderInv, BytesInv
<1>3. CASE ~disableHarq
  <2>1. ReportsInOrder /\ BytesCounted /\ ~disableHarq'
    BY <1>1, <1>3 DEF OrderInv, BytesInv
  <2> SUFFICES BytesCounted'
    BY <2>1 DEF BytesInv
  <2>2. ASSUME NEW tb \in TbSize, ScheduleNew(tb) PROVE BytesCounted'
    BY <2>1, <2>2, ScheduleNewBytes
  <2>3. CASE ScheduleRetx
    <3> DEFINE p == Head(retrans)
    <3>1. p \in Retrans /\ Retrans' = Retrans \ {p} /\ Feedback' = Feedback \cup {p}
      BY <2>3, ScheduleRetxLists
    <3>2. rx' = rx /\ tbSize' = tbSize /\ schedBytes' = schedBytes
      BY <2>3 DEF ScheduleRetx
    <3> HIDE DEF p
    <3>3. Counted' = Counted
      BY <3>1, <3>2 DEF Counted, Carrying
    <3> QED
      BY <2>1, <3>2, <3>3, SameCount
  <2>4. ASSUME NEW ok \in BOOLEAN, NEW loud \in BOOLEAN, RxSdu(ok, loud)
        PROVE  BytesCounted'
    BY <1>3, <2>1, <2>4, RxSduBytes
  <2>5. CASE FlushOne \/ HandleCrc
    BY <2>1, <2>5, HandlingBytes
  <2>6. CASE DropIndication
    <3>1. rx # NoRx /\ Feedback = {}
      BY <2>6 DEF DropIndication, Feedback, Range
    <3> QED
      BY <2>1, <3>1 DEF ReportsInOrder, RxFirst, Matches
  <2>7. CASE LoseCrc \/ UNCHANGED vars
    <3>1. UNCHANGED lists /\ UNCHANGED procs /\ rx' = rx /\ schedBytes' = schedBytes
      BY <2>7 DEF LoseCrc, vars
    <3>2. Counted' = Counted /\ tbSize' = tbSize
      BY <3>1 DEF lists, procs, Counted, Carrying, Feedback, Retrans
    <3> QED
      BY <2>1, <3>1, <3>2, SameCount
  <2>8. ASSUME NEW tb \in TbSize, ScheduleNewNoHarq(tb) PROVE FALSE
    BY <1>3, <2>8 DEF ScheduleNewNoHarq, GrantNoHarq
  <2>9. ~Reaccess
    BY DEF Reaccess
  <2> QED
    BY <2>2, <2>3, <2>4, <2>5, <2>6, <2>7, <2>8, <2>9 DEF Next
<1> QED
  BY <1>2, <1>3

LEMMA InitBytesInv == Init => BytesInv
<1> SUFFICES ASSUME Init PROVE BytesInv
  OBVIOUS
<1>1. /\ feedback = <<>> /\ retrans = <<>> /\ air = <<>> /\ schedBytes = 0
  BY DEF Init
<1>2. Counted = {} /\ DOMAIN air = {}
  BY <1>1 DEF Counted, Carrying, Feedback, Retrans, Range
<1>3. \A f : SumFunctionOnSet(f, {}) = 0
  BY FS_EmptySet, SumStep
<1>4. AirBytes = 0
  BY <1>2, <1>3 DEF AirBytes
<1> QED
  BY <1>1, <1>2, <1>3, <1>4 DEF BytesInv, BytesCounted

\* The invariants say what is still to come.
LEMMA CountedIsPending == IInv /\ OrderInv /\ BytesInv => BytesMatchPending
<1> SUFFICES ASSUME IInv, BytesInv, ~disableHarq, rx = NoRx PROVE schedBytes = PendingBytes
  BY DEF BytesMatchPending
<1>1. Counted = Feedback \cup Retrans
  BY DEF Counted, Carrying
<1>2. [p \in Pid |-> tbSize[p]] = tbSize
  BY DEF IInv, TypeOK
<1> QED
  BY <1>1, <1>2 DEF BytesInv, BytesCounted, PendingBytes

\* Blocks on the air are of different processes, all of them counted.
LEMMA CountedCoversAir == IInv /\ OrderInv /\ BytesInv => BytesCoverAir
<1> SUFFICES ASSUME IInv, OrderInv, BytesInv PROVE schedBytes >= AirBytes
  BY DEF BytesCoverAir, AirBytes
<1>1. CASE disableHarq
  BY <1>1 DEF BytesInv
<1>2. CASE ~disableHarq
  <2>1. ReportsInOrder /\ BytesCounted
    BY <1>2 DEF OrderInv, BytesInv
  <2>2. \A p, q : Precedes(feedback, p, q) => p # q
    <3>1. \A m, n \in DOMAIN feedback : feedback[m] = feedback[n] => m = n
      BY DEF IInv, ProcessesPartitioned, NoDuplicates, IsInjective
    <3>2. DOMAIN feedback \subseteq Int
      BY DEF IInv, TypeOK
    <3> QED
      BY <3>1, <3>2 DEF Precedes
  <2> DEFINE f == [i \in DOMAIN air |-> air[i].tb]
             q == [i \in DOMAIN air |-> air[i].pid]
             Aired == {q[i] : i \in DOMAIN air}
  <2>3. /\ IsFiniteSet(DOMAIN air)
        /\ \A i \in DOMAIN air : f[i] \in Nat /\ f[i] = tbSize[q[i]]
    BY <2>1, AirBytesNat DEF ReportsInOrder, AirMatches, Matches, AirSummable
  <2>4. \A i, j \in DOMAIN air : q[i] = q[j] => i = j
    <3> SUFFICES ASSUME NEW i \in DOMAIN air, NEW j \in DOMAIN air, i # j
                 PROVE  air[i].pid # air[j].pid
      OBVIOUS
    <3>1. i < j \/ j < i
      BY AirBytesNat DEF AirSummable
    <3> QED
      BY <2>1, <2>2, <3>1 DEF ReportsInOrder, AirInOrder
  <2>5. Aired \subseteq Counted
    <3> SUFFICES ASSUME NEW i \in DOMAIN air PROVE air[i].pid \in Counted
      OBVIOUS
    <3>1. air[i].pid \in Carrying
      BY <2>1 DEF ReportsInOrder, AirMatches, Matches, Carrying
    <3>2. rx # NoRx => air[i].pid # rx.tx.pid
      BY <2>1, <2>2 DEF ReportsInOrder, RxFirst
    <3> QED
      BY <3>1, <3>2 DEF Counted
  <2>6. AirBytes = SumFunctionOnSet(f, DOMAIN air)
    BY DEF AirBytes
  <2> HIDE DEF f, q
  <2>7. SumFunctionOnSet(f, DOMAIN air) = SumFunctionOnSet(tbSize, Aired)
    BY <2>3, <2>4, SumInjection
  <2>8. IsFiniteSet(Counted) /\ \A p \in Counted : tbSize[p] \in Nat
    BY SumsDefined DEF Summable
  <2> HIDE DEF Aired
  <2>9. SumFunctionOnSet(tbSize, Aired) <= SumFunctionOnSet(tbSize, Counted)
    BY <2>5, <2>8, SumMonotone
  <2>10. schedBytes \in Nat /\ AirBytes \in Nat
    BY AirBytesNat DEF IInv, TypeOK, AirSummable
  <2> QED
    BY <2>1, <2>6, <2>7, <2>9, <2>10 DEF BytesCounted, Aired
<1> QED
  BY <1>1, <1>2

\* sched_ul_bytes is what the pending transport blocks will bring.
THEOREM UlHarqBytesPending ==
  ASSUME ~MayReaccess
  PROVE  Spec => []BytesMatchPending
<1>1. IInv /\ OrderInv /\ [Next]_vars => OrderInv'
  BY NextOrderInv
<1>2. IInv /\ IInv' /\ OrderInv /\ OrderInv' /\ BytesInv /\ [Next]_vars => BytesInv'
  BY NextBytesInv
<1> QED
  BY <1>1, <1>2, InitIInv, NextIInv, InitOrderInv, InitBytesInv, CountedIsPending, PTL DEF Spec

\* It covers every block on the air, with HARQ disabled too.
THEOREM UlHarqBytesCoverAir ==
  ASSUME ~MayReaccess
  PROVE  Spec => []BytesCoverAir
<1>1. IInv /\ OrderInv /\ [Next]_vars => OrderInv'
  BY NextOrderInv
<1>2. IInv /\ IInv' /\ OrderInv /\ OrderInv' /\ BytesInv /\ [Next]_vars => BytesInv'
  BY NextBytesInv
<1> QED
  BY <1>1, <1>2, InitIInv, NextIInv, InitOrderInv, InitBytesInv, CountedCoversAir, PTL DEF Spec
=============================================================================
