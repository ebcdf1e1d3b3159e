---------------------------- MODULE UlPassProofs ----------------------------
(***************************************************************************)
(* Proofs about UlPass for any number of UEs, blocks and DCIs and any      *)
(* postures and policies.  All three ways to grant end in Signal, so what  *)
(* a grant does to the block map, to the list of grants and to the runtime *)
(* table is proved once; the steps of Next only have to show that their    *)
(* grant may be signalled.                                                 *)
(***************************************************************************)
EXTENDS UlPass, FiniteSetTheorems, TLAPS

USE UlPassAssumption

(***************************************************************************)
(* Turns: the UEs granted or collected are behind the one being visited,   *)
(* a candidate waits for no retransmission and is not granted yet.         *)
(***************************************************************************)
Turns ==
  /\ \A i \in 1..Len(grants) : grants[i].ue < visit
  /\ \A c \in cands : c.ue < visit /\ ~Granted(c.ue) /\ retx[c.ue] = 0
  /\ \A c, d \in cands : c.ue = d.ue => c = d

IInv ==
  /\ TypeOK
  /\ Turns
  /\ remain >= 0
  /\ DciLimit
  /\ OneGrantRetxFirst
  /\ GrantsInBwp

\* A grant that may be signalled: its UE had none, fits, and waits for no
\* retransmission if the grant is for new data.
MaySignal(g) ==
  /\ g \in Grant
  /\ remain > 0
  /\ g.start + g.size =< BwpSize
  /\ ~Granted(g.ue)
  /\ IsNew(g) => retx[g.ue] = 0

\* NoteGrant keeps the runtime table well typed.
LEMMA NoteType ==
  ASSUME TypeOK, NEW u \in Ue, NoteGrant(u)
  PROVE  last' \in [Ue -> -1..Wrap - 1] /\ run' \in [Ue -> 0..RunMax]
<1>1. CASE UNCHANGED runtime
  BY <1>1 DEF TypeOK, runtime
<1>2. CASE /\ last' = [last EXCEPT ![u] = tick]
           /\ run' = [run EXCEPT ![u] =
                IF last[u] = tick - 1 THEN Smaller(run[u] + 1, RunMax) ELSE 1]
  <2>1. tick \in -1..Wrap - 1
    BY DEF TypeOK
  <2>2. (IF last[u] = tick - 1 THEN Smaller(run[u] + 1, RunMax) ELSE 1) \in 0..RunMax
    BY DEF TypeOK, Smaller
  <2> QED
    BY <1>2, <2>1, <2>2 DEF TypeOK
<1> QED
  BY <1>1, <1>2 DEF NoteGrant

\* The fields of a grant of the pass and of a candidate.
LEMMA GrantFields ==
  ASSUME TypeOK, NEW i \in 1..Len(grants)
  PROVE  /\ grants[i] \in Grant
         /\ grants[i].ue \in Ue /\ grants[i].ue \in Nat
         /\ grants[i].start \in Nat /\ grants[i].size \in Nat \ {0}
<1>1. grants[i] \in Grant
  BY DEF TypeOK
<1>2. grants[i].ue \in Ue /\ grants[i].start \in Nat /\ grants[i].size \in Nat \ {0}
  BY <1>1 DEF Grant
<1>3. grants[i].ue \in Nat
  BY <1>2 DEF Ue
<1> QED
  BY <1>1, <1>2, <1>3

LEMMA CandidateFields ==
  ASSUME TypeOK, NEW c \in cands
  PROVE  c \in Candidate /\ c.ue \in Ue /\ c.ue \in Nat /\ c.inactive \in BOOLEAN
<1>1. c \in Candidate
  BY DEF TypeOK
<1> QED
  BY <1>1 DEF Candidate, Ue

\* The grants after one more is signalled.
LEMMA Appended ==
  ASSUME TypeOK, NEW g \in Grant, Signal(g)
  PROVE  /\ grants' \in Seq(Grant)
         /\ Len(grants') = Len(grants) + 1
         /\ \A i \in 1..Len(grants) : grants'[i] = grants[i]
         /\ grants'[Len(grants) + 1] = g
BY DEF TypeOK, Signal

\* Signalling keeps the counts, the order of turns and the limits of the BWP.
LEMMA SignalKeeps ==
  ASSUME IInv, NEW g, MaySignal(g), Signal(g), retx' = retx
  PROVE  /\ remain' >= 0
         /\ DciLimit'
         /\ OneGrantRetxFirst'
         /\ GrantsInBwp'
<1>1. g \in Grant /\ TypeOK
  BY DEF IInv, MaySignal
<1>2. /\ grants' \in Seq(Grant)
      /\ Len(grants') = Len(grants) + 1
      /\ \A i \in 1..Len(grants) : grants'[i] = grants[i]
      /\ grants'[Len(grants) + 1] = g
  BY <1>1, Appended
<1>3. Len(grants) \in Nat /\ remain \in Int
  BY <1>1 DEF TypeOK
<1>4. remain' = remain - 1
  BY DEF Signal
<1>5. remain' >= 0 /\ DciLimit'
  BY <1>2, <1>3, <1>4 DEF IInv, MaySignal, DciLimit
<1>6. OneGrantRetxFirst'
  <2> SUFFICES ASSUME NEW j \in 1..Len(grants')
               PROVE  /\ IsNew(grants'[j]) => retx[grants'[j].ue] = 0
                      /\ \A i \in 1..j - 1 : grants'[i].ue # grants'[j].ue
    BY DEF OneGrantRetxFirst, IsNew
  <2>1. CASE j \in 1..Len(grants)
    <3>1. /\ IsNew(grants[j]) => retx[grants[j].ue] = 0
          /\ \A i \in 1..j - 1 : grants[i].ue # grants[j].ue
      BY <2>1 DEF IInv, OneGrantRetxFirst
    <3>2. grants'[j] = grants[j] /\ \A i \in 1..j - 1 : grants'[i] = grants[i]
      BY <1>2, <1>3, <2>1
    <3> QED
      BY <3>1, <3>2 DEF IsNew
  <2>2. CASE j = Len(grants) + 1
    <3>1. \A i \in 1..Len(grants) : grants[i].ue # g.ue
      BY DEF MaySignal, Granted
    <3> QED
      <4>1. grants'[j] = g /\ j - 1 = Len(grants)
        BY <1>2, <1>3, <2>2
      <4>2. \A i \in 1..j - 1 : grants'[i] = grants[i]
        BY <1>2, <4>1
      <4>3. \A i \in 1..j - 1 : grants'[i].ue # grants'[j].ue
        BY <3>1, <4>1, <4>2
      <4>4. IsNew(grants'[j]) => retx[grants'[j].ue] = 0
        BY <4>1 DEF MaySignal, IsNew
      <4> QED
        BY <4>3, <4>4
  <2> QED
    BY <1>2, <1>3, <2>1, <2>2
<1>7. GrantsInBwp'
  <2> SUFFICES ASSUME NEW j \in 1..Len(grants')
               PROVE  grants'[j].start + grants'[j].size =< BwpSize
    BY DEF GrantsInBwp
  <2>1. CASE j \in 1..Len(grants)
    BY <1>2, <2>1 DEF IInv, GrantsInBwp
  <2>2. CASE j = Len(grants) + 1
    BY <1>2, <2>2 DEF MaySignal
  <2> QED
    BY <1>2, <1>3, <2>1, <2>2
<1> QED
  BY <1>5, <1>6, <1>7

\* A shaped size is positive and fits into what is available.
LEMMA ShapedFits ==
  ASSUME NEW u \in Ue, NEW available \in Nat, NEW size \in 1..available
  PROVE  Shaped(u, size, available) \in 1..available
BY DEF Shaped, Larger, Smaller

\* What Repeat and RepeatElsewhere signal may be signalled, and the first of
\* its blocks was free.
LEMMA RepeatMay ==
  ASSUME IInv, NEW u \in Ue, Repeat(u) \/ RepeatElsewhere(u)
  PROVE  \E g : /\ MaySignal(g) /\ Signal(g) /\ g.ue = u /\ g.kind = "retx"
                /\ ~Used(g.start)
<1>1. remain > 0 /\ visit = u /\ retx[u] \in Nat /\ retx[u] > 0
  <2>1. retx[u] \in Nat
    <3>1. retx \in [Ue -> RetxSizes \cup {0}]
      BY DEF IInv, TypeOK
    <3>2. RetxSizes \cup {0} \subseteq Nat
      OBVIOUS
    <3> QED
      BY <3>1, <3>2
  <2>2. remain > 0 /\ visit = u /\ retx[u] > 0
    BY DEF Repeat, RepeatElsewhere, Visiting
  <2> QED
    BY <2>1, <2>2
<1>2. ~Granted(u)
  BY <1>1 DEF IInv, Turns, Granted, Ue
<1>3. PICK start \in Span, size \in Nat \ {0} :
        /\ start + size =< BwpSize /\ ~Used(start)
        /\ Signal([ue |-> u, start |-> start, size |-> size, kind |-> "retx"])
  <2>1. CASE Repeat(u)
    <3>1. PICK start \in Span, len \in Span :
            /\ FreeRun(start, len)
            /\ start + retx[u] =< BwpSize
            /\ Signal([ue |-> u, start |-> start, size |-> retx[u], kind |-> "retx"])
      BY <2>1 DEF Repeat
    <3>2. start # BwpSize
      BY <1>1, <3>1, UlPassAssumption DEF Span, UlPassAssumption
    <3>3. ~Used(start)
      BY <3>1, <3>2 DEF FreeRun
    <3> QED
      BY <1>1, <3>1, <3>3
  <2>2. CASE RepeatElsewhere(u)
    <3>1. PICK start \in Span, len \in Span :
            /\ FreeRun(start, len)
            /\ \E size \in 1..len :
                 Signal([ue |-> u, start |-> start, size |-> size, kind |-> "retx"])
      BY <2>2 DEF RepeatElsewhere
    <3>. PICK size \in 1..len :
           Signal([ue |-> u, start |-> start, size |-> size, kind |-> "retx"])
      BY <3>1
    <3>2. start + size =< BwpSize /\ size \in Nat \ {0} /\ start # BwpSize
      BY <3>1, UlPassAssumption DEF FreeRun, Span, UlPassAssumption
    <3>3. ~Used(start)
      BY <3>1, <3>2 DEF FreeRun
    <3> QED
      BY <3>1, <3>2, <3>3
  <2> QED
    BY <2>1, <2>2
<1> DEFINE g == [ue |-> u, start |-> start, size |-> size, kind |-> "retx"]
<1>4. g \in Grant
  BY DEF Grant, Span
<1>5. MaySignal(g)
  BY <1>1, <1>2, <1>3, <1>4 DEF MaySignal, IsNew
<1> QED
  BY <1>3, <1>5

\* What GrantNew signals may be signalled, and its blocks were free.
LEMMA GrantNewMay ==
  ASSUME IInv, NEW c \in cands, GrantNew(c)
  PROVE  \E g : /\ MaySignal(g) /\ Signal(g)
                /\ g.ue = c.ue /\ IsNew(g) /\ (g.kind = "new" => ~c.inactive)
                /\ \A i \in 0..g.size - 1 : ~Used(g.start + i)
                /\ left' = left - g.size
<1>1. c \in Candidate /\ c.ue \in Ue /\ retx[c.ue] = 0 /\ ~Granted(c.ue)
  BY DEF IInv, TypeOK, Turns, Candidate
<1>2. PICK start \in Span, len \in Span :
        /\ FreeRun(start, len)
        /\ HasRoom(c, start, len)
        /\ \E available \in MinRb[c.ue]..Available(c, len) :
             \E need \in MinRb[c.ue]..available :
               LET size == Shaped(c.ue, need, available)
               IN /\ Signal([ue |-> c.ue, start |-> start, size |-> size,
                             kind |-> IF c.inactive THEN "inactive" ELSE "new"])
                  /\ left' = left - size
  BY DEF GrantNew
<1>a. PICK available \in MinRb[c.ue]..Available(c, len) :
             \E need \in MinRb[c.ue]..available :
               LET size == Shaped(c.ue, need, available)
               IN /\ Signal([ue |-> c.ue, start |-> start, size |-> size,
                             kind |-> IF c.inactive THEN "inactive" ELSE "new"])
                  /\ left' = left - size
  BY <1>2
<1>3. PICK need \in MinRb[c.ue]..available :
             /\ Signal([ue |-> c.ue, start |-> start,
                        size |-> Shaped(c.ue, need, available),
                        kind |-> IF c.inactive THEN "inactive" ELSE "new"])
             /\ left' = left - Shaped(c.ue, need, available)
  BY <1>a
<1> DEFINE size == Shaped(c.ue, need, available)
           g == [ue |-> c.ue, start |-> start, size |-> size,
                 kind |-> IF c.inactive THEN "inactive" ELSE "new"]
<1>4. MinRb[c.ue] \in Nat \ {0} /\ len \in Nat
  BY <1>1 DEF Span
<1>5. Available(c, len) \in Nat /\ Available(c, len) =< len
  BY <1>4, <1>2 DEF Available, Smaller, Span
<1>6. available \in Nat /\ available =< len /\ need \in 1..available
  BY <1>a, <1>3, <1>4, <1>5
<1>7. size \in 1..available
  BY <1>1, <1>6, ShapedFits
<1>8. size \in Nat \ {0} /\ start \in Nat /\ start + size =< BwpSize
  BY <1>2, <1>6, <1>7 DEF FreeRun, Span
<1>9. g \in Grant
  <2> HIDE DEF size
  <2> QED
    BY <1>1, <1>8 DEF Grant
<1>10. remain > 0
  BY <1>2 DEF HasRoom, IInv, TypeOK
<1>11. MaySignal(g)
  <2> HIDE DEF size
  <2> QED
    BY <1>1, <1>8, <1>9, <1>10 DEF MaySignal
<1>12. \A i \in 0..size - 1 : ~Used(start + i)
  <2> HIDE DEF size
  <2> QED
    BY <1>2, <1>6, <1>7 DEF FreeRun, Span
<1>13. Signal(g) /\ left' = left - g.size
  BY <1>3
<1>14. IsNew(g) /\ (g.kind = "new" => ~c.inactive) /\ g.ue = c.ue
  BY DEF IsNew
<1> QED
  BY <1>11, <1>12, <1>13, <1>14

(***************************************************************************)
(* The inductive invariant                                                 *)
(***************************************************************************)

LEMMA InitIInv == Init => IInv
<1> SUFFICES ASSUME Init PROVE IInv
  OBVIOUS
<1>1. TypeOK
  BY DEF Init, TypeOK
<1>2. Len(grants) = 0
  BY DEF Init
<1>3. Turns /\ DciLimit /\ OneGrantRetxFirst /\ GrantsInBwp /\ remain >= 0
  BY <1>2 DEF Init, Turns, DciLimit, OneGrantRetxFirst, GrantsInBwp
<1> QED
  BY <1>1, <1>3 DEF IInv

LEMMA BeginIInv ==
  ASSUME IInv, NEW gap \in Gaps, Begin(gap)
  PROVE  IInv'
<1>1. TypeOK'
  <2>1. tick' \in 0..Wrap - 1
    BY DEF IInv, TypeOK, Begin, TickAfter
  <2>2. taken' \subseteq Nat /\ mask' \subseteq Nat
    BY DEF Begin
  <2>3. streak' \in [Ue -> 0..RunMax]
    <3>1. \A u \in Ue : Smaller(streak[u] + 1, RunMax) \in 0..RunMax
      BY DEF IInv, TypeOK, Smaller
    <3> QED
      BY <3>1 DEF Begin
  <2>4. left' \in Int /\ remain' \in Int /\ grants' \in Seq(Grant) /\ visit' \in 1..NumUe + 1
    <3>1. BestLength(taken') \subseteq Int
      BY CarrierAssumption DEF BestLength
    <3> QED
      BY <3>1 DEF Begin
  <2>5. last' \in [Ue -> -1..Wrap - 1] /\ run' \in [Ue -> 0..RunMax]
    BY DEF IInv, TypeOK, Begin, runtime
  <2>6. retx' \in [Ue -> RetxSizes \cup {0}] /\ phase' = "collect" /\ cands' = {}
    BY DEF Begin
  <2> QED
    BY <2>1, <2>2, <2>3, <2>4, <2>5, <2>6 DEF TypeOK
<1>2. Len(grants') = 0 /\ cands' = {} /\ remain' = MaxUe
  BY DEF Begin
<1>3. Turns' /\ DciLimit' /\ OneGrantRetxFirst' /\ GrantsInBwp' /\ remain' >= 0
  BY <1>2 DEF Turns, DciLimit, OneGrantRetxFirst, GrantsInBwp
<1> QED
  BY <1>1, <1>3 DEF IInv

\* The steps that leave the grants alone: a UE is passed over, or collected,
\* or refused, or a loop ends.
LEMMA QuietIInv ==
  ASSUME IInv,
         UNCHANGED <<passVars, mask, left, remain, grants, runtime>>,
         visit' \in visit..NumUe + 1,
         phase' \in {"idle", "collect", "allocate"},
         \A c \in cands' : c \in Candidate /\ c.ue < visit' /\ ~Granted(c.ue) /\ retx[c.ue] = 0,
         \A c, d \in cands' : c.ue = d.ue => c = d
  PROVE  IInv'
<1> USE DEF passVars, runtime
<1>1. TypeOK'
  <2>1. visit' \in 1..NumUe + 1
    BY DEF IInv, TypeOK
  <2> QED
    BY <2>1 DEF IInv, TypeOK
<1>2. Turns'
  <2>1. \A i \in 1..Len(grants) : grants[i].ue < visit'
    <3>1. visit \in Nat /\ visit' \in Nat /\ visit =< visit'
      BY DEF IInv, TypeOK
    <3>2. \A i \in 1..Len(grants) : grants[i].ue \in Nat /\ grants[i].ue < visit
      BY GrantFields DEF IInv, Turns
    <3> QED
      BY <3>1, <3>2
  <2> QED
    BY <2>1 DEF Turns, Granted
<1>3. DciLimit' /\ OneGrantRetxFirst' /\ GrantsInBwp' /\ remain' >= 0
  BY DEF IInv, DciLimit, OneGrantRetxFirst, GrantsInBwp, IsNew
<1> QED
  BY <1>1, <1>2, <1>3 DEF IInv

\* A grant for a UE that no candidate names keeps the invariant.
LEMMA SignalIInv ==
  ASSUME IInv, NEW g, MaySignal(g), Signal(g),
         UNCHANGED <<passVars, phase>>,
         left' \in Int,
         visit' \in visit..NumUe + 1,
         g.ue < visit',
         cands' \subseteq cands,
         \A c \in cands' : c.ue # g.ue
  PROVE  IInv'
<1> USE DEF passVars
<1>1. g \in Grant /\ TypeOK /\ g.ue \in Ue
  BY DEF IInv, MaySignal, Grant
<1>2. /\ grants' \in Seq(Grant)
      /\ Len(grants') = Len(grants) + 1
      /\ \A i \in 1..Len(grants) : grants'[i] = grants[i]
      /\ grants'[Len(grants) + 1] = g
  BY <1>1, Appended
<1>3. Len(grants) \in Nat
  BY <1>1 DEF TypeOK
<1>4. TypeOK'
  <2>1. last' \in [Ue -> -1..Wrap - 1] /\ run' \in [Ue -> 0..RunMax]
    BY <1>1, NoteType DEF Signal
  <2>2. mask' \subseteq Nat
    <3>1. g.start \in Nat /\ g.size \in Nat
      BY <1>1 DEF Grant
    <3>2. Marks(g.start, g.size) \subseteq Nat
      BY <3>1 DEF Marks
    <3> QED
      BY <1>1, <3>2 DEF TypeOK, Signal
  <2>3. remain' \in Int /\ visit' \in 1..NumUe + 1
    BY <1>1 DEF TypeOK, Signal
  <2>4. cands' \subseteq Candidate
    BY <1>1 DEF TypeOK
  <2> QED
    BY <1>1, <1>2, <2>1, <2>2, <2>3, <2>4 DEF TypeOK
<1>5. Turns'
  <2>1. \A i \in 1..Len(grants') : grants'[i].ue < visit'
    <3> SUFFICES ASSUME NEW i \in 1..Len(grants') PROVE grants'[i].ue < visit'
      OBVIOUS
    <3>1. CASE i \in 1..Len(grants)
      <4>1. grants[i].ue < visit /\ grants[i].ue \in Nat
        BY <1>1, <3>1, GrantFields DEF IInv, Turns
      <4> QED
        BY <1>1, <1>2, <3>1, <4>1 DEF TypeOK
    <3>2. CASE i = Len(grants) + 1
      BY <1>2, <3>2
    <3> QED
      BY <1>2, <1>3, <3>1, <3>2
  <2>2. ASSUME NEW c \in cands'
        PROVE  c.ue < visit' /\ ~Granted(c.ue)' /\ retx'[c.ue] = 0
    <3>1. c \in cands /\ c.ue \in Nat /\ c.ue < visit /\ ~Granted(c.ue) /\ retx[c.ue] = 0
      BY <1>1, CandidateFields DEF IInv, Turns
    <3>2. c.ue < visit'
      BY <1>1, <3>1 DEF TypeOK
    <3>3. ~Granted(c.ue)'
      <4> SUFFICES ASSUME NEW i \in 1..Len(grants') PROVE grants'[i].ue # c.ue
        BY DEF Granted
      <4>1. CASE i \in 1..Len(grants)
        BY <1>2, <3>1, <4>1 DEF Granted
      <4>2. CASE i = Len(grants) + 1
        BY <1>2, <4>2
      <4> QED
        BY <1>2, <1>3, <4>1, <4>2
    <3> QED
      BY <3>1, <3>2, <3>3
  <2>3. \A c, d \in cands' : c.ue = d.ue => c = d
    BY DEF IInv, Turns
  <2> QED
    BY <2>1, <2>2, <2>3 DEF Turns
<1>6. remain' >= 0 /\ DciLimit' /\ OneGrantRetxFirst' /\ GrantsInBwp'
  BY SignalKeeps
<1> QED
  BY <1>4, <1>5, <1>6 DEF IInv

\* Each step of a pass is one of the three kinds above.
LEMMA StepIInv ==
  ASSUME IInv, [Next]_vars
  PROVE  IInv'
<1>0. TypeOK /\ NumUe \in Nat
  BY DEF IInv
<1>1. ASSUME NEW gap \in Gaps, Begin(gap) PROVE IInv'
  BY <1>1, BeginIInv
<1>2. ASSUME NEW u \in Ue, Skip(u) PROVE IInv'
  <2>1. visit' \in visit..NumUe + 1 /\ visit' = visit + 1
    BY <1>0, <1>2 DEF Skip, Visiting, Ue
  <2>2. \A c \in cands' : c \in Candidate /\ c.ue < visit' /\ ~Granted(c.ue) /\ retx[c.ue] = 0
    <3>1. visit \in Nat /\ cands' = cands
      BY <1>0, <1>2 DEF Skip, TypeOK
    <3>2. \A c \in cands : c \in Candidate /\ c.ue \in Nat
      BY <1>0, CandidateFields
    <3>3. \A c \in cands : c.ue < visit /\ ~Granted(c.ue) /\ retx[c.ue] = 0
      BY DEF IInv, Turns
    <3> QED
      BY <2>1, <3>1, <3>2, <3>3
  <2>3. \A c, d \in cands' : c.ue = d.ue => c = d
    BY <1>2 DEF Skip, IInv, Turns
  <2>4. UNCHANGED <<passVars, mask, left, remain, grants, runtime>> /\ phase' = phase
    BY <1>2 DEF Skip
  <2> QED
    BY <1>0, <2>1, <2>2, <2>3, <2>4, QuietIInv DEF TypeOK
<1>3. ASSUME NEW u \in Ue, Repeat(u) \/ RepeatElsewhere(u) PROVE IInv'
  <2>1. PICK g : MaySignal(g) /\ Signal(g) /\ g.ue = u
    BY <1>3, RepeatMay
  <2>2. /\ UNCHANGED <<passVars, phase>> /\ left' = left /\ cands' = cands
        /\ visit = u /\ visit' = visit + 1
    BY <1>3 DEF Repeat, RepeatElsewhere, Visiting
  <2>3. visit' \in visit..NumUe + 1 /\ g.ue < visit' /\ left' \in Int
    BY <1>0, <2>1, <2>2 DEF TypeOK, Ue
  <2>4. \A c \in cands' : c.ue # g.ue
    <3>1. \A c \in cands : c.ue \in Nat /\ c.ue < visit
      BY <1>0, CandidateFields DEF IInv, Turns
    <3> QED
      BY <1>0, <2>1, <2>2, <3>1 DEF TypeOK
  <2> QED
    BY <2>1, <2>2, <2>3, <2>4, SignalIInv
<1>4. ASSUME NEW u \in Ue, Collect(u) PROVE IInv'
  <2>1. /\ visit = u /\ visit' = visit + 1 /\ retx[u] = 0 /\ phase' = phase
        /\ UNCHANGED <<passVars, mask, left, remain, grants, runtime>>
    BY <1>4 DEF Collect, Visiting
  <2>2. PICK inactive \in BOOLEAN, coef \in Coefs :
          cands' = cands \cup
            {[ue |-> u, inactive |-> inactive,
              coef |-> IF Throttled(u) THEN 0 ELSE coef]}
    BY <1>4 DEF Collect
  <2> DEFINE new == [ue |-> u, inactive |-> inactive,
                     coef |-> IF Throttled(u) THEN 0 ELSE coef]
  <2>3. visit' \in visit..NumUe + 1
    BY <1>0, <2>1 DEF Ue
  <2>4. ~Granted(u)
    BY <2>1 DEF IInv, Turns, Granted, Ue
  <2>5. new \in Candidate /\ new.ue = u
    BY DEF Candidate
  <2>6. \A c \in cands : c \in Candidate /\ c.ue \in Nat /\ c.ue < u /\ ~Granted(c.ue) /\ retx[c.ue] = 0
    BY <1>0, <2>1, CandidateFields DEF IInv, Turns
  <2> HIDE DEF new
  <2>7. \A c \in cands' : c \in Candidate /\ c.ue < visit' /\ ~Granted(c.ue) /\ retx[c.ue] = 0
    <3>1. u \in Nat /\ u < visit'
      BY <2>1 DEF Ue
    <3> QED
      BY <2>1, <2>2, <2>4, <2>5, <2>6, <3>1 DEF new
  <2>8. \A c, d \in cands' : c.ue = d.ue => c = d
    <3>1. \A c, d \in cands : c.ue = d.ue => c = d
      BY DEF IInv, Turns
    <3>2. \A c \in cands : c.ue # u
      BY <2>6
    <3> QED
      BY <2>2, <2>5, <3>1, <3>2 DEF new
  <2> QED
    BY <1>0, <2>1, <2>3, <2>7, <2>8, QuietIInv DEF TypeOK
<1>5. ASSUME Sort \/ End PROVE IInv'
  <2>1. /\ visit' = visit /\ cands' = cands /\ phase' \in {"idle", "allocate"}
        /\ UNCHANGED <<passVars, mask, left, remain, grants, runtime>>
    BY <1>5 DEF Sort, End
  <2>2. visit' \in visit..NumUe + 1
    BY <1>0, <2>1 DEF TypeOK
  <2>3. \A c \in cands' : c \in Candidate /\ c.ue < visit' /\ ~Granted(c.ue) /\ retx[c.ue] = 0
    BY <1>0, <2>1, CandidateFields DEF IInv, Turns
  <2>4. \A c, d \in cands' : c.ue = d.ue => c = d
    BY <2>1 DEF IInv, Turns
  <2> QED
    BY <2>1, <2>2, <2>3, <2>4, QuietIInv
<1>6. ASSUME NEW c \in cands, Refuse(c) PROVE IInv'
  <2>1. /\ visit' = visit /\ cands' = cands \ {c} /\ phase' = phase
        /\ UNCHANGED <<passVars, mask, left, remain, grants, runtime>>
    BY <1>6 DEF Refuse, Turn
  <2>2. visit' \in visit..NumUe + 1
    BY <1>0, <2>1 DEF TypeOK
  <2>3. \A d \in cands' : d \in Candidate /\ d.ue < visit' /\ ~Granted(d.ue) /\ retx[d.ue] = 0
    BY <1>0, <2>1, CandidateFields DEF IInv, Turns
  <2>4. \A d, e \in cands' : d.ue = e.ue => d = e
    BY <2>1 DEF IInv, Turns
  <2> QED
    BY <1>0, <2>1, <2>2, <2>3, <2>4, QuietIInv DEF TypeOK
<1>7. ASSUME NEW c \in cands, GrantNew(c) PROVE IInv'
  <2>1. PICK g : MaySignal(g) /\ Signal(g) /\ g.ue = c.ue /\ left' = left - g.size
    BY <1>7, GrantNewMay
  <2>2. UNCHANGED <<passVars, phase>> /\ visit' = visit /\ cands' = cands \ {c}
    BY <1>7 DEF GrantNew, Turn
  <2>3. left' \in Int
    BY <1>0, <2>1 DEF TypeOK, MaySignal, Grant
  <2>4. visit' \in visit..NumUe + 1 /\ g.ue < visit'
    BY <1>0, <2>1, <2>2 DEF TypeOK, IInv, Turns
  <2>5. \A d \in cands' : d.ue # g.ue
    BY <2>1, <2>2 DEF IInv, Turns
  <2> QED
    BY <2>1, <2>2, <2>3, <2>4, <2>5, SignalIInv
<1>8. CASE UNCHANGED vars
  BY <1>8 DEF vars, passVars, runtime, IInv, TypeOK, Turns, DciLimit,
              OneGrantRetxFirst, GrantsInBwp, Granted, IsNew
<1> QED
  BY <1>1, <1>2, <1>3, <1>4, <1>5, <1>6, <1>7, <1>8 DEF Next

\* The inductive invariant holds for every value of the constants.
THEOREM UlPassInvariant == Spec => []IInv
<1>1. IInv /\ [Next]_vars => IInv'
  BY StepIInv
<1> QED
  BY InitIInv, <1>1, PTL DEF Spec

\* Every variable keeps its type.
THEOREM UlPassTypeOK == Spec => []TypeOK
BY UlPassInvariant, PTL DEF IInv

\* max_dci is never exceeded and what pf_ul returns is the number of DCIs sent.
THEOREM UlPassDciLimit == Spec => []DciLimit
BY UlPassInvariant, PTL DEF IInv

\* One grant per UE and pass, and no new data past a waiting retransmission.
THEOREM UlPassRetxFirst == Spec => []OneGrantRetxFirst
BY UlPassInvariant, PTL DEF IInv

\* Every grant ends within the BWP.
THEOREM UlPassInBwp == Spec => []GrantsInBwp
BY UlPassInvariant, PTL DEF IInv

(***************************************************************************)
(* Blocks.  The marking loop counts from bwpStart up to the size, so the   *)
(* last bwpStart blocks of a grant stay unmarked: none where the BWP       *)
(* begins at the first block of the carrier.                               *)
(***************************************************************************)

\* the blocks of a grant that the marking loop leaves out
Unmarked(g) == {b \in Blocks(g) : b >= g.start + g.size}

\* the blocks of a grant that were found free: the first one of a
\* retransmission, all of them for new data
Sought(g) == IF IsNew(g) THEN Blocks(g) ELSE {BwpStart + g.start}

\* what is given away is marked, but for the unmarked ends
MaskCovers ==
  /\ taken \subseteq mask
  /\ \A i \in 1..Len(grants) : Blocks(grants[i]) \ Unmarked(grants[i]) \subseteq mask

\* No grant is found on a block that was in use when the pass began; on a
\* block of an earlier grant only where that one was left unmarked.
SharesOnlyUnmarked ==
  \A j \in 1..Len(grants) :
    /\ Sought(grants[j]) \cap taken = {}
    /\ \A i \in 1..j - 1 :
         Sought(grants[j]) \cap Blocks(grants[i]) \subseteq Unmarked(grants[i])

BlockInv == IInv /\ MaskCovers /\ SharesOnlyUnmarked

LEMMA MarksTheRest ==
  ASSUME NEW g \in Grant
  PROVE  Blocks(g) \ Unmarked(g) \subseteq Marks(g.start, g.size)
<1>1. g.start \in Nat /\ g.size \in Nat /\ BwpStart \in Nat
  BY UlPassAssumption DEF Grant, UlPassAssumption
<1> SUFFICES ASSUME NEW i \in 0..g.size - 1,
                    BwpStart + g.start + i < g.start + g.size
             PROVE  BwpStart + g.start + i \in Marks(g.start, g.size)
  BY <1>1 DEF Blocks, Unmarked
<1>2. BwpStart + i \in BwpStart..g.size - 1
  BY <1>1
<1>3. BwpStart + g.start + i = g.start + (BwpStart + i)
  BY <1>1
<1> QED
  BY <1>2, <1>3 DEF Marks

LEMMA SignalBlocks ==
  ASSUME BlockInv, NEW g, MaySignal(g), Signal(g), taken' = taken,
         Sought(g) \cap mask = {}
  PROVE  MaskCovers' /\ SharesOnlyUnmarked'
<1>1. g \in Grant /\ TypeOK /\ Len(grants) \in Nat
  BY DEF BlockInv, IInv, MaySignal, TypeOK
<1>2. /\ Len(grants') = Len(grants) + 1
      /\ \A i \in 1..Len(grants) : grants'[i] = grants[i]
      /\ grants'[Len(grants) + 1] = g
  BY <1>1, Appended
<1>3. mask' = mask \cup Marks(g.start, g.size)
  BY DEF Signal
<1>4. \A i \in 1..Len(grants') : i \in 1..Len(grants) \/ i = Len(grants) + 1
  BY <1>1, <1>2
<1>5. \A i \in 1..Len(grants) : Blocks(grants[i]) \ Unmarked(grants[i]) \subseteq mask
  BY DEF BlockInv, MaskCovers
<1>6. MaskCovers'
  <2> SUFFICES ASSUME NEW i \in 1..Len(grants')
               PROVE  Blocks(grants'[i]) \ Unmarked(grants'[i]) \subseteq mask'
    BY <1>3 DEF BlockInv, MaskCovers, Blocks, Unmarked
  <2>1. CASE i \in 1..Len(grants)
    BY <1>2, <1>3, <1>5, <2>1
  <2>2. CASE i = Len(grants) + 1
    BY <1>1, <1>2, <1>3, <2>2, MarksTheRest
  <2> QED
    BY <1>4, <2>1, <2>2
<1>7. SharesOnlyUnmarked'
  <2> SUFFICES ASSUME NEW j \in 1..Len(grants')
               PROVE  /\ Sought(grants'[j]) \cap taken = {}
                      /\ \A i \in 1..j - 1 :
                           Sought(grants'[j]) \cap Blocks(grants'[i])
                             \subseteq Unmarked(grants'[i])
    BY DEF SharesOnlyUnmarked, Sought, IsNew, Blocks, Unmarked
  <2>1. CASE j \in 1..Len(grants)
    <3>1. grants'[j] = grants[j] /\ \A i \in 1..j - 1 : grants'[i] = grants[i]
      BY <1>1, <1>2, <2>1
    <3> QED
      BY <2>1, <3>1 DEF BlockInv, SharesOnlyUnmarked
  <2>2. CASE j = Len(grants) + 1
    <3>1. grants'[j] = g /\ \A i \in 1..j - 1 : i \in 1..Len(grants) /\ grants'[i] = grants[i]
      BY <1>1, <1>2, <2>2
    <3> QED
      BY <1>5, <3>1 DEF BlockInv, MaskCovers
  <2> QED
    BY <1>4, <2>1, <2>2
<1> QED
  BY <1>6, <1>7

LEMMA StepBlocks ==
  ASSUME BlockInv, [Next]_vars
  PROVE  BlockInv'
<1>0. IInv'
  BY StepIInv DEF BlockInv
<1>1. ASSUME NEW gap \in Gaps, Begin(gap) PROVE MaskCovers' /\ SharesOnlyUnmarked'
  <2>1. Len(grants') = 0 /\ mask' = taken'
    BY <1>1 DEF Begin
  <2> QED
    BY <2>1 DEF MaskCovers, SharesOnlyUnmarked
<1>2. ASSUME UNCHANGED <<taken, mask, grants>> PROVE MaskCovers' /\ SharesOnlyUnmarked'
  <2>1. MaskCovers'
    BY <1>2 DEF BlockInv, MaskCovers, Blocks, Unmarked
  <2>2. SharesOnlyUnmarked'
    <3> SUFFICES ASSUME NEW j \in 1..Len(grants')
                 PROVE  /\ Sought(grants'[j]) \cap taken' = {}
                        /\ \A i \in 1..j - 1 :
                             Sought(grants'[j]) \cap Blocks(grants'[i])
                               \subseteq Unmarked(grants'[i])
      BY DEF SharesOnlyUnmarked, Sought, IsNew, Blocks, Unmarked
    <3> QED
      BY <1>2 DEF BlockInv, SharesOnlyUnmarked
  <2> QED
    BY <2>1, <2>2
<1>3. ASSUME NEW u \in Ue, Repeat(u) \/ RepeatElsewhere(u)
      PROVE  MaskCovers' /\ SharesOnlyUnmarked'
  <2>1. PICK g : MaySignal(g) /\ Signal(g) /\ g.kind = "retx" /\ ~Used(g.start)
    BY <1>3, RepeatMay DEF BlockInv
  <2>2. taken' = taken
    BY <1>3 DEF Repeat, RepeatElsewhere, passVars
  <2>3. Sought(g) \cap mask = {}
    BY <2>1 DEF Sought, IsNew, Used
  <2> QED
    BY <2>1, <2>2, <2>3, SignalBlocks
<1>4. ASSUME NEW c \in cands, GrantNew(c) PROVE MaskCovers' /\ SharesOnlyUnmarked'
  <2>1. PICK g : /\ MaySignal(g) /\ Signal(g) /\ IsNew(g)
                 /\ \A i \in 0..g.size - 1 : ~Used(g.start + i)
    BY <1>4, GrantNewMay DEF BlockInv
  <2>2. taken' = taken
    BY <1>4 DEF GrantNew, passVars
  <2>3. Sought(g) \cap mask = {}
    <3>1. g.start \in Nat /\ g.size \in Nat /\ BwpStart \in Nat
      BY <2>1, UlPassAssumption DEF MaySignal, Grant, UlPassAssumption
    <3>2. \A i \in 0..g.size - 1 : BwpStart + g.start + i = BwpStart + (g.start + i)
      BY <3>1
    <3> QED
      BY <2>1, <3>2 DEF Sought, Blocks, Used
  <2> QED
    BY <2>1, <2>2, <2>3, SignalBlocks
<1>5. ASSUME \/ \E u \in Ue : Skip(u) \/ Collect(u)
             \/ Sort \/ End \/ UNCHANGED vars
             \/ \E c \in cands : Refuse(c)
      PROVE  UNCHANGED <<taken, mask, grants>>
  BY <1>5 DEF Skip, Collect, Sort, End, Refuse, vars, passVars
<1> QED
  BY <1>0, <1>1, <1>2, <1>3, <1>4, <1>5 DEF Next, BlockInv

\* Wherever the BWP begins: new data never gets a block that was in use, a
\* retransmission never begins on one, and both meet an earlier grant of the
\* pass only in the last bwpStart blocks of it, which the loop left unmarked.
THEOREM UlPassSharesOnlyUnmarked == Spec => []SharesOnlyUnmarked
<1>1. Init => BlockInv
  BY InitIInv DEF Init, BlockInv, MaskCovers, SharesOnlyUnmarked
<1>2. BlockInv /\ [Next]_vars => BlockInv'
  BY StepBlocks
<1>3. BlockInv => SharesOnlyUnmarked
  BY DEF BlockInv
<1> QED
  BY <1>1, <1>2, <1>3, PTL DEF Spec

\* Where the BWP begins at the first block of the carrier, new data is only
\* ever sent on blocks that nobody else uses.
THEOREM UlPassNewGrantsFree ==
  ASSUME BwpStart = 0
  PROVE  Spec => []NewGrantsFree
<1>1. ASSUME TypeOK, SharesOnlyUnmarked PROVE NewGrantsFree
  <2> SUFFICES ASSUME NEW j \in 1..Len(grants), IsNew(grants[j])
               PROVE  /\ Blocks(grants[j]) \cap taken = {}
                      /\ \A i \in 1..j - 1 : Blocks(grants[i]) \cap Blocks(grants[j]) = {}
    BY DEF NewGrantsFree
  <2>1. ASSUME NEW i \in 1..j - 1 PROVE Unmarked(grants[i]) = {}
    <3>1. Len(grants) \in Nat /\ i \in 1..Len(grants)
      BY <1>1, <2>1 DEF TypeOK
    <3>2. grants[i].start \in Nat /\ grants[i].size \in Nat
      BY <1>1, <3>1, GrantFields
    <3> QED
      BY <3>2 DEF Unmarked, Blocks
  <2>2. Sought(grants[j]) = Blocks(grants[j])
    BY DEF Sought
  <2> QED
    BY <1>1, <2>1, <2>2 DEF SharesOnlyUnmarked
<1> QED
  BY <1>1, UlPassTypeOK, UlPassSharesOnlyUnmarked, PTL

(***************************************************************************)
(* Consecutive grants.  The runtime entry of a UE knows its streak: before *)
(* the UE is granted in a pass the entry is one slot old, afterwards it is *)
(* of this slot.  A UE without an entry has none because the table is      *)
(* full, and a table that is full stays full.                              *)
(***************************************************************************)

Remembered ==
  \A u \in Ue :
    /\ ~HasRuntime(u) /\ (streak[u] > 0 \/ Granted(u)) => RuntimeFull
    /\ HasRuntime(u) /\ ~Granted(u) /\ streak[u] > 0
         => last[u] = tick - 1 /\ run[u] >= streak[u]
    /\ HasRuntime(u) /\ Granted(u)
         => last[u] = tick /\ run[u] >= Smaller(streak[u] + 1, RunMax)

\* the coefficient of a candidate says whether it is throttled
CoefTells == \A c \in cands : Throttled(c.ue) <=> c.coef = 0

\* the first loop grants retransmissions only
RetxPhase == phase = "collect" => \A i \in 1..Len(grants) : grants[i].kind = "retx"

YieldInv == IInv /\ Remembered /\ CoefTells /\ RetxPhase /\ ExhaustedYield

\* What a noted grant does to the table.
LEMMA NoteEffect ==
  ASSUME TypeOK, NEW u \in Ue, NoteGrant(u)
  PROVE  /\ \A v \in Ue : v # u => last'[v] = last[v] /\ run'[v] = run[v]
         /\ ~HasRuntime(u) /\ RuntimeFull => run'[u] = run[u]
         /\ HasRuntime(u) \/ ~RuntimeFull =>
              /\ last'[u] = tick
              /\ run'[u] = IF last[u] = tick - 1 THEN Smaller(run[u] + 1, RunMax) ELSE 1
BY DEF NoteGrant, runtime, TypeOK

\* A full table stays full.
LEMMA FullStays ==
  ASSUME TypeOK, NEW u \in Ue, NoteGrant(u), RuntimeFull
  PROVE  RuntimeFull'
<1> DEFINE S == {v \in Ue : HasRuntime(v)}
           T == {v \in Ue : HasRuntime(v)'}
<1>1. S \subseteq T
  <2> SUFFICES ASSUME NEW v \in Ue, run[v] > 0 PROVE run'[v] > 0
    BY DEF HasRuntime
  <2>1. CASE v # u
    BY <2>1, NoteEffect
  <2>2. CASE v = u
    <3>1. run[u] \in Nat /\ HasRuntime(u)
      BY <2>2 DEF TypeOK, HasRuntime
    <3>2. run'[u] = IF last[u] = tick - 1 THEN Smaller(run[u] + 1, RunMax) ELSE 1
      BY <3>1, NoteEffect
    <3>3. Smaller(run[u] + 1, RunMax) > 0
      BY <3>1 DEF Smaller
    <3> QED
      BY <2>2, <3>2, <3>3
  <2> QED
    BY <2>1, <2>2
<1>2. IsFiniteSet(T)
  <2>1. IsFiniteSet(Ue)
    BY FS_Interval DEF Ue
  <2> QED
    BY <2>1, FS_Subset
<1>3. Cardinality(S) =< Cardinality(T) /\ Cardinality(S) \in Nat /\ Cardinality(T) \in Nat
  BY <1>1, <1>2, FS_Subset, FS_CardinalityType
<1>4. Cardinality(S) >= RuntimeMax
  BY DEF RuntimeFull
<1>5. Cardinality(T) >= RuntimeMax => RuntimeFull'
  BY DEF RuntimeFull
<1> QED
  BY <1>3, <1>4, <1>5

\* A signalled grant is remembered, and leaves what is known of others alone.
LEMMA SignalRemembered ==
  ASSUME IInv, Remembered, NEW g, MaySignal(g), Signal(g),
         tick' = tick, streak' = streak
  PROVE  /\ Remembered'
         /\ \A v \in Ue : v # g.ue => last'[v] = last[v] /\ run'[v] = run[v]
         /\ RuntimeFull => RuntimeFull'
<1>1. g \in Grant /\ g.ue \in Ue /\ TypeOK /\ ~Granted(g.ue) /\ NoteGrant(g.ue)
  BY DEF IInv, MaySignal, Grant, Signal
<1>2. /\ Len(grants) \in Nat
      /\ Len(grants') = Len(grants) + 1
      /\ \A i \in 1..Len(grants) : grants'[i] = grants[i]
      /\ grants'[Len(grants) + 1] = g
  <2>1. Len(grants) \in Nat
    BY <1>1 DEF TypeOK
  <2> QED
    BY <1>1, <2>1, Appended
<1>3. \A v \in Ue : v # g.ue => last'[v] = last[v] /\ run'[v] = run[v]
  BY <1>1, NoteEffect
<1>4. RuntimeFull => RuntimeFull'
  BY <1>1, FullStays
<1>5. \A v : Granted(v)' <=> Granted(v) \/ v = g.ue
  <2>1. \A i : i \in 1..Len(grants') <=> i \in 1..Len(grants) \/ i = Len(grants) + 1
    BY <1>2
  <2> QED
    BY <1>2, <2>1 DEF Granted
<1>6. ASSUME NEW v \in Ue, v # g.ue
      PROVE  /\ ~HasRuntime(v)' /\ (streak'[v] > 0 \/ Granted(v)') => RuntimeFull'
             /\ HasRuntime(v)' /\ ~Granted(v)' /\ streak'[v] > 0
                  => last'[v] = tick' - 1 /\ run'[v] >= streak'[v]
             /\ HasRuntime(v)' /\ Granted(v)'
                  => last'[v] = tick' /\ run'[v] >= Smaller(streak'[v] + 1, RunMax)
  <2>1. last'[v] = last[v] /\ run'[v] = run[v] /\ (Granted(v)' <=> Granted(v))
    BY <1>3, <1>5, <1>6
  <2> QED
    BY <1>4, <2>1 DEF Remembered, HasRuntime
<1>7. /\ ~HasRuntime(g.ue)' => RuntimeFull'
      /\ HasRuntime(g.ue)'
           => last'[g.ue] = tick /\ run'[g.ue] >= Smaller(streak[g.ue] + 1, RunMax)
  <2>1. /\ run[g.ue] \in Nat /\ streak[g.ue] \in 0..RunMax
        /\ RunMax \in Nat \ {0}
    BY <1>1 DEF TypeOK
  <2>2. CASE ~HasRuntime(g.ue) /\ RuntimeFull
    <3>1. run'[g.ue] = run[g.ue]
      BY <1>1, <2>2, NoteEffect
    <3> QED
      BY <1>4, <2>2, <3>1 DEF HasRuntime
  <2>3. CASE HasRuntime(g.ue) \/ ~RuntimeFull
    <3>1. /\ last'[g.ue] = tick
          /\ run'[g.ue] = IF last[g.ue] = tick - 1 THEN Smaller(run[g.ue] + 1, RunMax) ELSE 1
      BY <1>1, <2>3, NoteEffect
    <3>2. run'[g.ue] \in Nat /\ run'[g.ue] >= 1
      BY <2>1, <3>1 DEF Smaller
    <3>3. streak[g.ue] > 0 => last[g.ue] = tick - 1 /\ run[g.ue] >= streak[g.ue]
      <4>1. /\ ~HasRuntime(g.ue) /\ streak[g.ue] > 0 => RuntimeFull
            /\ HasRuntime(g.ue) /\ ~Granted(g.ue) /\ streak[g.ue] > 0
                 => last[g.ue] = tick - 1 /\ run[g.ue] >= streak[g.ue]
        BY <1>1 DEF Remembered
      <4> QED
        BY <1>1, <2>3, <4>1
    <3>4. run'[g.ue] >= Smaller(streak[g.ue] + 1, RunMax)
      BY <2>1, <3>1, <3>2, <3>3 DEF Smaller
    <3> QED
      BY <3>1, <3>2, <3>4 DEF HasRuntime
  <2> QED
    BY <2>2, <2>3
<1>8. Remembered'
  <2> SUFFICES ASSUME NEW v \in Ue
      PROVE  /\ ~HasRuntime(v)' /\ (streak'[v] > 0 \/ Granted(v)') => RuntimeFull'
             /\ HasRuntime(v)' /\ ~Granted(v)' /\ streak'[v] > 0
                  => last'[v] = tick' - 1 /\ run'[v] >= streak'[v]
             /\ HasRuntime(v)' /\ Granted(v)'
                  => last'[v] = tick' /\ run'[v] >= Smaller(streak'[v] + 1, RunMax)
    BY DEF Remembered, Smaller
  <2>1. CASE v # g.ue
    BY <1>6, <2>1
  <2>2. CASE v = g.ue
    BY <1>5, <1>7, <2>2
  <2> QED
    BY <2>1, <2>2
<1> QED
  BY <1>3, <1>4, <1>8

\* The streak a new pass begins with is what the entries already say.
LEMMA BeginRemembered ==
  ASSUME IInv, Remembered, NEW gap \in Gaps, Begin(gap)
  PROVE  Remembered'
<1> SUFFICES ASSUME NEW v \in Ue
    PROVE  /\ ~HasRuntime(v)' /\ (streak'[v] > 0 \/ Granted(v)') => RuntimeFull'
           /\ HasRuntime(v)' /\ ~Granted(v)' /\ streak'[v] > 0
                => last'[v] = tick' - 1 /\ run'[v] >= streak'[v]
           /\ HasRuntime(v)' /\ Granted(v)'
                => last'[v] = tick' /\ run'[v] >= Smaller(streak'[v] + 1, RunMax)
  BY DEF Remembered, Smaller
<1>1. last' = last /\ run' = run /\ ~Granted(v)'
  BY DEF Begin, runtime, Granted
<1>2. RuntimeFull' <=> RuntimeFull
  BY <1>1 DEF RuntimeFull, HasRuntime
<1>3. HasRuntime(v)' <=> HasRuntime(v)
  BY <1>1 DEF HasRuntime
<1>4. streak'[v] > 0 =>
        Granted(v) /\ tick' = tick + 1 /\ streak'[v] = Smaller(streak[v] + 1, RunMax)
  BY DEF Begin
<1>5. tick \in Int
  BY DEF IInv, TypeOK
<1>6. /\ ~HasRuntime(v) /\ Granted(v) => RuntimeFull
      /\ HasRuntime(v) /\ Granted(v)
           => last[v] = tick /\ run[v] >= Smaller(streak[v] + 1, RunMax)
  BY DEF Remembered
<1> QED
  BY <1>1, <1>2, <1>3, <1>4, <1>5, <1>6

\* What a signalled grant leaves of the facts about candidates and grants; the
\* order is kept if the grant itself yields to the candidates that remain.
LEMMA SignalYield ==
  ASSUME YieldInv, NEW g, MaySignal(g), Signal(g), UNCHANGED <<passVars, phase>>,
         cands' \subseteq cands, \A c \in cands' : c.ue # g.ue,
         phase = "collect" => g.kind = "retx",
         g.kind = "new" /\ Exhausted(g.ue)' =>
           \A c \in cands' : ~c.inactive /\ Throttled(c.ue)
  PROVE  Remembered' /\ CoefTells' /\ RetxPhase' /\ ExhaustedYield'
<1> USE DEF passVars
<1>1. g \in Grant /\ g.ue \in Ue /\ TypeOK
  BY DEF YieldInv, IInv, MaySignal, Grant
<1>2. /\ Len(grants) \in Nat
      /\ Len(grants') = Len(grants) + 1
      /\ \A i \in 1..Len(grants) : grants'[i] = grants[i]
      /\ grants'[Len(grants) + 1] = g
  <2>1. Len(grants) \in Nat
    BY <1>1 DEF TypeOK
  <2> QED
    BY <1>1, <2>1, Appended
<1>3. \A i \in 1..Len(grants') : i \in 1..Len(grants) \/ i = Len(grants) + 1
  BY <1>2
<1>4. /\ Remembered'
      /\ \A v \in Ue : v # g.ue => last'[v] = last[v] /\ run'[v] = run[v]
  BY SignalRemembered DEF YieldInv
<1> DEFINE ThrottledNext(v) == /\ MaxCg[v] > 0 /\ run'[v] > 0
                               /\ last'[v] = tick - 1 /\ run'[v] >= MaxCg[v]
           ExhaustedNext(v) == MaxCg[v] > 0 /\ run'[v] > 0 /\ streak[v] >= MaxCg[v]
<1>5. \A v \in Ue : v # g.ue =>
        /\ ThrottledNext(v) <=> Throttled(v)
        /\ ExhaustedNext(v) <=> Exhausted(v)
  BY <1>4 DEF Throttled, Exhausted, HasRuntime
<1>6. \A c \in cands' : c \in cands /\ c.ue \in Ue /\ c.ue # g.ue
  BY <1>1, CandidateFields
<1>7. CoefTells'
  <2> SUFFICES ASSUME NEW c \in cands' PROVE ThrottledNext(c.ue) <=> c.coef = 0
    BY DEF CoefTells, Throttled
  <2> HIDE DEF ThrottledNext, ExhaustedNext
  <2> QED
    BY <1>5, <1>6 DEF YieldInv, CoefTells
<1>8. RetxPhase'
  <2> SUFFICES ASSUME phase = "collect", NEW i \in 1..Len(grants')
               PROVE  grants'[i].kind = "retx"
    BY DEF RetxPhase
  <2>1. CASE i \in 1..Len(grants)
    BY <1>2, <2>1 DEF YieldInv, RetxPhase
  <2>2. CASE i = Len(grants) + 1
    BY <1>2, <2>2
  <2> QED
    BY <1>3, <2>1, <2>2
<1>9. ExhaustedYield'
  <2> SUFFICES ASSUME phase = "allocate", NEW i \in 1..Len(grants'),
                      grants'[i].kind = "new", ExhaustedNext(grants'[i].ue),
                      NEW c \in cands'
               PROVE  ~c.inactive /\ (ExhaustedNext(c.ue) \/ ThrottledNext(c.ue))
    BY DEF ExhaustedYield, Exhausted, HasRuntime, Throttled
  <2>0. ExhaustedNext(g.ue) => Exhausted(g.ue)'
    BY DEF Exhausted, HasRuntime
  <2> HIDE DEF ThrottledNext, ExhaustedNext
  <2>1. CASE i = Len(grants) + 1
    BY <1>2, <1>5, <1>6, <2>0, <2>1
  <2>2. CASE i \in 1..Len(grants)
    <3>1. grants'[i] = grants[i] /\ grants[i].ue \in Ue /\ grants[i].ue # g.ue
      BY <1>1, <1>2, <2>2, GrantFields DEF MaySignal, Granted
    <3>2. Exhausted(grants[i].ue)
      BY <1>5, <3>1
    <3>3. ~c.inactive /\ (Exhausted(c.ue) \/ Throttled(c.ue))
      BY <1>6, <2>2, <3>1, <3>2 DEF YieldInv, ExhaustedYield
    <3> QED
      BY <1>5, <1>6, <3>3
  <2> QED
    BY <1>3, <2>1, <2>2
<1> QED
  BY <1>4, <1>7, <1>8, <1>9

\* The candidate whose turn it is and who is exhausted has coefficient zero, so
\* those after it are active and have it too.
LEMMA TurnYields ==
  ASSUME YieldInv, NEW c \in cands, Turn(c), ~c.inactive, Exhausted(c.ue)
  PROVE  \A d \in cands : ~d.inactive /\ Throttled(d.ue)
<1>1. TypeOK /\ c.ue \in Ue /\ ~Granted(c.ue)
  BY CandidateFields DEF YieldInv, IInv, Turns
<1>2. /\ MaxCg[c.ue] \in Nat /\ streak[c.ue] \in Nat /\ run[c.ue] \in Nat
      /\ MaxCg[c.ue] > 0 /\ run[c.ue] > 0 /\ streak[c.ue] >= MaxCg[c.ue]
  BY <1>1 DEF TypeOK, Exhausted, HasRuntime
<1>3. last[c.ue] = tick - 1 /\ run[c.ue] >= streak[c.ue]
  <2>1. HasRuntime(c.ue) /\ ~Granted(c.ue) /\ streak[c.ue] > 0
    BY <1>1, <1>2 DEF HasRuntime
  <2> QED
    BY <1>1, <2>1 DEF YieldInv, Remembered
<1>4. Throttled(c.ue)
  BY <1>2, <1>3 DEF Throttled
<1>5. c.coef = 0
  BY <1>4 DEF YieldInv, CoefTells
<1> SUFFICES ASSUME NEW d \in cands PROVE ~d.inactive /\ Throttled(d.ue)
  OBVIOUS
<1>6. ~Before(d, c)
  BY DEF Turn
<1>7. d.coef \in Nat
  BY <1>1, CandidateFields DEF Candidate
<1>8. ~d.inactive /\ d.coef = 0
  BY <1>5, <1>6, <1>7 DEF Before
<1> QED
  BY <1>8 DEF YieldInv, CoefTells

\* The steps that leave grants and runtime table alone.
LEMMA QuietYield ==
  ASSUME YieldInv, UNCHANGED <<passVars, grants, runtime>>,
         phase' = "collect" => phase = "collect",
         phase' = "allocate" => phase = "allocate" \/ phase = "collect",
         cands' \subseteq cands \/ phase' = "collect",
         \A c \in cands' \ cands : Throttled(c.ue) <=> c.coef = 0
  PROVE  Remembered' /\ CoefTells' /\ RetxPhase' /\ ExhaustedYield'
<1> USE DEF passVars, runtime
<1>1. Remembered'
  BY DEF YieldInv, Remembered, HasRuntime, RuntimeFull, Granted, Smaller
<1>2. CoefTells'
  BY DEF YieldInv, CoefTells, Throttled
<1>3. RetxPhase'
  BY DEF YieldInv, RetxPhase
<1>4. ExhaustedYield'
  <2>1. CASE phase' = "allocate" /\ phase = "allocate"
    <3>1. cands' \subseteq cands
      BY <2>1
    <3> QED
      BY <2>1, <3>1 DEF YieldInv, ExhaustedYield, Exhausted, Throttled, HasRuntime
  <2>2. CASE phase' = "allocate" /\ phase = "collect"
    <3>1. \A i \in 1..Len(grants') : grants'[i].kind # "new"
      BY <2>2 DEF YieldInv, RetxPhase
    <3> QED
      BY <3>1 DEF ExhaustedYield
  <2>3. CASE phase' # "allocate"
    BY <2>3 DEF ExhaustedYield
  <2> QED
    BY <2>1, <2>2, <2>3
<1> QED
  BY <1>1, <1>2, <1>3, <1>4

LEMMA StepYield ==
  ASSUME YieldInv, [Next]_vars
  PROVE  YieldInv'
<1> DEFINE Goal == Remembered' /\ CoefTells' /\ RetxPhase' /\ ExhaustedYield'
<1>0. IInv' /\ IInv /\ TypeOK
  BY StepIInv DEF YieldInv, IInv
<1>1. ASSUME NEW gap \in Gaps, Begin(gap) PROVE Goal
  <2>1. Remembered'
    BY <1>0, <1>1, BeginRemembered DEF YieldInv
  <2>2. cands' = {} /\ phase' = "collect" /\ Len(grants') = 0
    BY <1>1 DEF Begin
  <2> QED
    BY <2>1, <2>2 DEF CoefTells, RetxPhase, ExhaustedYield
<1>2. ASSUME NEW u \in Ue, Collect(u) PROVE Goal
  <2>1. UNCHANGED <<passVars, grants, runtime>> /\ phase' = "collect" /\ phase = "collect"
    BY <1>2 DEF Collect, Visiting
  <2>2. \A c \in cands' \ cands : Throttled(c.ue) <=> c.coef = 0
    <3>1. PICK inactive \in BOOLEAN, coef \in Coefs :
            cands' = cands \cup
              {[ue |-> u, inactive |-> inactive,
                coef |-> IF Throttled(u) THEN 0 ELSE coef]}
      BY <1>2 DEF Collect
    <3>2. coef # 0
      OBVIOUS
    <3> QED
      BY <3>1, <3>2
  <2> QED
    BY <2>1, <2>2, QuietYield
<1>3. ASSUME \/ \E u \in Ue : Skip(u)
             \/ Sort \/ End \/ UNCHANGED vars
             \/ \E c \in cands : Refuse(c)
      PROVE  Goal
  <2>1. /\ UNCHANGED <<passVars, grants, runtime>> /\ cands' \subseteq cands
        /\ \/ phase' = phase
           \/ phase = "collect" /\ phase' = "allocate"
           \/ phase' = "idle"
    BY <1>3 DEF Skip, Sort, End, Refuse, Turn, vars, passVars, runtime
  <2> QED
    BY <2>1, QuietYield
<1>4. ASSUME NEW u \in Ue, Repeat(u) \/ RepeatElsewhere(u) PROVE Goal
  <2>1. PICK g : MaySignal(g) /\ Signal(g) /\ g.ue = u /\ g.kind = "retx"
    BY <1>0, <1>4, RepeatMay
  <2>2. UNCHANGED <<passVars, phase>> /\ cands' = cands /\ visit = u
    BY <1>4 DEF Repeat, RepeatElsewhere, Visiting
  <2>3. \A c \in cands' : c.ue # g.ue
    <3>1. \A c \in cands : c.ue \in Nat /\ c.ue < visit
      BY <1>0, CandidateFields DEF IInv, Turns
    <3> QED
      BY <1>0, <2>1, <2>2, <3>1 DEF TypeOK
  <2> QED
    BY <2>1, <2>2, <2>3, SignalYield
<1>5. ASSUME NEW c \in cands, GrantNew(c) PROVE Goal
  <2>1. PICK g : /\ MaySignal(g) /\ Signal(g) /\ g.ue = c.ue
                 /\ g.kind = "new" => ~c.inactive
    BY <1>0, <1>5, GrantNewMay
  <2>2. /\ UNCHANGED <<passVars, phase>> /\ cands' = cands \ {c} /\ Turn(c)
        /\ phase = "allocate"
    BY <1>5 DEF GrantNew, Turn
  <2>3. \A d \in cands' : d.ue # g.ue
    BY <1>0, <2>1, <2>2 DEF IInv, Turns
  <2>4. ASSUME g.kind = "new", Exhausted(g.ue)'
        PROVE  \A d \in cands' : ~d.inactive /\ Throttled(d.ue)
    <3>1. g.ue \in Ue /\ NoteGrant(g.ue) /\ ~Granted(g.ue) /\ streak' = streak
      BY <2>1, <2>2 DEF MaySignal, Signal, Grant, passVars
    <3>2. MaxCg[g.ue] > 0 /\ run'[g.ue] > 0 /\ streak[g.ue] >= MaxCg[g.ue]
      BY <2>4, <3>1 DEF Exhausted, HasRuntime
    <3>3. streak[g.ue] > 0 /\ run[g.ue] \in Nat
      BY <1>0, <3>1, <3>2 DEF TypeOK
    <3>4. run[g.ue] > 0
      <4>1. CASE run[g.ue] = 0
        <5>1. ~HasRuntime(g.ue) /\ RuntimeFull
          BY <3>1, <3>3, <4>1 DEF YieldInv, Remembered, HasRuntime
        <5>2. run'[g.ue] = run[g.ue]
          BY <1>0, <3>1, <5>1, NoteEffect
        <5> QED
          BY <3>2, <4>1, <5>2
      <4> QED
        BY <3>3, <4>1
    <3>5. Exhausted(c.ue)
      BY <2>1, <3>2, <3>4 DEF Exhausted, HasRuntime
    <3> QED
      BY <2>1, <2>2, <2>4, <3>5, TurnYields
  <2> QED
    BY <2>1, <2>2, <2>3, <2>4, SignalYield
<1> QED
  BY <1>0, <1>1, <1>2, <1>3, <1>4, <1>5 DEF Next, YieldInv

\* A UE that has had its consecutive grants is served after every candidate
\* that has not, as long as its runtime entry exists.
THEOREM UlPassExhaustedYield == Spec => []ExhaustedYield
<1>1. Init => YieldInv
  <2>1. ASSUME Init PROVE Remembered /\ CoefTells /\ RetxPhase /\ ExhaustedYield
    <3>1. Len(grants) = 0 /\ cands = {} /\ \A u \in Ue : streak[u] = 0 /\ run[u] = 0
      BY <2>1 DEF Init
    <3> QED
      BY <3>1 DEF Remembered, CoefTells, RetxPhase, ExhaustedYield, HasRuntime, Granted
  <2> QED
    BY <2>1, InitIInv DEF YieldInv
<1>2. YieldInv /\ [Next]_vars => YieldInv'
  BY StepYield
<1>3. YieldInv => ExhaustedYield
  BY DEF YieldInv
<1> QED
  BY <1>1, <1>2, <1>3, PTL DEF Spec

=============================================================================
