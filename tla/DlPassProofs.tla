---------------------------- MODULE DlPassProofs ----------------------------
(***************************************************************************)
(* Proofs about DlPass for any number of UEs, blocks and DCIs and any      *)
(* postures and policies.  Both kinds of grant end in Planned, so what a   *)
(* grant does to the block map and to the list of grants is proved once;   *)
(* the actions only have to show that their grant may be planned.          *)
(***************************************************************************)
EXTENDS DlPass, FiniteSetTheorems, TLAPS

USE DlPassAssumption

HasGrant(u) == \E i \in 1..Len(grants) : grants[i].ue = u

(***************************************************************************)
(* Turns: in the first loop the UEs granted or collected are behind the    *)
(* one being visited; a candidate waits for no retransmission and has no   *)
(* grant yet.                                                              *)
(***************************************************************************)
Turns ==
  /\ phase = "collect" =>
       /\ \A i \in 1..Len(grants) : grants[i].ue < visit
       /\ \A c \in cands : c.ue < visit
  /\ \A c \in cands : ~HasGrant(c.ue) /\ retx[c.ue] = 0
  /\ \A c, d \in cands : c.ue = d.ue => c = d

IInv ==
  /\ TypeOK
  /\ Turns
  /\ remain >= 0
  /\ DciLimit
  /\ OneGrantRetxFirst
  /\ GrantsInBwp

\* A grant that may be planned: its UE had none, fits, and waits for no
\* retransmission if the grant is for new data.
MayPlan(g) ==
  /\ g \in Grant
  /\ remain > 0
  /\ g.start + g.size =< BwpSize
  /\ ~HasGrant(g.ue)
  /\ IsNew(g) => retx[g.ue] = 0

\* The blocks of a grant are free when it is planned.
Free(g) == \A i \in 0..g.size - 1 : ~Used(g.start + i)

\* What is marked for a grant.
Marked(g) ==
  IF g.kind = "new" THEN Marks(g.start, g.size) ELSE MarksRepeated(g.start, g.size)

\* The fields of a grant of the slot and of a candidate.
LEMMA GrantFields ==
  ASSUME TypeOK, NEW i \in 1..Len(grants)
  PROVE  /\ grants[i] \in Grant
         /\ grants[i].ue \in Ue /\ grants[i].ue \in Nat
         /\ grants[i].start \in Nat /\ grants[i].size \in Nat \ {0}
<1>1. grants[i] \in Grant
  BY DEF TypeOK
<1>2. grants[i].ue \in Ue /\ grants[i].start \in Nat /\ grants[i].size \in Nat \ {0}
  BY <1>1 DEF Grant
<1>3. grants[i].ue \in Nat
  BY <1>2 DEF Ue
<1> QED
  BY <1>1, <1>2, <1>3

LEMMA CandidateFields ==
  ASSUME TypeOK, NEW c \in cands
  PROVE  c \in Candidate /\ c.ue \in Ue /\ c.ue \in Nat /\ c.coef \in Nat
<1>1. c \in Candidate
  BY DEF TypeOK
<1>2. c.ue \in Ue /\ c.ue \in Nat /\ c.coef \in Coefs \cup {0}
  BY <1>1 DEF Candidate, Ue
<1>3. Coefs \cup {0} \subseteq Nat
  OBVIOUS
<1> QED
  BY <1>1, <1>2, <1>3

\* The grants after one more is planned.
LEMMA Appended ==
  ASSUME TypeOK, NEW g \in Grant, NEW M, Planned(g, M)
  PROVE  /\ Len(grants) \in Nat
         /\ grants' \in Seq(Grant)
         /\ Len(grants') = Len(grants) + 1
         /\ \A i \in 1..Len(grants) : grants'[i] = grants[i]
         /\ grants'[Len(grants) + 1] = g
         /\ \A i \in 1..Len(grants') : i \in 1..Len(grants) \/ i = Len(grants) + 1
<1>1. grants \in Seq(Grant) /\ grants' = Append(grants, g)
  BY DEF TypeOK, Planned
<1>2. /\ Len(grants) \in Nat
      /\ Len(grants') = Len(grants) + 1
      /\ grants' \in Seq(Grant)
  BY <1>1
<1>3. /\ \A i \in 1..Len(grants) : grants'[i] = grants[i]
      /\ grants'[Len(grants) + 1] = g
  BY <1>1
<1>4. \A i \in 1..Len(grants') : i \in 1..Len(grants) \/ i = Len(grants) + 1
  BY <1>2
<1> QED
  BY <1>2, <1>3, <1>4

\* What is marked for a grant are blocks.
LEMMA MarkedNat ==
  ASSUME NEW g \in Grant
  PROVE  Marked(g) \subseteq Nat
<1>1. g.start \in Nat /\ g.size \in Nat
  BY DEF Grant
<1> QED
  BY <1>1 DEF Marked, Marks, MarksRepeated

\* Planning keeps the counts, the order of turns and the limits of the BWP.
LEMMA PlannedKeeps ==
  ASSUME IInv, NEW g, NEW M, MayPlan(g), Planned(g, M), retx' = retx
  PROVE  /\ remain' >= 0
         /\ DciLimit'
         /\ OneGrantRetxFirst'
         /\ GrantsInBwp'
<1>1. g \in Grant /\ TypeOK
  BY DEF IInv, MayPlan
<1>2. /\ Len(grants) \in Nat
      /\ Len(grants') = Len(grants) + 1
      /\ \A i \in 1..Len(grants) : grants'[i] = grants[i]
      /\ grants'[Len(grants) + 1] = g
      /\ \A i \in 1..Len(grants') : i \in 1..Len(grants) \/ i = Len(grants) + 1
  BY <1>1, Appended
<1>3. remain \in Int /\ remain' = remain - 1
  BY <1>1 DEF TypeOK, Planned
<1>4. remain' >= 0 /\ DciLimit'
  BY <1>2, <1>3 DEF IInv, MayPlan, DciLimit
<1>5. OneGrantRetxFirst'
  <2> SUFFICES ASSUME NEW j \in 1..Len(grants')
               PROVE  /\ IsNew(grants'[j]) => retx[grants'[j].ue] = 0
                      /\ \A i \in 1..j - 1 : grants'[i].ue # grants'[j].ue
    BY DEF OneGrantRetxFirst, IsNew
  <2>1. CASE j \in 1..Len(grants)
    <3>1. /\ IsNew(grants[j]) => retx[grants[j].ue] = 0
          /\ \A i \in 1..j - 1 : grants[i].ue # grants[j].ue
      BY <2>1 DEF IInv, OneGrantRetxFirst
    <3>2. grants'[j] = grants[j] /\ \A i \in 1..j - 1 : grants'[i] = grants[i]
      BY <1>2, <2>1
    <3> QED
      BY <3>1, <3>2 DEF IsNew
  <2>2. CASE j = Len(grants) + 1
    <3>1. grants'[j] = g /\ j - 1 = Len(grants)
      BY <1>2, <2>2
    <3>2. \A i \in 1..j - 1 : grants'[i] = grants[i] /\ grants[i].ue # g.ue
      BY <1>2, <3>1 DEF MayPlan, HasGrant
    <3>3. \A i \in 1..j - 1 : grants'[i].ue # grants'[j].ue
      BY <3>1, <3>2
    <3>4. IsNew(grants'[j]) => retx[grants'[j].ue] = 0
      BY <3>1 DEF MayPlan, IsNew
    <3> QED
      BY <3>3, <3>4
  <2> QED
    BY <1>2, <2>1, <2>2
<1>6. GrantsInBwp'
  <2> SUFFICES ASSUME NEW j \in 1..Len(grants')
               PROVE  grants'[j].start + grants'[j].size =< BwpSize
    BY DEF GrantsInBwp
  <2>1. CASE j \in 1..Len(grants)
    BY <1>2, <2>1 DEF IInv, GrantsInBwp
  <2>2. CASE j = Len(grants) + 1
    BY <1>2, <2>2 DEF MayPlan
  <2> QED
    BY <1>2, <2>1, <2>2
<1> QED
  BY <1>4, <1>5, <1>6

\* A shaped size is positive and fits into what is available.
LEMMA ShapedFits ==
  ASSUME NEW u \in Ue, NEW available \in Nat, NEW size \in 1..available
  PROVE  Shaped(u, size, available) \in 1..available
BY DEF Shaped, Larger, Smaller

\* What Repeat and RepeatElsewhere plan may be planned, and its blocks were
\* free.
LEMMA RepeatMay ==
  ASSUME IInv, NEW u \in Ue, Repeat(u) \/ RepeatElsewhere(u)
  PROVE  \E g : /\ MayPlan(g) /\ Planned(g, Marked(g)) /\ Free(g)
                /\ g.ue = u /\ g.kind = "retx"
                /\ phase = "collect" /\ visit = u /\ visit' = u + 1
                /\ UNCHANGED <<slotVars, phase, cands, runtime>>
<1>1. retx[u] \in Nat
  <2>1. retx \in [Ue -> RetxSizes \cup {0}]
    BY DEF IInv, TypeOK
  <2>2. RetxSizes \cup {0} \subseteq Nat
    OBVIOUS
  <2> QED
    BY <2>1, <2>2
<1>2. PICK start \in Nat, size \in Nat \ {0} :
        /\ start + size =< BwpSize
        /\ \A i \in 0..size - 1 : ~Used(start + i)
        /\ PlanRepeat(u, start, size)
  <2>1. CASE Repeat(u)
    <3>1. PICK start \in Span : FirstFit(start, retx[u]) /\ PlanRepeat(u, start, retx[u])
      BY <2>1 DEF Repeat
    <3>2. start \in Nat /\ retx[u] \in Nat \ {0}
      BY <1>1, <3>1 DEF PlanRepeat, Span
    <3>3. /\ start + retx[u] =< BwpSize
          /\ \A i \in start..start + retx[u] - 1 : ~Used(i)
      BY <3>1 DEF FirstFit, Fits
    <3>4. \A i \in 0..retx[u] - 1 : ~Used(start + i)
      BY <3>2, <3>3
    <3> QED
      BY <3>1, <3>2, <3>3, <3>4
  <2>2. CASE RepeatElsewhere(u)
    <3>1. PICK start \in Span, len \in Span :
            /\ FreeRun(start, len) /\ ~Used(start)
            /\ \E size \in 1..len : PlanRepeat(u, start, size)
      BY <2>2 DEF RepeatElsewhere
    <3>2. PICK size \in 1..len : PlanRepeat(u, start, size)
      BY <3>1
    <3>3. start \in Nat /\ len \in Nat /\ size \in Nat \ {0} /\ start + size =< BwpSize
      BY <3>1 DEF FreeRun, Span
    <3>4. \A i \in 0..size - 1 : ~Used(start + i)
      <4> SUFFICES ASSUME NEW i \in 0..size - 1 PROVE ~Used(start + i)
        OBVIOUS
      <4>1. CASE i = 0
        BY <3>1, <3>3, <4>1
      <4>2. CASE i > 0
        BY <3>1, <3>3, <4>2 DEF FreeRun
      <4> QED
        BY <3>3, <4>1, <4>2
    <3> QED
      BY <3>2, <3>3, <3>4
  <2> QED
    BY <2>1, <2>2
<1> DEFINE g == [ue |-> u, start |-> start, size |-> size, kind |-> "retx"]
<1>3. /\ remain > 0 /\ phase = "collect" /\ visit = u /\ visit' = u + 1
      /\ Planned(g, MarksRepeated(start, size))
      /\ UNCHANGED <<slotVars, phase, cands, runtime>>
  BY <1>2 DEF PlanRepeat, Visiting
<1>4. g \in Grant
  BY DEF Grant
<1>5. ~HasGrant(u)
  <2>1. \A i \in 1..Len(grants) : grants[i].ue < u
    BY <1>3 DEF IInv, Turns
  <2>2. u \in Nat
    BY DEF Ue
  <2> QED
    BY <2>1, <2>2 DEF HasGrant
<1>6. MayPlan(g)
  BY <1>2, <1>3, <1>4, <1>5 DEF MayPlan, IsNew
<1>7. Free(g) /\ Marked(g) = MarksRepeated(start, size)
  BY <1>2 DEF Free, Marked
<1> QED
  BY <1>3, <1>6, <1>7

\* What GrantNew plans may be planned; its blocks were free if the minimum
\* grant of the UE asks for more than one.
LEMMA GrantNewMay ==
  ASSUME IInv, NEW c \in cands, GrantNew(c)
  PROVE  \E g : /\ MayPlan(g) /\ Planned(g, Marked(g))
                /\ Searched(g) => Free(g)
                /\ g.ue = c.ue /\ IsNew(g)
<1>1. c.ue \in Ue /\ retx[c.ue] = 0 /\ ~HasGrant(c.ue) /\ TypeOK
  BY CandidateFields DEF IInv, Turns
<1>2. PICK start \in Span, len \in Span :
        /\ FreeRun(start, len)
        /\ HasRoom(c, len)
        /\ \E need \in MinRb[c.ue]..len :
             LET size == Shaped(c.ue, need, len)
             IN Planned([ue |-> c.ue, start |-> start, size |-> size, kind |-> "new"],
                        Marks(start, size))
  BY DEF GrantNew
<1>3. PICK need \in MinRb[c.ue]..len :
        Planned([ue |-> c.ue, start |-> start, size |-> Shaped(c.ue, need, len),
                 kind |-> "new"], Marks(start, Shaped(c.ue, need, len)))
  BY <1>2
<1> DEFINE size == Shaped(c.ue, need, len)
           g == [ue |-> c.ue, start |-> start, size |-> size, kind |-> "new"]
<1>4. MinRb[c.ue] \in Nat \ {0} /\ len \in Nat /\ start \in Nat /\ need \in 1..len
  BY <1>1, <1>3 DEF Span
<1>5. size \in 1..len
  BY <1>1, <1>4, ShapedFits
<1> HIDE DEF size
<1>6. size \in Nat \ {0} /\ start + size =< BwpSize
  BY <1>2, <1>4, <1>5 DEF FreeRun
<1>7. g \in Grant
  BY <1>1, <1>4, <1>6 DEF Grant
<1>8. remain > 0
  BY <1>2 DEF HasRoom, IInv, TypeOK
<1>9. MayPlan(g)
  BY <1>1, <1>6, <1>7, <1>8 DEF MayPlan
<1>10. ASSUME MinRb[c.ue] > 1 PROVE \A i \in 0..size - 1 : ~Used(start + i)
  <2>1. len > 1
    BY <1>2, <1>4, <1>10 DEF HasRoom
  <2>2. ~Used(start)
    BY <1>2, <1>4, <2>1 DEF FreeRun
  <2> SUFFICES ASSUME NEW i \in 0..size - 1 PROVE ~Used(start + i)
    OBVIOUS
  <2>3. CASE i = 0
    BY <1>4, <2>2, <2>3
  <2>4. CASE i > 0
    BY <1>2, <1>4, <1>5, <2>4 DEF FreeRun
  <2> QED
    BY <1>6, <2>3, <2>4
<1>11. Searched(g) => Free(g)
  BY <1>10 DEF Searched, Free
<1>12. Planned(g, Marked(g)) /\ IsNew(g) /\ g.ue = c.ue
  BY <1>3 DEF size, Marked, IsNew
<1> QED
  BY <1>9, <1>11, <1>12

(***************************************************************************)
(* The inductive invariant                                                 *)
(***************************************************************************)

LEMMA InitIInv == Init => IInv
<1> SUFFICES ASSUME Init PROVE IInv
  OBVIOUS
<1>1. TypeOK
  BY DEF Init, TypeOK
<1>2. Len(grants) = 0
  BY DEF Init
<1>3. Turns /\ DciLimit /\ OneGrantRetxFirst /\ GrantsInBwp /\ remain >= 0
  BY <1>2 DEF Init, Turns, DciLimit, OneGrantRetxFirst, GrantsInBwp
<1> QED
  BY <1>1, <1>3 DEF IInv

LEMMA BeginIInv ==
  ASSUME IInv, NEW gap \in Gaps, Begin(gap)
  PROVE  IInv'
<1>1. TypeOK'
  <2>1. tick' \in 0..Wrap - 1
    BY DEF IInv, TypeOK, Begin, TickAfter
  <2>2. taken' \subseteq Nat /\ mask' \subseteq Nat
    BY DEF Begin
  <2>3. streak' \in [Ue -> 0..RunMax]
    <3>1. \A u \in Ue : Smaller(streak[u] + 1, RunMax) \in 0..RunMax
      BY DEF IInv, TypeOK, Smaller
    <3> QED
      BY <3>1 DEF Begin
  <2>4. left' \in Int /\ remain' \in Int /\ grants' \in Seq(Grant) /\ visit' \in 1..NumUe + 1
    BY DlCarrierAssumption DEF Begin
  <2>5. last' \in [Ue -> -1..Wrap - 1] /\ run' \in [Ue -> 0..RunMax]
    BY DEF IInv, TypeOK, Begin, runtime
  <2>6. retx' \in [Ue -> RetxSizes \cup {0}] /\ phase' = "collect" /\ cands' = {}
    BY DEF Begin
  <2> QED
    BY <2>1, <2>2, <2>3, <2>4, <2>5, <2>6 DEF TypeOK
<1>2. Len(grants') = 0 /\ cands' = {} /\ remain' = MaxUe
  BY DEF Begin
<1>3. Turns' /\ DciLimit' /\ OneGrantRetxFirst' /\ GrantsInBwp' /\ remain' >= 0
  BY <1>2 DEF Turns, DciLimit, OneGrantRetxFirst, GrantsInBwp
<1> QED
  BY <1>1, <1>3 DEF IInv

\* The steps that leave the grants alone: a UE is passed over, collected,
\* refused or told of its PDSCH, or a loop ends.
LEMMA QuietIInv ==
  ASSUME IInv,
         UNCHANGED <<slotVars, pool>>,
         last' \in [Ue -> -1..Wrap - 1], run' \in [Ue -> 0..RunMax],
         visit' \in 1..NumUe + 1,
         phase' \in {"idle", "collect", "allocate", "send"},
         phase' = "collect" => phase = "collect" /\ visit' >= visit,
         \A c \in cands' : /\ c \in Candidate /\ ~HasGrant(c.ue) /\ retx[c.ue] = 0
                           /\ phase' = "collect" => c.ue < visit',
         \A c, d \in cands' : c.ue = d.ue => c = d
  PROVE  IInv'
<1> USE DEF slotVars, pool
<1>1. TypeOK'
  BY DEF IInv, TypeOK
<1>2. Turns'
  <2>1. phase' = "collect" => \A i \in 1..Len(grants) : grants[i].ue < visit'
    <3> SUFFICES ASSUME phase' = "collect", NEW i \in 1..Len(grants)
                 PROVE  grants[i].ue < visit'
      OBVIOUS
    <3>1. grants[i].ue \in Nat /\ grants[i].ue < visit
      BY GrantFields DEF IInv, Turns
    <3>2. visit \in Nat /\ visit' \in Nat /\ visit =< visit'
      BY DEF IInv, TypeOK
    <3> QED
      BY <3>1, <3>2
  <2> QED
    BY <2>1 DEF Turns, HasGrant
<1>3. DciLimit' /\ OneGrantRetxFirst' /\ GrantsInBwp' /\ remain' >= 0
  BY DEF IInv, DciLimit, OneGrantRetxFirst, GrantsInBwp, IsNew
<1> QED
  BY <1>1, <1>2, <1>3 DEF IInv

\* A grant for a UE that no candidate names keeps the invariant.
LEMMA PlannedIInv ==
  ASSUME IInv, NEW g, MayPlan(g), Planned(g, Marked(g)),
         UNCHANGED <<slotVars, phase, runtime>>,
         visit' \in visit..NumUe + 1,
         phase = "collect" => g.ue < visit',
         cands' \subseteq cands,
         \A c \in cands' : c.ue # g.ue
  PROVE  IInv'
<1> USE DEF slotVars, runtime
<1>1. g \in Grant /\ TypeOK /\ g.ue \in Ue
  BY DEF IInv, MayPlan, Grant
<1>2. /\ Len(grants) \in Nat
      /\ grants' \in Seq(Grant)
      /\ Len(grants') = Len(grants) + 1
      /\ \A i \in 1..Len(grants) : grants'[i] = grants[i]
      /\ grants'[Len(grants) + 1] = g
      /\ \A i \in 1..Len(grants') : i \in 1..Len(grants) \/ i = Len(grants) + 1
  BY <1>1, Appended
<1>3. TypeOK'
  <2>1. mask' \subseteq Nat
    BY <1>1, MarkedNat DEF TypeOK, Planned
  <2>2. remain' \in Int /\ left' \in Int
    <3>1. g.size \in Int
      BY <1>1 DEF Grant
    <3> QED
      BY <1>1, <3>1 DEF TypeOK, Planned
  <2>3. visit' \in 1..NumUe + 1
    BY <1>1 DEF TypeOK
  <2>4. cands' \subseteq Candidate
    BY <1>1 DEF TypeOK
  <2> QED
    BY <1>1, <1>2, <2>1, <2>2, <2>3, <2>4 DEF TypeOK
<1>4. Turns'
  <2>1. ASSUME phase = "collect", NEW i \in 1..Len(grants') PROVE grants'[i].ue < visit'
    <3>1. CASE i \in 1..Len(grants)
      <4>1. grants[i].ue < visit /\ grants[i].ue \in Nat
        BY <1>1, <2>1, <3>1, GrantFields DEF IInv, Turns
      <4> QED
        BY <1>1, <1>2, <3>1, <4>1 DEF TypeOK
    <3>2. CASE i = Len(grants) + 1
      BY <1>2, <2>1, <3>2
    <3> QED
      BY <1>2, <3>1, <3>2
  <2>2. ASSUME NEW c \in cands'
        PROVE  ~HasGrant(c.ue)' /\ retx[c.ue] = 0
    <3>1. c \in cands /\ ~HasGrant(c.ue) /\ retx[c.ue] = 0
      BY DEF IInv, Turns
    <3>2. ~HasGrant(c.ue)'
      <4> SUFFICES ASSUME NEW i \in 1..Len(grants') PROVE grants'[i].ue # c.ue
        BY DEF HasGrant
      <4>1. CASE i \in 1..Len(grants)
        BY <1>2, <3>1, <4>1 DEF HasGrant
      <4>2. CASE i = Len(grants) + 1
        BY <1>2, <4>2
      <4> QED
        BY <1>2, <4>1, <4>2
    <3> QED
      BY <3>1, <3>2
  <2>3. phase = "collect" => \A c \in cands' : c.ue < visit'
    <3>1. \A c \in cands' : c.ue \in Nat
      BY <1>1, CandidateFields
    <3>2. visit \in Nat /\ visit' \in Nat /\ visit =< visit'
      BY <1>1 DEF TypeOK
    <3>3. phase = "collect" => \A c \in cands' : c.ue < visit
      BY DEF IInv, Turns
    <3> QED
      BY <3>1, <3>2, <3>3
  <2>4. \A c, d \in cands' : c.ue = d.ue => c = d
    BY DEF IInv, Turns
  <2> QED
    BY <2>1, <2>2, <2>3, <2>4 DEF Turns
<1>5. remain' >= 0 /\ DciLimit' /\ OneGrantRetxFirst' /\ GrantsInBwp'
  BY PlannedKeeps
<1> QED
  BY <1>3, <1>4, <1>5 DEF IInv

\* NoteGrant keeps the runtime table well typed.
LEMMA NoteType ==
  ASSUME TypeOK, NEW u \in Ue, NoteGrant(u)
  PROVE  last' \in [Ue -> -1..Wrap - 1] /\ run' \in [Ue -> 0..RunMax]
<1>1. CASE UNCHANGED runtime
  BY <1>1 DEF TypeOK, runtime
<1>2. CASE /\ last' = [last EXCEPT ![u] = tick]
           /\ run' = [run EXCEPT ![u] =
                IF last[u] = tick - 1 THEN Smaller(run[u] + 1, RunMax) ELSE 1]
  <2>1. tick \in -1..Wrap - 1
    BY DEF TypeOK
  <2>2. (IF last[u] = tick - 1 THEN Smaller(run[u] + 1, RunMax) ELSE 1) \in 0..RunMax
    BY DEF TypeOK, Smaller
  <2> QED
    BY <1>2, <2>1, <2>2 DEF TypeOK
<1> QED
  BY <1>1, <1>2 DEF NoteGrant

\* Each step of a slot is one of the three kinds above.
LEMMA StepIInv ==
  ASSUME IInv, [Next]_vars
  PROVE  IInv'
<1>0. /\ TypeOK /\ NumUe \in Nat /\ visit \in Nat
      /\ last \in [Ue -> -1..Wrap - 1] /\ run \in [Ue -> 0..RunMax]
  BY DEF IInv, TypeOK
<1>a. \A c \in cands : /\ c \in Candidate /\ c.ue \in Nat
                       /\ ~HasGrant(c.ue) /\ retx[c.ue] = 0
                       /\ phase = "collect" => c.ue < visit
  BY <1>0, CandidateFields DEF IInv, Turns
<1>b. \A c, d \in cands : c.ue = d.ue => c = d
  BY DEF IInv, Turns
<1>1. ASSUME NEW gap \in Gaps, Begin(gap) PROVE IInv'
  BY <1>1, BeginIInv
<1>2. ASSUME NEW u \in Ue, Skip(u) PROVE IInv'
  <2>1. /\ UNCHANGED <<slotVars, pool>> /\ cands' = cands
        /\ last' = last /\ run' = run
        /\ phase' = phase /\ phase = "collect"
    BY <1>2 DEF Skip, Visiting, runtime
  <2>2. visit' = visit + 1 /\ visit' \in 1..NumUe + 1
    BY <1>0, <1>2 DEF Skip, Visiting, Ue
  <2>3. \A c \in cands' : c.ue < visit'
    BY <1>0, <1>a, <2>1, <2>2
  <2>4. visit' >= visit
    BY <1>0, <2>2
  <2> QED
    BY <1>0, <1>a, <1>b, <2>1, <2>2, <2>3, <2>4, QuietIInv
<1>3. ASSUME NEW u \in Ue, Repeat(u) \/ RepeatElsewhere(u) PROVE IInv'
  <2>1. PICK g : /\ MayPlan(g) /\ Planned(g, Marked(g)) /\ g.ue = u
                 /\ phase = "collect" /\ visit = u /\ visit' = u + 1
                 /\ UNCHANGED <<slotVars, phase, cands, runtime>>
    BY <1>3, RepeatMay
  <2>2. visit' \in visit..NumUe + 1 /\ g.ue < visit'
    BY <1>0, <2>1 DEF Ue
  <2>3. \A c \in cands' : c.ue # g.ue
    BY <1>0, <1>a, <2>1
  <2> QED
    BY <2>1, <2>2, <2>3, PlannedIInv
<1>4. ASSUME NEW u \in Ue, Collect(u) PROVE IInv'
  <2>1. /\ visit = u /\ visit' = visit + 1 /\ retx[u] = 0
        /\ phase' = phase /\ phase = "collect"
        /\ UNCHANGED <<slotVars, pool>> /\ last' = last /\ run' = run
    BY <1>4 DEF Collect, Visiting, runtime
  <2>2. PICK coef \in Coefs :
          cands' = cands \cup {[ue |-> u, coef |-> IF Throttled(u) THEN 0 ELSE coef]}
    BY <1>4 DEF Collect
  <2> DEFINE new == [ue |-> u, coef |-> IF Throttled(u) THEN 0 ELSE coef]
  <2>3. visit' \in 1..NumUe + 1 /\ visit' >= visit /\ u \in Nat /\ u < visit'
    BY <1>0, <2>1 DEF Ue
  <2>4. ~HasGrant(u)
    BY <2>1 DEF IInv, Turns, HasGrant, Ue
  <2>5. new \in Candidate /\ new.ue = u
    BY DEF Candidate
  <2> HIDE DEF new
  <2>6. \A c \in cands' : c \in cands \/ c = new
    BY <2>2 DEF new
  <2>7. \A c \in cands' : c \in Candidate /\ ~HasGrant(c.ue) /\ retx[c.ue] = 0 /\ c.ue < visit'
    <3>1. \A c \in cands : c.ue < visit'
      BY <1>0, <1>a, <2>1, <2>3
    <3> QED
      BY <1>a, <2>1, <2>3, <2>4, <2>5, <2>6, <3>1
  <2>8. \A c, d \in cands' : c.ue = d.ue => c = d
    <3>1. \A c \in cands : c.ue # u
      BY <1>0, <1>a, <2>1
    <3> QED
      BY <1>b, <2>5, <2>6, <3>1
  <2>9. phase' \in {"idle", "collect", "allocate", "send"}
    BY <2>1
  <2> QED
    BY <1>0, <2>1, <2>3, <2>7, <2>8, <2>9, QuietIInv
<1>5. ASSUME NEW c \in cands, GrantNew(c) PROVE IInv'
  <2>1. PICK g : MayPlan(g) /\ Planned(g, Marked(g)) /\ g.ue = c.ue
    BY <1>5, GrantNewMay
  <2>2. /\ UNCHANGED <<slotVars, phase, runtime>> /\ cands' = cands \ {c}
        /\ phase = "allocate" /\ visit' = visit
    BY <1>5 DEF GrantNew, Turn
  <2>3. visit' \in visit..NumUe + 1
    BY <1>0, <2>2 DEF TypeOK
  <2>4. \A d \in cands' : d.ue # g.ue
    BY <1>b, <2>1, <2>2
  <2> QED
    BY <2>1, <2>2, <2>3, <2>4, PlannedIInv
<1>6. ASSUME \/ Sort \/ EndPass \/ End \/ \E c \in cands : Refuse(c)
      PROVE  IInv'
  <2>1. /\ UNCHANGED <<slotVars, pool>> /\ last' = last /\ run' = run
        /\ cands' \subseteq cands /\ phase' \in {"idle", "allocate", "send"}
        /\ visit' = visit \/ visit' = 1
    BY <1>6 DEF Sort, EndPass, End, Refuse, Turn, runtime
  <2>2. visit' \in 1..NumUe + 1
    BY <1>0, <2>1 DEF TypeOK
  <2> QED
    BY <1>0, <1>a, <1>b, <2>1, <2>2, QuietIInv
<1>7. ASSUME NEW u \in Ue, SendTo(u) PROVE IInv'
  <2>1. /\ UNCHANGED <<slotVars, pool>> /\ cands' = cands
        /\ phase' = phase /\ phase = "send" /\ visit' = u + 1
    BY <1>7 DEF SendTo
  <2>2. last' \in [Ue -> -1..Wrap - 1] /\ run' \in [Ue -> 0..RunMax]
    <3>1. CASE NoteGrant(u)
      BY <1>0, <3>1, NoteType
    <3>2. CASE UNCHANGED runtime
      BY <1>0, <3>2 DEF runtime
    <3> QED
      BY <1>7, <3>1, <3>2 DEF SendTo
  <2>3. visit' \in 1..NumUe + 1
    BY <2>1 DEF Ue
  <2> QED
    BY <1>a, <1>b, <2>1, <2>2, <2>3, QuietIInv
<1>8. ASSUME UNCHANGED vars PROVE IInv'
  <2>1. /\ UNCHANGED <<slotVars, pool>> /\ last' = last /\ run' = run /\ cands' = cands
        /\ phase' = phase /\ visit' = visit
    BY <1>8 DEF vars, slotVars, pool
  <2>2. visit' \in 1..NumUe + 1 /\ visit' >= visit
        /\ phase' \in {"idle", "collect", "allocate", "send"}
    BY <1>0, <2>1 DEF TypeOK
  <2> QED
    BY <1>0, <1>a, <1>b, <2>1, <2>2, QuietIInv
<1> QED
  BY <1>1, <1>2, <1>3, <1>4, <1>5, <1>6, <1>7, <1>8 DEF Next

LEMMA InvariantHolds == Spec => []IInv
<1>1. IInv /\ [Next]_vars => IInv'
  BY StepIInv
<1> QED
  BY <1>1, InitIInv, PTL DEF Spec

\* Every variable keeps its type.
THEOREM DlPassTypeOK == Spec => []TypeOK
<1>1. IInv => TypeOK
  BY DEF IInv
<1> QED
  BY <1>1, InvariantHolds, PTL

\* A slot sends at most MaxUe DCIs.
THEOREM DlPassDciLimit == Spec => []DciLimit
<1>1. IInv => DciLimit
  BY DEF IInv
<1> QED
  BY <1>1, InvariantHolds, PTL

\* A UE gets one PDSCH in a slot, and no new data while it waits for a
\* retransmission.
THEOREM DlPassOneGrantRetxFirst == Spec => []OneGrantRetxFirst
<1>1. IInv => OneGrantRetxFirst
  BY DEF IInv
<1> QED
  BY <1>1, InvariantHolds, PTL

\* No PDSCH reaches beyond the BWP, whatever posture and policy say.
THEOREM DlPassGrantsInBwp == Spec => []GrantsInBwp
<1>1. IInv => GrantsInBwp
  BY DEF IInv
<1> QED
  BY <1>1, InvariantHolds, PTL

(***************************************************************************)
(* Blocks.  The marking loop for new data leaves out the last bwp_start    *)
(* blocks, that of allocate_dl_retransmission as many more as there are    *)
(* blocks before the retransmission; the map covers all the others.        *)
(***************************************************************************)

\* the first block that the marking loop does not come to
MarkEnd(g) == IF g.kind = "retx" THEN g.size ELSE g.start + g.size

\* the blocks of a PDSCH that are left out
Unmarked(g) == {b \in Blocks(g) : b >= MarkEnd(g)}

MaskCovers ==
  /\ taken \subseteq mask
  /\ \A i \in 1..Len(grants) : Blocks(grants[i]) \ Unmarked(grants[i]) \subseteq mask

\* No PDSCH whose blocks were searched for has one that was in use when the
\* slot began; one of an earlier PDSCH only where that was left unmarked.
SharesOnlyUnmarked ==
  \A j \in 1..Len(grants) :
    Searched(grants[j]) =>
      /\ Blocks(grants[j]) \cap taken = {}
      /\ \A i \in 1..j - 1 :
           Blocks(grants[j]) \cap Blocks(grants[i]) \subseteq Unmarked(grants[i])

BlockInv == IInv /\ MaskCovers /\ SharesOnlyUnmarked

LEMMA MarksTheRest ==
  ASSUME NEW g \in Grant
  PROVE  Blocks(g) \ Unmarked(g) \subseteq Marked(g)
<1>1. /\ g.start \in Nat /\ g.size \in Nat /\ BwpStart \in Nat
      /\ g.kind \in {"retx", "new"}
  BY DlPassAssumption DEF Grant, DlPassAssumption
<1> SUFFICES ASSUME NEW i \in 0..g.size - 1, BwpStart + g.start + i < MarkEnd(g)
             PROVE  BwpStart + g.start + i \in Marked(g)
  BY <1>1 DEF Blocks, Unmarked, MarkEnd
<1>2. CASE g.kind = "new"
  <2>1. BwpStart + i \in BwpStart..g.size - 1
    BY <1>1, <1>2 DEF MarkEnd
  <2>2. BwpStart + g.start + i = g.start + (BwpStart + i)
    BY <1>1
  <2> QED
    BY <1>2, <2>1, <2>2 DEF Marked, Marks
<1>3. CASE g.kind = "retx"
  BY <1>1, <1>3 DEF MarkEnd, Marked, MarksRepeated
<1> QED
  BY <1>1, <1>2, <1>3

\* A grant of free blocks keeps what the map says.
LEMMA PlannedBlocks ==
  ASSUME BlockInv, NEW g, MayPlan(g), Planned(g, Marked(g)),
         Searched(g) => Free(g), taken' = taken
  PROVE  MaskCovers' /\ SharesOnlyUnmarked'
<1>1. g \in Grant /\ TypeOK
  BY DEF BlockInv, IInv, MayPlan
<1>2. /\ Len(grants) \in Nat
      /\ Len(grants') = Len(grants) + 1
      /\ \A i \in 1..Len(grants) : grants'[i] = grants[i]
      /\ grants'[Len(grants) + 1] = g
      /\ \A i \in 1..Len(grants') : i \in 1..Len(grants) \/ i = Len(grants) + 1
  BY <1>1, Appended
<1>3. mask' = mask \cup Marked(g)
  BY DEF Planned
<1>4. Searched(g) => Blocks(g) \cap mask = {}
  <2>1. g.start \in Nat /\ g.size \in Nat /\ BwpStart \in Nat
    BY <1>1, DlPassAssumption DEF Grant, DlPassAssumption
  <2>2. \A i \in 0..g.size - 1 : BwpStart + (g.start + i) = BwpStart + g.start + i
    BY <2>1
  <2> QED
    BY <2>2 DEF Free, Used, Blocks
<1>5. \A i \in 1..Len(grants) : Blocks(grants[i]) \ Unmarked(grants[i]) \subseteq mask
  BY DEF BlockInv, MaskCovers
<1>6. MaskCovers'
  <2> SUFFICES ASSUME NEW i \in 1..Len(grants')
               PROVE  Blocks(grants'[i]) \ Unmarked(grants'[i]) \subseteq mask'
    BY <1>3 DEF BlockInv, MaskCovers, Blocks, Unmarked, MarkEnd
  <2>1. CASE i \in 1..Len(grants)
    BY <1>2, <1>3, <1>5, <2>1
  <2>2. CASE i = Len(grants) + 1
    BY <1>1, <1>2, <1>3, <2>2, MarksTheRest
  <2> QED
    BY <1>2, <2>1, <2>2
<1>7. SharesOnlyUnmarked'
  <2> SUFFICES ASSUME NEW j \in 1..Len(grants'), Searched(grants'[j])
               PROVE  /\ Blocks(grants'[j]) \cap taken = {}
                      /\ \A i \in 1..j - 1 :
                           Blocks(grants'[j]) \cap Blocks(grants'[i])
                             \subseteq Unmarked(grants'[i])
    BY DEF SharesOnlyUnmarked, Searched, Blocks, Unmarked, MarkEnd
  <2>1. CASE j \in 1..Len(grants)
    <3>1. grants'[j] = grants[j] /\ \A i \in 1..j - 1 : grants'[i] = grants[i]
      BY <1>2, <2>1
    <3> QED
      BY <2>1, <3>1 DEF BlockInv, SharesOnlyUnmarked
  <2>2. CASE j = Len(grants) + 1
    <3>1. grants'[j] = g /\ \A i \in 1..j - 1 : i \in 1..Len(grants) /\ grants'[i] = grants[i]
      BY <1>2, <2>2
    <3>2. Blocks(g) \cap mask = {}
      BY <1>4, <3>1
    <3> QED
      BY <1>5, <3>1, <3>2 DEF BlockInv, MaskCovers
  <2> QED
    BY <1>2, <2>1, <2>2
<1> QED
  BY <1>6, <1>7

LEMMA StepBlocks ==
  ASSUME BlockInv, [Next]_vars
  PROVE  BlockInv'
<1>0. IInv'
  BY StepIInv DEF BlockInv
<1>1. ASSUME NEW gap \in Gaps, Begin(gap) PROVE MaskCovers' /\ SharesOnlyUnmarked'
  <2>1. Len(grants') = 0 /\ mask' = taken'
    BY <1>1 DEF Begin
  <2> QED
    BY <2>1 DEF MaskCovers, SharesOnlyUnmarked
<1>2. ASSUME UNCHANGED <<taken, mask, grants>> PROVE MaskCovers' /\ SharesOnlyUnmarked'
  <2>1. MaskCovers'
    BY <1>2 DEF BlockInv, MaskCovers, Blocks, Unmarked, MarkEnd
  <2>2. SharesOnlyUnmarked'
    <3> SUFFICES ASSUME NEW j \in 1..Len(grants'), Searched(grants'[j])
                 PROVE  /\ Blocks(grants'[j]) \cap taken' = {}
                        /\ \A i \in 1..j - 1 :
                             Blocks(grants'[j]) \cap Blocks(grants'[i])
                               \subseteq Unmarked(grants'[i])
      BY DEF SharesOnlyUnmarked, Searched, Blocks, Unmarked, MarkEnd
    <3> QED
      BY <1>2 DEF BlockInv, SharesOnlyUnmarked
  <2> QED
    BY <2>1, <2>2
<1>3. ASSUME NEW u \in Ue, Repeat(u) \/ RepeatElsewhere(u)
      PROVE  MaskCovers' /\ SharesOnlyUnmarked'
  <2>1. PICK g : MayPlan(g) /\ Planned(g, Marked(g)) /\ Free(g) /\ UNCHANGED slotVars
    BY <1>3, RepeatMay DEF BlockInv
  <2> QED
    BY <2>1, PlannedBlocks DEF slotVars
<1>4. ASSUME NEW c \in cands, GrantNew(c) PROVE MaskCovers' /\ SharesOnlyUnmarked'
  <2>1. PICK g : MayPlan(g) /\ Planned(g, Marked(g)) /\ (Searched(g) => Free(g))
    BY <1>4, GrantNewMay DEF BlockInv
  <2>2. taken' = taken
    BY <1>4 DEF GrantNew, slotVars
  <2> QED
    BY <2>1, <2>2, PlannedBlocks
<1>5. ASSUME \/ \E u \in Ue : Skip(u) \/ Collect(u) \/ SendTo(u)
             \/ Sort \/ EndPass \/ End \/ UNCHANGED vars
             \/ \E c \in cands : Refuse(c)
      PROVE  UNCHANGED <<taken, mask, grants>>
  BY <1>5 DEF Skip, Collect, SendTo, Sort, EndPass, End, Refuse, vars, slotVars, pool
<1> QED
  BY <1>0, <1>1, <1>2, <1>3, <1>4, <1>5 DEF Next, BlockInv

\* Wherever the BWP begins: a PDSCH whose blocks were searched for has none
\* that was in use before the slot, and shares with an earlier one of the slot
\* only blocks that the marking loop of the earlier one left out.
THEOREM DlPassSharesOnlyUnmarked == Spec => []SharesOnlyUnmarked
<1>1. Init => BlockInv
  BY InitIInv DEF Init, BlockInv, MaskCovers, SharesOnlyUnmarked
<1>2. BlockInv /\ [Next]_vars => BlockInv'
  BY StepBlocks
<1>3. BlockInv => SharesOnlyUnmarked
  BY DEF BlockInv
<1> QED
  BY <1>1, <1>2, <1>3, PTL DEF Spec

\* Where the BWP begins at the first block of the carrier, PDSCHs overlap only
\* in what a retransmission behind the first block leaves unmarked, and none
\* is given a block that was in use before the slot.
THEOREM DlPassOverlapOnlyUnmarked ==
  ASSUME BwpStart = 0
  PROVE  Spec => []OverlapOnlyUnmarked
<1>1. ASSUME TypeOK, SharesOnlyUnmarked PROVE OverlapOnlyUnmarked
  <2> SUFFICES ASSUME NEW j \in 1..Len(grants), Searched(grants[j])
               PROVE  /\ Blocks(grants[j]) \cap taken = {}
                      /\ \A i \in 1..j - 1 :
                           Blocks(grants[i]) \cap Blocks(grants[j]) # {}
                             => PartlyMarked(grants[i])
    BY DEF OverlapOnlyUnmarked
  <2>1. ASSUME NEW i \in 1..j - 1, ~PartlyMarked(grants[i]) PROVE Unmarked(grants[i]) = {}
    <3>1. Len(grants) \in Nat /\ i \in 1..Len(grants)
      BY <1>1, <2>1 DEF TypeOK
    <3>2. grants[i].start \in Nat /\ grants[i].size \in Nat
      BY <1>1, <3>1, GrantFields
    <3>3. MarkEnd(grants[i]) = grants[i].start + grants[i].size
      BY <2>1, <3>2 DEF MarkEnd, PartlyMarked
    <3> QED
      BY <3>2, <3>3 DEF Unmarked, Blocks
  <2> QED
    BY <1>1, <2>1 DEF SharesOnlyUnmarked
<1> QED
  BY <1>1, DlPassTypeOK, DlPassSharesOnlyUnmarked, PTL

(***************************************************************************)
(* Consecutive grants.  The runtime entry of a UE knows its streak: until  *)
(* nr_schedule_ue_spec comes to the UE the entry is one slot old, after    *)
(* that it is of this slot.  A UE without an entry has none because the    *)
(* table is full, and a table that is full stays full.                     *)
(***************************************************************************)

\* nr_schedule_ue_spec has been at u.
Told(u) == phase = "idle" \/ (phase = "send" /\ u < visit)

Remembered ==
  \A u \in Ue :
    /\ ~HasRuntime(u) /\ streak[u] > 0 => RuntimeFull
    /\ ~HasRuntime(u) /\ Told(u) /\ Granted(u, "new") => RuntimeFull
    /\ HasRuntime(u) /\ ~Told(u) /\ streak[u] > 0
         => last[u] = tick - 1 /\ run[u] >= streak[u]
    /\ HasRuntime(u) /\ Told(u) /\ Granted(u, "new")
         => last[u] = tick /\ run[u] >= Smaller(streak[u] + 1, RunMax)

\* there are candidates while a slot is shared; their coefficients say whether
\* they are throttled
CoefTells ==
  \A c \in cands : phase \in {"collect", "allocate"} /\ (Throttled(c.ue) <=> c.coef = 0)

\* the first loop grants retransmissions only
RetxPhase == phase = "collect" => \A i \in 1..Len(grants) : grants[i].kind = "retx"

YieldInv == TypeOK /\ Remembered /\ CoefTells /\ RetxPhase /\ ExhaustedYield

\* What a noted grant does to the table.
LEMMA NoteEffect ==
  ASSUME TypeOK, NEW u \in Ue, NoteGrant(u)
  PROVE  /\ \A v \in Ue : v # u => last'[v] = last[v] /\ run'[v] = run[v]
         /\ ~HasRuntime(u) /\ RuntimeFull => run'[u] = run[u]
         /\ HasRuntime(u) \/ ~RuntimeFull =>
              /\ last'[u] = tick
              /\ run'[u] = IF last[u] = tick - 1 THEN Smaller(run[u] + 1, RunMax) ELSE 1
BY DEF NoteGrant, runtime, TypeOK

\* A full table stays full.
LEMMA FullStays ==
  ASSUME TypeOK, NEW u \in Ue, NoteGrant(u), RuntimeFull
  PROVE  RuntimeFull'
<1> DEFINE S == {v \in Ue : HasRuntime(v)}
           T == {v \in Ue : HasRuntime(v)'}
<1>1. S \subseteq T
  <2> SUFFICES ASSUME NEW v \in Ue, run[v] > 0 PROVE run'[v] > 0
    BY DEF HasRuntime
  <2>1. CASE v # u
    BY <2>1, NoteEffect
  <2>2. CASE v = u
    <3>1. run[u] \in Nat /\ HasRuntime(u)
      BY <2>2 DEF TypeOK, HasRuntime
    <3>2. run'[u] = IF last[u] = tick - 1 THEN Smaller(run[u] + 1, RunMax) ELSE 1
      BY <3>1, NoteEffect
    <3>3. Smaller(run[u] + 1, RunMax) > 0
      BY <3>1 DEF Smaller
    <3> QED
      BY <2>2, <3>2, <3>3
  <2> QED
    BY <2>1, <2>2
<1>2. IsFiniteSet(T)
  <2>1. IsFiniteSet(Ue)
    BY FS_Interval DEF Ue
  <2> QED
    BY <2>1, FS_Subset
<1>3. Cardinality(S) =< Cardinality(T) /\ Cardinality(S) \in Nat /\ Cardinality(T) \in Nat
  BY <1>1, <1>2, FS_Subset, FS_CardinalityType
<1>4. Cardinality(S) >= RuntimeMax
  BY DEF RuntimeFull
<1>5. Cardinality(T) >= RuntimeMax => RuntimeFull'
  BY DEF RuntimeFull
<1> QED
  BY <1>3, <1>4, <1>5

\* The streak a new slot begins with is what the entries already say.
LEMMA BeginRemembered ==
  ASSUME TypeOK, Remembered, NEW gap \in Gaps, Begin(gap)
  PROVE  Remembered'
<1> SUFFICES ASSUME NEW v \in Ue
    PROVE  /\ ~HasRuntime(v)' /\ streak'[v] > 0 => RuntimeFull'
           /\ ~HasRuntime(v)' /\ Told(v)' /\ Granted(v, "new")' => RuntimeFull'
           /\ HasRuntime(v)' /\ ~Told(v)' /\ streak'[v] > 0
                => last'[v] = tick' - 1 /\ run'[v] >= streak'[v]
           /\ HasRuntime(v)' /\ Told(v)' /\ Granted(v, "new")'
                => last'[v] = tick' /\ run'[v] >= Smaller(streak'[v] + 1, RunMax)
  BY DEF Remembered, Smaller
<1>1. last' = last /\ run' = run /\ ~Granted(v, "new")'
  BY DEF Begin, runtime, Granted
<1>2. RuntimeFull' <=> RuntimeFull
  BY <1>1 DEF RuntimeFull, HasRuntime
<1>3. HasRuntime(v)' <=> HasRuntime(v)
  BY <1>1 DEF HasRuntime
<1>4. streak'[v] > 0 =>
        /\ Granted(v, "new") /\ tick' = tick + 1
        /\ streak'[v] = Smaller(streak[v] + 1, RunMax)
  BY DEF Begin
<1>5. tick \in Int /\ Told(v)
  BY DEF TypeOK, Begin, Told
<1>6. /\ ~HasRuntime(v) /\ Granted(v, "new") => RuntimeFull
      /\ HasRuntime(v) /\ Granted(v, "new")
           => last[v] = tick /\ run[v] >= Smaller(streak[v] + 1, RunMax)
  BY <1>5 DEF Remembered
<1> QED
  BY <1>1, <1>2, <1>3, <1>4, <1>5, <1>6

\* A UE that is told of its PDSCH is remembered with it, the others as before.
LEMMA SendRemembered ==
  ASSUME TypeOK, Remembered, NEW u \in Ue, SendTo(u)
  PROVE  Remembered'
<1>1. /\ phase = "send" /\ phase' = "send" /\ visit = u /\ visit' = u + 1
      /\ tick' = tick /\ streak' = streak /\ grants' = grants
      /\ IF Granted(u, "new") THEN NoteGrant(u) ELSE last' = last /\ run' = run
  BY DEF SendTo, slotVars, pool, runtime
<1>2. \A v \in Ue : v # u => last'[v] = last[v] /\ run'[v] = run[v]
  BY <1>1, NoteEffect
<1>3. RuntimeFull => RuntimeFull'
  <2>1. CASE NoteGrant(u)
    BY <2>1, FullStays
  <2>2. CASE run' = run
    BY <2>2 DEF RuntimeFull, HasRuntime
  <2> QED
    BY <1>1, <2>1, <2>2
<1>4. \A v \in Ue : Granted(v, "new")' <=> Granted(v, "new")
  BY <1>1 DEF Granted
<1>5. ~Told(u) /\ Told(u)'
  BY <1>1 DEF Told, Ue
<1>6. \A v \in Ue : v # u => (Told(v)' <=> Told(v))
  BY <1>1 DEF Told, Ue
<1> SUFFICES ASSUME NEW v \in Ue
    PROVE  /\ ~HasRuntime(v)' /\ streak[v] > 0 => RuntimeFull'
           /\ ~HasRuntime(v)' /\ Told(v)' /\ Granted(v, "new")' => RuntimeFull'
           /\ HasRuntime(v)' /\ ~Told(v)' /\ streak[v] > 0
                => last'[v] = tick - 1 /\ run'[v] >= streak[v]
           /\ HasRuntime(v)' /\ Told(v)' /\ Granted(v, "new")'
                => last'[v] = tick /\ run'[v] >= Smaller(streak[v] + 1, RunMax)
  BY <1>1 DEF Remembered, Smaller
<1>7. CASE v # u
  <2>1. HasRuntime(v)' <=> HasRuntime(v)
    BY <1>2, <1>7 DEF HasRuntime
  <2> QED
    BY <1>2, <1>3, <1>4, <1>6, <1>7, <2>1 DEF Remembered
<1>8. CASE v = u
  <2>1. /\ run[u] \in Nat /\ streak[u] \in 0..RunMax
        /\ RunMax \in Nat \ {0} /\ tick \in Int
    BY DEF TypeOK
  <2>2. /\ ~HasRuntime(u) /\ streak[u] > 0 => RuntimeFull
        /\ HasRuntime(u) /\ streak[u] > 0 => last[u] = tick - 1 /\ run[u] >= streak[u]
    BY <1>5 DEF Remembered
  <2>3. CASE ~Granted(u, "new")
    <3>1. run' = run
      BY <1>1, <2>3
    <3>2. HasRuntime(u)' <=> HasRuntime(u)
      BY <3>1 DEF HasRuntime
    <3> QED
      BY <1>3, <1>4, <1>5, <1>8, <2>2, <2>3, <3>2
  <2>4. CASE Granted(u, "new") /\ ~HasRuntime(u) /\ RuntimeFull
    <3>1. run'[u] = run[u]
      BY <1>1, <2>4, NoteEffect
    <3>2. ~HasRuntime(u)'
      BY <2>4, <3>1 DEF HasRuntime
    <3> QED
      BY <1>3, <1>8, <2>4, <3>2
  <2>5. CASE Granted(u, "new") /\ (HasRuntime(u) \/ ~RuntimeFull)
    <3>1. /\ last'[u] = tick
          /\ run'[u] = IF last[u] = tick - 1 THEN Smaller(run[u] + 1, RunMax) ELSE 1
      BY <1>1, <2>5, NoteEffect
    <3>2. run'[u] >= Smaller(streak[u] + 1, RunMax) /\ run'[u] > 0
      <4>1. CASE streak[u] = 0
        BY <2>1, <3>1, <4>1 DEF Smaller
      <4>2. CASE streak[u] > 0
        <5>1. last[u] = tick - 1 /\ run[u] >= streak[u]
          BY <2>2, <2>5, <4>2
        <5> QED
          BY <2>1, <3>1, <5>1 DEF Smaller
      <4> QED
        BY <2>1, <4>1, <4>2
    <3>3. HasRuntime(u)'
      BY <3>2 DEF HasRuntime
    <3> QED
      BY <1>5, <1>8, <3>1, <3>2, <3>3
  <2> QED
    BY <2>3, <2>4, <2>5
<1> QED
  BY <1>7, <1>8

\* The steps that leave the runtime table and what is known of the UEs alone.
LEMMA QuietRemembered ==
  ASSUME TypeOK, Remembered, UNCHANGED <<tick, streak, runtime>>,
         \A u \in Ue : Told(u)' => Told(u),
         \A u \in Ue : Told(u)' => (Granted(u, "new")' <=> Granted(u, "new")),
         \A u \in Ue : Told(u) => Told(u)'
  PROVE  Remembered'
<1>1. last' = last /\ run' = run
  BY DEF runtime
<1>2. RuntimeFull' <=> RuntimeFull
  BY <1>1 DEF RuntimeFull, HasRuntime
<1>3. \A u \in Ue : HasRuntime(u)' <=> HasRuntime(u)
  BY <1>1 DEF HasRuntime
<1> SUFFICES ASSUME NEW u \in Ue
    PROVE  /\ ~HasRuntime(u)' /\ streak[u] > 0 => RuntimeFull'
           /\ ~HasRuntime(u)' /\ Told(u)' /\ Granted(u, "new")' => RuntimeFull'
           /\ HasRuntime(u)' /\ ~Told(u)' /\ streak[u] > 0
                => last[u] = tick - 1 /\ run[u] >= streak[u]
           /\ HasRuntime(u)' /\ Told(u)' /\ Granted(u, "new")'
                => last[u] = tick /\ run[u] >= Smaller(streak[u] + 1, RunMax)
  BY <1>1 DEF Remembered, Smaller
<1> QED
  BY <1>2, <1>3 DEF Remembered

\* The candidate whose turn it is and who is exhausted has coefficient zero,
\* so those after it have it too.
LEMMA TurnYields ==
  ASSUME YieldInv, NEW c \in cands, Turn(c), Exhausted(c.ue)
  PROVE  \A d \in cands : Throttled(d.ue)
<1>1. TypeOK /\ c.ue \in Ue /\ ~Told(c.ue)
  BY CandidateFields DEF YieldInv, Turn, Told
<1>2. /\ MaxCg[c.ue] \in Nat /\ streak[c.ue] \in Nat /\ run[c.ue] \in Nat
      /\ MaxCg[c.ue] > 0 /\ run[c.ue] > 0 /\ streak[c.ue] >= MaxCg[c.ue]
  BY <1>1 DEF TypeOK, Exhausted, HasRuntime
<1>3. last[c.ue] = tick - 1 /\ run[c.ue] >= streak[c.ue]
  <2>1. HasRuntime(c.ue) /\ streak[c.ue] > 0
    BY <1>2 DEF HasRuntime
  <2> QED
    BY <1>1, <2>1 DEF YieldInv, Remembered
<1>4. Throttled(c.ue)
  BY <1>2, <1>3 DEF Throttled
<1>5. c.coef = 0
  BY <1>4 DEF YieldInv, CoefTells
<1> SUFFICES ASSUME NEW d \in cands PROVE Throttled(d.ue)
  OBVIOUS
<1>6. d.coef \in Nat /\ d.coef =< c.coef
  BY <1>1, CandidateFields DEF Turn
<1>7. d.coef = 0
  BY <1>5, <1>6
<1> QED
  BY <1>7 DEF YieldInv, CoefTells

\* The steps of the loops keep what is known of candidates and grants.
LEMMA LoopYield ==
  ASSUME YieldInv, UNCHANGED <<slotVars, runtime>>,
         phase \in {"collect", "allocate"}, phase' \in {"collect", "allocate"},
         phase' = "collect" => phase = "collect",
         cands' \subseteq cands \/ phase' = "collect",
         \A c \in cands' \ cands : Throttled(c.ue) <=> c.coef = 0,
         \A i \in 1..Len(grants') :
           \/ i \in 1..Len(grants) /\ grants'[i] = grants[i]
           \/ phase = "collect" /\ grants'[i].kind = "retx"
           \/ /\ phase = "allocate"
              /\ Exhausted(grants'[i].ue) => \A c \in cands' : Throttled(c.ue)
  PROVE  Remembered' /\ CoefTells' /\ RetxPhase' /\ ExhaustedYield'
<1> USE DEF slotVars
<1>1. last' = last /\ run' = run /\ tick' = tick /\ streak' = streak
  BY DEF runtime
<1>2. Remembered'
  <2>1. \A u \in Ue : ~Told(u) /\ ~Told(u)'
    BY DEF Told
  <2> QED
    BY <2>1, QuietRemembered DEF YieldInv
<1>3. \A v : /\ Throttled(v)' <=> Throttled(v)
             /\ Exhausted(v)' <=> Exhausted(v)
  BY <1>1 DEF Throttled, Exhausted, HasRuntime
<1>4. CoefTells'
  <2> SUFFICES ASSUME NEW c \in cands' PROVE Throttled(c.ue) <=> c.coef = 0
    BY <1>1 DEF CoefTells, Throttled
  <2> QED
    BY DEF YieldInv, CoefTells
<1>5. RetxPhase'
  BY DEF YieldInv, RetxPhase
<1>6. ExhaustedYield'
  <2> SUFFICES ASSUME phase' = "allocate", NEW i \in 1..Len(grants'),
                      grants'[i].kind = "new", Exhausted(grants'[i].ue),
                      NEW c \in cands'
               PROVE  Exhausted(c.ue) \/ Throttled(c.ue)
    BY <1>1 DEF ExhaustedYield, Exhausted, HasRuntime, Throttled, IsNew
  <2>1. c \in cands
    OBVIOUS
  <2>2. CASE i \in 1..Len(grants) /\ grants'[i] = grants[i]
    <3>1. phase = "allocate"
      BY <2>2 DEF YieldInv, RetxPhase
    <3> QED
      BY <2>1, <2>2, <3>1 DEF YieldInv, ExhaustedYield, IsNew
  <2>3. CASE ~(i \in 1..Len(grants) /\ grants'[i] = grants[i])
    BY <2>3
  <2> QED
    BY <2>2, <2>3
<1> QED
  BY <1>2, <1>4, <1>5, <1>6

LEMMA StepYield ==
  ASSUME IInv, YieldInv, [Next]_vars
  PROVE  YieldInv'
<1> DEFINE Goal == Remembered' /\ CoefTells' /\ RetxPhase' /\ ExhaustedYield'
<1>0. TypeOK /\ TypeOK'
  BY StepIInv DEF IInv
<1>1. ASSUME NEW gap \in Gaps, Begin(gap) PROVE Goal
  <2>1. Remembered'
    BY <1>0, <1>1, BeginRemembered DEF YieldInv
  <2>2. cands' = {} /\ phase' = "collect" /\ Len(grants') = 0
    BY <1>1 DEF Begin
  <2> QED
    BY <2>1, <2>2 DEF CoefTells, RetxPhase, ExhaustedYield
<1>2. ASSUME NEW u \in Ue, Collect(u) PROVE Goal
  <2>1. /\ UNCHANGED <<slotVars, runtime>> /\ grants' = grants
        /\ phase' = "collect" /\ phase = "collect"
    BY <1>2 DEF Collect, Visiting, pool
  <2>2. \A c \in cands' \ cands : Throttled(c.ue) <=> c.coef = 0
    <3>1. PICK coef \in Coefs :
            cands' = cands \cup {[ue |-> u, coef |-> IF Throttled(u) THEN 0 ELSE coef]}
      BY <1>2 DEF Collect
    <3>2. coef # 0
      OBVIOUS
    <3> QED
      BY <3>1, <3>2
  <2> QED
    BY <2>1, <2>2, LoopYield
<1>3. ASSUME \/ \E u \in Ue : Skip(u)
             \/ Sort \/ \E c \in cands : Refuse(c)
      PROVE  Goal
  <2>1. /\ UNCHANGED <<slotVars, runtime>> /\ grants' = grants /\ cands' \subseteq cands
        /\ \/ phase' = phase /\ phase \in {"collect", "allocate"}
           \/ phase = "collect" /\ phase' = "allocate"
    BY <1>3 DEF Skip, Visiting, Sort, Refuse, Turn, pool
  <2> QED
    BY <2>1, LoopYield
<1>4. ASSUME NEW u \in Ue, Repeat(u) \/ RepeatElsewhere(u) PROVE Goal
  <2>1. PICK g : /\ MayPlan(g) /\ Planned(g, Marked(g)) /\ g.kind = "retx"
                 /\ phase = "collect" /\ UNCHANGED <<slotVars, phase, cands, runtime>>
    BY <1>4, RepeatMay
  <2>2. \A i \in 1..Len(grants') :
          (i \in 1..Len(grants) /\ grants'[i] = grants[i]) \/ grants'[i] = g
    BY <1>0, <2>1, Appended DEF MayPlan
  <2> QED
    BY <2>1, <2>2, LoopYield
<1>5. ASSUME NEW c \in cands, GrantNew(c) PROVE Goal
  <2>1. PICK g : MayPlan(g) /\ Planned(g, Marked(g)) /\ g.ue = c.ue
    BY <1>5, GrantNewMay
  <2>2. /\ UNCHANGED <<slotVars, phase, runtime>> /\ cands' = cands \ {c} /\ Turn(c)
        /\ phase = "allocate"
    BY <1>5 DEF GrantNew, Turn
  <2>3. \A i \in 1..Len(grants') :
          (i \in 1..Len(grants) /\ grants'[i] = grants[i]) \/ grants'[i] = g
    BY <1>0, <2>1, Appended DEF MayPlan
  <2>4. Exhausted(g.ue) => \A d \in cands' : Throttled(d.ue)
    BY <2>1, <2>2, TurnYields
  <2> QED
    BY <2>2, <2>3, <2>4, LoopYield
<1>6. ASSUME EndPass \/ End \/ UNCHANGED vars PROVE Goal
  <2>1. CASE UNCHANGED vars
    <3>1. /\ UNCHANGED <<phase, visit, cands, grants, tick, streak, last, run>>
      BY <2>1 DEF vars
    <3> QED
      BY <3>1 DEF YieldInv, Remembered, CoefTells, RetxPhase, ExhaustedYield, Told, Granted,
                  HasRuntime, RuntimeFull, Throttled, Exhausted, Smaller, IsNew
  <2>2. CASE EndPass \/ End
    <3>1. /\ UNCHANGED <<tick, streak, runtime, cands, grants>>
          /\ phase' \in {"send", "idle"}
      BY <2>2 DEF EndPass, End, slotVars, pool
    <3>2. cands = {}
      BY <2>2 DEF EndPass, End, YieldInv, CoefTells
    <3>3. \A u \in Ue : (Told(u)' <=> Told(u)) /\ (Granted(u, "new")' <=> Granted(u, "new"))
      <4>1. \A u \in Ue : Granted(u, "new")' <=> Granted(u, "new")
        BY <3>1 DEF Granted
      <4>2. CASE EndPass
        BY <4>1, <4>2 DEF EndPass, Told, Ue
      <4>3. CASE End
        <5>1. \A u \in Ue : u < visit
          BY <1>0, <4>3 DEF End, TypeOK, Ue
        <5> QED
          BY <4>1, <4>3, <5>1 DEF End, Told
      <4> QED
        BY <2>2, <4>2, <4>3
    <3>4. Remembered'
      BY <1>0, <3>1, <3>3, QuietRemembered DEF YieldInv
    <3> QED
      BY <3>1, <3>2, <3>4 DEF CoefTells, RetxPhase, ExhaustedYield
  <2> QED
    BY <1>6, <2>1, <2>2
<1>7. ASSUME NEW u \in Ue, SendTo(u) PROVE Goal
  <2>1. Remembered'
    BY <1>0, <1>7, SendRemembered DEF YieldInv
  <2>2. phase = "send" /\ phase' = "send" /\ cands' = cands
    BY <1>7 DEF SendTo
  <2>3. cands = {}
    BY <2>2 DEF YieldInv, CoefTells
  <2> QED
    BY <2>1, <2>2, <2>3 DEF CoefTells, RetxPhase, ExhaustedYield
<1> QED
  BY <1>0, <1>1, <1>2, <1>3, <1>4, <1>5, <1>6, <1>7 DEF Next, YieldInv

\* A UE that has had its consecutive grants gets more new data only after
\* every candidate below its own limit, as long as its runtime entry exists.
THEOREM DlPassExhaustedYield == Spec => []ExhaustedYield
<1>1. Init => YieldInv
  <2> SUFFICES ASSUME Init PROVE YieldInv
    OBVIOUS
  <2>1. Len(grants) = 0 /\ cands = {} /\ \A u \in Ue : streak[u] = 0 /\ run[u] = 0
    BY DEF Init
  <2>2. Remembered /\ CoefTells /\ RetxPhase /\ ExhaustedYield
    BY <2>1 DEF Remembered, CoefTells, RetxPhase, ExhaustedYield, HasRuntime, Granted
  <2> QED
    BY <2>2, InitIInv DEF YieldInv, IInv
<1>2. IInv /\ YieldInv /\ [Next]_vars => YieldInv'
  BY StepYield
<1>3. YieldInv => ExhaustedYield
  BY DEF YieldInv
<1> QED
  BY <1>1, <1>2, <1>3, InvariantHolds, PTL DEF Spec

=============================================================================
