--------------------------- MODULE UlSlotsProofs ----------------------------
(***************************************************************************)
(* The theorems about UlSlots: uplink slots are planned once and in order, *)
(* whatever the period, its TDAs and the number of slots before the wrap.  *)
(*                                                                         *)
(* The proof replaces the differences around the wrap by distances ahead   *)
(* of the slot being prepared.  What has to be shown is that the scheduler *)
(* never looks further ahead than half the frame numbers, where fs_get_diff*)
(* would turn its sign.                                                    *)
(***************************************************************************)
EXTENDS UlSlots, WellFoundedInduction, TLAPS

(***************************************************************************)
(* Remainders                                                              *)
(***************************************************************************)

\* A number below P is what remains of it and any multiple of P.
LEMMA ModUnique ==
  ASSUME NEW P \in Nat \ {0}, NEW q \in Int, NEW r \in 0..P - 1
  PROVE  (P * q + r) % P = r
OBVIOUS

\* Every number is a multiple of P and its remainder.
LEMMA ModSplit ==
  ASSUME NEW P \in Nat \ {0}, NEW a \in Int
  PROVE  a % P \in 0..P - 1 /\ \E q \in Int : a = P * q + (a % P)
<1>1. a % P \in 0..P - 1
  OBVIOUS
<1>2. a \div P \in Int /\ a = P * (a \div P) + (a % P)
  OBVIOUS
<1> QED
  BY <1>1, <1>2

\* Less than once further around.
LEMMA ModOnce ==
  ASSUME NEW W \in Nat \ {0}, NEW t \in 0..W - 1, NEW d \in 0..W
  PROVE  (t + d) % W = IF t + d < W THEN t + d ELSE t + d - W
<1>1. CASE t + d < W
  <2>1. t + d = W * 0 + (t + d) /\ t + d \in 0..W - 1
    BY <1>1
  <2> QED
    BY <1>1, <2>1, ModUnique
<1>2. CASE t + d >= W
  <2>1. t + d = W * 1 + (t + d - W) /\ t + d - W \in 0..W - 1
    BY <1>2
  <2> QED
    BY <1>2, <2>1, ModUnique
<1> QED
  BY <1>1, <1>2

\* A multiple of P more or less does not matter.
LEMMA ModShift ==
  ASSUME NEW P \in Nat \ {0}, NEW a \in Int, NEW k \in Int
  PROVE  (a + P * k) % P = a % P
<1>1. PICK q \in Int : a = P * q + (a % P)
  BY ModSplit
<1>2. a % P \in 0..P - 1
  BY ModSplit
<1>3. q + k \in Int /\ P * q + P * k = P * (q + k)
  OBVIOUS
<1>4. P * q \in Int /\ P * k \in Int /\ P * (q + k) \in Int
  OBVIOUS
<1>5. a + P * k = P * (q + k) + (a % P)
  BY <1>1, <1>2, <1>3, <1>4
<1> QED
  BY <1>2, <1>3, <1>5, ModUnique

\* From any slot, every position of the period is ahead.
LEMMA ModReaches ==
  ASSUME NEW P \in Nat \ {0}, NEW a \in Int, NEW u \in 0..P - 1
  PROVE  \E d \in 0..P - 1 : (a + d) % P = u
<1>1. PICK q \in Int : a = P * q + (a % P)
  BY ModSplit
<1>2. a % P \in 0..P - 1
  BY ModSplit
<1>3. P * q \in Int
  OBVIOUS
<1>4. CASE u >= a % P
  <2>1. u - (a % P) \in 0..P - 1 /\ a + (u - (a % P)) = P * q + u
    BY <1>1, <1>2, <1>3, <1>4
  <2> QED
    BY <2>1, ModUnique
<1>5. CASE u < a % P
  <2>1. q + 1 \in Int /\ P * q + P = P * (q + 1) /\ P * (q + 1) \in Int
    OBVIOUS
  <2>2. u - (a % P) + P \in 0..P - 1 /\ a + (u - (a % P) + P) = P * (q + 1) + u
    BY <1>1, <1>2, <1>3, <1>5, <2>1
  <2> QED
    BY <2>1, <2>2, ModUnique
<1> QED
  BY <1>2, <1>4, <1>5

\* A set of numbers has a smallest one.
LEMMA SmallestNumber ==
  ASSUME NEW T \in SUBSET Nat, T # {}
  PROVE  \E x \in T : \A y \in T : x =< y
<1>1. PICK x \in T : \A y \in T : ~(<<y, x>> \in OpToRel(<, Nat))
  BY NatLessThanWellFounded, WFMin, Zenon
<1>2. ASSUME NEW y \in T, y < x PROVE FALSE
  BY <1>1, <1>2 DEF OpToRel
<1> QED
  BY <1>2

(***************************************************************************)
(* Slots                                                                   *)
(***************************************************************************)

\* The constants, as the arithmetic needs them.
Half == Wrap \div 2

LEMMA Constants ==
  /\ Period \in Nat \ {0} /\ Wrap \in Nat \ {0} /\ MinRxTx \in Nat \ {0}
  /\ Period < Wrap
  /\ Half \in Nat /\ 2 * Half =< Wrap
  /\ MinRxTx + Period < Half
<1>1. /\ Period \in Nat \ {0} /\ Wrap \in Nat \ {0} /\ MinRxTx \in Nat \ {0}
      /\ MinRxTx + Period < Half
  BY UlSlotsAssumption DEF UlSlotsAssumption, Half
<1>2. Half \in Nat /\ 2 * Half =< Wrap
  BY <1>1 DEF Half
<1> QED
  BY <1>1, <1>2

LEMMA PlusIs ==
  ASSUME NEW t \in Tick, NEW d \in 0..Wrap
  PROVE  /\ Plus(t, d) \in Tick
         /\ Plus(t, d) = IF t + d < Wrap THEN t + d ELSE t + d - Wrap
<1>1. Wrap \in Nat \ {0} /\ t \in 0..Wrap - 1
  BY Constants DEF Tick
<1>2. Plus(t, d) = IF t + d < Wrap THEN t + d ELSE t + d - Wrap
  BY <1>1, ModOnce, Zenon DEF Plus
<1> QED
  BY <1>2, Constants DEF Tick

\* The position in the period goes on across the wrap.
LEMMA PlusPosition ==
  ASSUME NEW t \in Tick, NEW d \in 0..Wrap
  PROVE  Plus(t, d) % Period = (t + d) % Period
<1>0. Period \in Nat \ {0} /\ Wrap \in Int
  BY Constants
<1>1. PICK q \in Int : Wrap = Period * q + (Wrap % Period)
  BY <1>0, ModSplit, Zenon
<1>2. Wrap = Period * q
  BY <1>1, Constants, UlSlotsAssumption DEF UlSlotsAssumption
<1>3. Period * (-q) = -Wrap /\ -q \in Int
  BY <1>2, Constants
<1>4. t \in Int /\ d \in Int /\ t + d \in Int
  BY Constants DEF Tick
<1>5. (t + d + Period * (-q)) % Period = (t + d) % Period
  BY <1>3, <1>4, Constants, ModShift
<1>6. t + d - Wrap = t + d + Period * (-q)
  BY <1>3, <1>4, Constants
<1> QED
  BY <1>5, <1>6, PlusIs

\* The next uplink slot is less than a period away, with none before it, and t
\* itself if t is one.
LEMMA FirstUlIs ==
  ASSUME NEW t \in Tick
  PROVE  /\ \E d \in Position :
              /\ FirstUl(t) = Plus(t, d)
              /\ \A e \in 0..d - 1 : Plus(t, e) % Period \notin UlSlots
         /\ FirstUl(t) \in Tick
         /\ FirstUl(t) % Period \in UlSlots
         /\ t % Period \in UlSlots => FirstUl(t) = t
<1> DEFINE T == {d \in Position : Plus(t, d) % Period \in UlSlots}
           D(d) == /\ Plus(t, d) % Period \in UlSlots
                   /\ \A e \in 0..d - 1 : Plus(t, e) % Period \notin UlSlots
<1>1. \A d \in Position : d \in Nat /\ d \in 0..Wrap
  BY Constants DEF Position
<1>2. t \in Int
  BY Constants DEF Tick
<1>3. T # {}
  <2>1. PICK u \in UlSlots : u \in 0..Period - 1
    BY UlSlotsAssumption DEF UlSlotsAssumption, Position
  <2>2. PICK d \in 0..Period - 1 : (t + d) % Period = u
    <3>1. Period \in Nat \ {0}
      BY Constants
    <3> QED
      BY <1>2, <2>1, <3>1, ModReaches, Zenon
  <2>3. d \in Position /\ Plus(t, d) % Period = u
    BY <1>1, <2>2, PlusPosition DEF Position
  <2> QED
    BY <2>1, <2>3
<1>4. PICK x \in T : \A y \in T : x =< y
  BY <1>1, <1>3, SmallestNumber
<1>5. D(x)
  <2>1. ASSUME NEW e \in 0..x - 1, Plus(t, e) % Period \in UlSlots PROVE FALSE
    <3>1. e \in Position /\ e < x
      BY <1>1, Constants DEF Position
    <3> QED
      BY <1>4, <2>1, <3>1, Constants DEF Position
  <2> QED
    BY <1>4, <2>1
<1> DEFINE c == CHOOSE d \in Position : D(d)
<1>6. c \in Position /\ D(c)
  BY <1>5
<1>7. FirstUl(t) = Plus(t, c)
  BY DEF FirstUl
<1> HIDE DEF c
<1>8. ASSUME t % Period \in UlSlots PROVE FirstUl(t) = t
  <2>1. Plus(t, 0) = t
    BY Constants, PlusIs DEF Tick
  <2>2. c = 0
    <3>1. c > 0 => 0 \in 0..c - 1
      BY <1>1, <1>6
    <3> QED
      BY <1>1, <1>6, <1>8, <2>1, <3>1
  <2> QED
    BY <1>7, <2>1, <2>2
<1> QED
  BY <1>1, <1>6, <1>7, <1>8, PlusIs

(***************************************************************************)
(* Distances ahead of a slot                                               *)
(***************************************************************************)

\* how many slots after n the slot a comes next
Ahead(n, a) == IF a >= n THEN a - n ELSE a - n + Wrap

LEMMA AheadIs ==
  ASSUME NEW n \in Tick, NEW a \in Tick
  PROVE  /\ Ahead(n, a) \in 0..Wrap - 1
         /\ Ahead(n, n) = 0
BY Constants DEF Ahead, Tick

\* Going on adds to the distance, up to once around.
LEMMA AheadPlus ==
  ASSUME NEW n \in Tick, NEW a \in Tick, NEW d \in 0..Wrap,
         Ahead(n, a) + d < Wrap
  PROVE  Ahead(n, Plus(a, d)) = Ahead(n, a) + d
<1>1. /\ Plus(a, d) \in Tick
      /\ Plus(a, d) = IF a + d < Wrap THEN a + d ELSE a + d - Wrap
  BY PlusIs
<1>2. /\ a \in 0..Wrap - 1 /\ n \in 0..Wrap - 1 /\ d \in 0..Wrap
      /\ Wrap \in Nat
  BY Constants DEF Tick
<1>3. CASE a + d < Wrap
  BY <1>1, <1>2, <1>3 DEF Ahead
<1>4. CASE a + d >= Wrap
  BY <1>1, <1>2, <1>4 DEF Ahead
<1> QED
  BY <1>2, <1>3, <1>4

\* When the clock goes on, what is still ahead comes one slot closer.
LEMMA AheadNext ==
  ASSUME NEW n \in Tick, NEW a \in Tick, Ahead(n, a) >= 1
  PROVE  Ahead(Plus(n, 1), a) = Ahead(n, a) - 1
<1>1. 1 \in 0..Wrap
  BY Constants
<1>2. /\ Plus(n, 1) \in Tick
      /\ Plus(n, 1) = IF n + 1 < Wrap THEN n + 1 ELSE n + 1 - Wrap
  BY <1>1, PlusIs
<1> QED
  BY <1>2, Constants DEF Ahead, Tick

\* Different slots are at different distances.
LEMMA AheadInjective ==
  ASSUME NEW n \in Tick, NEW a \in Tick, NEW b \in Tick,
         Ahead(n, a) = Ahead(n, b)
  PROVE  a = b
BY Constants DEF Ahead, Tick

\* Of slots less than half the numbers apart, fs_get_diff gives the difference
\* of the distances.
LEMMA DiffIs ==
  ASSUME NEW n \in Tick, NEW a \in Tick, NEW b \in Tick,
         Ahead(n, a) - Ahead(n, b) < Half,
         Ahead(n, b) - Ahead(n, a) < Half
  PROVE  Diff(a, b) = Ahead(n, a) - Ahead(n, b)
<1> DEFINE d == a - b
<1>1. /\ a \in 0..Wrap - 1 /\ b \in 0..Wrap - 1 /\ n \in 0..Wrap - 1
      /\ Wrap \in Nat /\ Half \in Nat /\ 2 * Half =< Wrap
  BY Constants DEF Tick
<1>2. /\ d \in Int
      /\ Ahead(n, a) - Ahead(n, b) \in {d, d + Wrap, d - Wrap}
  BY <1>1 DEF Ahead
<1>3. Diff(a, b) = IF d < -Half THEN d + Wrap
                   ELSE IF d > Half THEN d - Wrap ELSE d
  BY DEF Diff, Half
<1> DEFINE e == Ahead(n, a) - Ahead(n, b)
<1>4. e \in Int /\ -Half < e /\ e < Half
  BY <1>1, AheadIs
<1> SUFFICES Diff(a, b) = e
  OBVIOUS
<1> HIDE DEF d, e
<1>5. CASE e = d
  BY <1>1, <1>2, <1>3, <1>4, <1>5
<1>6. CASE e = d + Wrap
  <2>1. d < -Half
    BY <1>1, <1>2, <1>4, <1>6
  <2> QED
    BY <1>3, <1>6, <2>1
<1>7. CASE e = d - Wrap
  <2>1. d > Half /\ ~(d < -Half)
    BY <1>1, <1>2, <1>4, <1>7
  <2> QED
    BY <1>3, <1>7, <2>1
<1> QED
  BY <1>2, <1>5, <1>6, <1>7 DEF e

(***************************************************************************)
(* The invariant                                                           *)
(***************************************************************************)

\* ul_next is not behind and less than half the numbers ahead; as long as it is
\* not an uplink slot, by a period less.
NextNear ==
  /\ Ahead(now, next) < Half
  /\ next % Period \notin UlSlots => Ahead(now, next) =< Half - Period

\* Before the clock goes on, ul_next has left the slot being prepared.
NextLeft ==
  phase = "done" \/ (phase = "loop" /\ dci = 0) => Ahead(now, next) >= 1

\* The slots with grants lie between now and ul_next ...
GivenAhead ==
  \A i \in 1..Len(given) :
    /\ given[i] % Period \in UlSlots
    /\ 1 =< Ahead(now, given[i])
    /\ Ahead(now, given[i]) < Ahead(now, next)

\* ... and each is further ahead than the one before it.
GivenSorted ==
  \A i, j \in 1..Len(given) : i < j => Ahead(now, given[i]) < Ahead(now, given[j])

SlotInv == TypeOK /\ NextNear /\ NextLeft /\ GivenAhead /\ GivenSorted

\* No uplink slot lies between t and the first one from there on.
LEMMA FirstUlNearest ==
  ASSUME NEW n \in Tick, NEW t \in Tick, NEW s \in Tick,
         Ahead(n, t) + Period =< Half, s % Period \in UlSlots,
         Ahead(n, t) =< Ahead(n, s)
  PROVE  Ahead(n, FirstUl(t)) =< Ahead(n, s)
<1>1. PICK d \in Position :
        /\ FirstUl(t) = Plus(t, d)
        /\ \A e \in 0..d - 1 : Plus(t, e) % Period \notin UlSlots
  BY FirstUlIs
<1>2. Ahead(n, t) \in Nat /\ Ahead(n, s) \in Nat
  BY AheadIs, Constants
<1>3. d \in 0..Wrap /\ d < Period /\ Ahead(n, t) + d < Wrap
  BY <1>2, Constants DEF Position
<1>4. Ahead(n, FirstUl(t)) = Ahead(n, t) + d
  BY <1>1, <1>3, AheadPlus
<1> SUFFICES ASSUME Ahead(n, s) < Ahead(n, t) + d PROVE FALSE
  BY <1>2, <1>3, <1>4
<1> DEFINE e == Ahead(n, s) - Ahead(n, t)
<1>5. e \in 0..d - 1 /\ e \in 0..Wrap /\ Ahead(n, t) + e = Ahead(n, s)
  BY <1>2, <1>3, Constants
<1> HIDE DEF e
<1>6. Ahead(n, t) + e < Wrap
  BY <1>2, <1>3, <1>5, Constants
<1>7. Ahead(n, Plus(t, e)) = Ahead(n, s) /\ Plus(t, e) \in Tick
  BY <1>5, <1>6, AheadPlus, PlusIs
<1>8. Plus(t, e) = s
  BY <1>7, AheadInjective
<1> QED
  BY <1>1, <1>5, <1>8

\* The slot a turn of the loop is about is an uplink slot, not before ul_next,
\* that the UE can reach, and the first such slot.
LEMMA CandidateIs ==
  ASSUME TypeOK, NextNear
  PROVE  /\ Candidate \in Tick
         /\ Candidate % Period \in UlSlots
         /\ Ahead(now, Candidate) \in Nat
         /\ Ahead(now, Candidate) < Half
         /\ Ahead(now, next) =< Ahead(now, Candidate)
         /\ MinRxTx =< Ahead(now, Candidate)
         /\ \A s \in Tick :
              /\ s % Period \in UlSlots
              /\ Ahead(now, next) =< Ahead(now, s) /\ MinRxTx =< Ahead(now, s)
              => Ahead(now, Candidate) =< Ahead(now, s)
<1> DEFINE m == Plus(now, MinRxTx)
           l == Later(next, m)
<1>1. now \in Tick /\ next \in Tick
  BY DEF TypeOK
<1>2. MinRxTx \in 0..Wrap /\ MinRxTx < Wrap
  BY Constants
<1>3. m \in Tick /\ Ahead(now, m) = MinRxTx
  BY <1>1, <1>2, AheadIs, AheadPlus, PlusIs
<1>4. Ahead(now, next) \in Nat
  BY <1>1, AheadIs, Constants
<1> HIDE DEF m
<1>5. Diff(next, m) = Ahead(now, next) - MinRxTx
  <2>1. Ahead(now, next) - MinRxTx < Half /\ MinRxTx - Ahead(now, next) < Half
    BY <1>4, Constants DEF NextNear
  <2> QED
    BY <1>1, <1>3, <2>1, DiffIs
<1>6. /\ l \in Tick
      /\ Ahead(now, next) =< Ahead(now, l) /\ MinRxTx =< Ahead(now, l)
      /\ Ahead(now, l) < Half
      /\ l % Period \notin UlSlots => Ahead(now, l) =< Half - Period
      /\ Ahead(now, l) \in {Ahead(now, next), MinRxTx}
  <2>1. CASE Ahead(now, next) =< MinRxTx
    <3>1. l = m
      BY <1>4, <1>5, <2>1, Constants DEF Later
    <3> QED
      BY <1>3, <1>4, <2>1, <3>1, Constants
  <2>2. CASE Ahead(now, next) > MinRxTx
    <3>1. l = next
      BY <1>4, <1>5, <2>2, Constants DEF Later
    <3> QED
      BY <1>1, <1>4, <2>2, <3>1, Constants DEF NextNear
  <2> QED
    BY <1>4, <2>1, <2>2, Constants
<1>7. Ahead(now, l) \in Nat
  BY <1>1, <1>6, AheadIs, Constants
<1>8. Candidate = FirstUl(l)
  BY DEF Candidate, m
<1> HIDE DEF l
<1>9. Candidate \in Tick /\ Candidate % Period \in UlSlots
  BY <1>6, <1>8, FirstUlIs
<1>10. CASE l % Period \in UlSlots
  <2>1. Candidate = l
    BY <1>6, <1>8, <1>10, FirstUlIs
  <2>2. \A s \in Tick : Ahead(now, next) =< Ahead(now, s) /\ MinRxTx =< Ahead(now, s)
                          => Ahead(now, Candidate) =< Ahead(now, s)
    BY <1>6, <2>1
  <2> QED
    BY <1>6, <1>7, <1>9, <2>1, <2>2
<1>11. CASE l % Period \notin UlSlots
  <2>1. PICK d \in Position : Candidate = Plus(l, d)
    BY <1>6, <1>8, FirstUlIs
  <2>2. d \in 0..Wrap /\ Ahead(now, l) + d < Half /\ Ahead(now, l) + d < Wrap
    BY <1>6, <1>7, <1>11, Constants DEF Position
  <2>3. Ahead(now, Candidate) = Ahead(now, l) + d
    BY <1>1, <1>6, <2>1, <2>2, AheadPlus
  <2>4. ASSUME NEW s \in Tick, s % Period \in UlSlots,
               Ahead(now, next) =< Ahead(now, s), MinRxTx =< Ahead(now, s)
        PROVE  Ahead(now, Candidate) =< Ahead(now, s)
    <3>1. Ahead(now, l) + Period =< Half /\ Ahead(now, l) =< Ahead(now, s)
      BY <1>6, <1>7, <1>11, <2>4, Constants
    <3> QED
      BY <1>1, <1>6, <1>8, <2>4, <3>1, FirstUlNearest
  <2> QED
    BY <1>4, <1>6, <1>7, <1>9, <2>2, <2>3, <2>4, Constants
<1> QED
  BY <1>10, <1>11

\* A slot within reach of a TDA leaves room for a period behind it.
LEMMA ReachesNear ==
  ASSUME TypeOK, NextNear, Reaches(Candidate)
  PROVE  Ahead(now, Candidate) + 1 =< Half - Period
<1>1. now \in Tick /\ Candidate \in Tick /\ Ahead(now, now) = 0
      /\ Ahead(now, Candidate) \in Nat /\ Ahead(now, Candidate) < Half
  BY CandidateIs, AheadIs DEF TypeOK
<1>2. Diff(Candidate, now) = Ahead(now, Candidate)
  <2>1. Ahead(now, Candidate) - Ahead(now, now) < Half
        /\ Ahead(now, now) - Ahead(now, Candidate) < Half
    BY <1>1, Constants
  <2>2. Diff(Candidate, now) = Ahead(now, Candidate) - Ahead(now, now)
    BY <1>1, <2>1, DiffIs
  <2> QED
    BY <1>1, <2>2
<1>3. tda \subseteq UlSlots \X (1..Half - Period - 1)
  BY UlSlotsAssumption DEF UlSlotsAssumption, TypeOK, Half
<1>4. Diff(Candidate, now) \in 1..Half - Period - 1
  BY <1>3 DEF Reaches
<1> QED
  BY <1>1, <1>2, <1>4, Constants

\* Types are kept: ul_next and the clock stay slot numbers.
LEMMA TypeStep ==
  ASSUME TypeOK, NextNear, [Next]_vars
  PROVE  TypeOK'
<1>1. Candidate \in Tick
  BY CandidateIs
<1>2. 1 \in 0..Wrap
  BY Constants
<1>3. Plus(Candidate, 1) \in Tick /\ Plus(now, 1) \in Tick
  BY <1>1, <1>2, PlusIs DEF TypeOK
<1>4. MaxDci \in Nat
  BY UlSlotsAssumption DEF UlSlotsAssumption
<1>5. CASE Call
  BY <1>4, <1>5 DEF Call, TypeOK
<1>6. CASE Stop
  BY <1>1, <1>6 DEF Stop, TypeOK
<1>7. CASE PassEmpty
  BY <1>1, <1>3, <1>7 DEF PassEmpty, TypeOK
<1>8. ASSUME NEW n \in 1..MaxSched, NEW served \in BOOLEAN, PassGrants(n, served)
      PROVE  TypeOK'
  <2>1. dci' \in 0..MaxDci
    BY <1>4, <1>8 DEF PassGrants, TypeOK
  <2>2. given' \in Seq(Tick)
    BY <1>1, <1>8 DEF PassGrants, TypeOK
  <2> QED
    BY <1>3, <1>8, <2>1, <2>2 DEF PassGrants, TypeOK
<1>9. CASE NextSlot
  <2>1. given' \in Seq(Tick)
    BY <1>9 DEF NextSlot, TypeOK
  <2> QED
    BY <1>3, <1>9, <2>1 DEF NextSlot, TypeOK
<1>10. ASSUME NEW p \in UlSlots, NeedRetx(p) PROVE TypeOK'
  BY <1>10 DEF NeedRetx, TypeOK
<1>11. CASE UNCHANGED vars
  BY <1>11 DEF vars, TypeOK
<1> QED
  BY <1>5, <1>6, <1>7, <1>8, <1>9, <1>10, <1>11 DEF Next, Pass

\* A turn of the loop moves ul_next to the candidate, or behind it when a TDA
\* reaches the candidate.
LEMMA MoveNext ==
  ASSUME SlotInv, TypeOK', now' = now,
         \/ next' = Candidate
         \/ next' = Plus(Candidate, 1) /\ Reaches(Candidate)
  PROVE  /\ NextNear'
         /\ Ahead(now', next') >= 1
         /\ Ahead(now, next) =< Ahead(now', next')
<1> USE DEF SlotInv
<1>1. /\ now \in Tick /\ next \in Tick /\ Candidate \in Tick
      /\ Candidate % Period \in UlSlots
      /\ Ahead(now, Candidate) \in Nat /\ Ahead(now, Candidate) < Half
      /\ Ahead(now, next) =< Ahead(now, Candidate)
      /\ MinRxTx =< Ahead(now, Candidate)
  BY CandidateIs DEF TypeOK
<1>2. Ahead(now, next) \in Nat
  BY <1>1, AheadIs, Constants
<1>3. CASE next' = Candidate
  BY <1>1, <1>3, Constants DEF NextNear
<1>4. CASE next' = Plus(Candidate, 1) /\ Reaches(Candidate)
  <2>1. Ahead(now, Candidate) + 1 =< Half - Period
    BY <1>4, ReachesNear
  <2>2. 1 \in 0..Wrap /\ Ahead(now, Candidate) + 1 < Wrap
    BY <1>1, Constants
  <2>3. Ahead(now, next') = Ahead(now, Candidate) + 1
    BY <1>1, <1>4, <2>2, AheadPlus
  <2> QED
    BY <1>1, <1>2, <2>1, <2>3, Constants DEF NextNear
<1> QED
  BY <1>3, <1>4

\* Every step keeps the slots with grants in their order between the clock and
\* ul_next.
LEMMA SlotStep ==
  ASSUME SlotInv, [Next]_vars
  PROVE  SlotInv'
<1> USE DEF SlotInv
<1>1. TypeOK'
  BY TypeStep
<1>2. now \in Tick /\ next \in Tick /\ given \in Seq(Tick)
  BY DEF TypeOK
<1>3. \A i \in 1..Len(given) : given[i] \in Tick
  BY <1>2
<1>4. Ahead(now, next) \in Nat /\ Len(given) \in Nat
  BY <1>2, AheadIs, Constants
<1>5. ASSUME NEW i \in 1..Len(given) PROVE Ahead(now, given[i]) \in Nat
  <2>1. given[i] \in Tick
    BY <1>3
  <2>2. Ahead(now, given[i]) \in 0..Wrap - 1
    BY <1>2, <2>1, AheadIs, Zenon
  <2> QED
    BY <2>2, Constants
<1>6. ASSUME UNCHANGED <<now, given>>, NextNear', NextLeft',
             Ahead(now, next) =< Ahead(now', next')
      PROVE  SlotInv'
  <2>1. Ahead(now', next') \in Nat
    BY <1>1, AheadIs, Constants DEF TypeOK
  <2>2. GivenAhead'
    BY <1>4, <1>5, <1>6, <2>1 DEF GivenAhead
  <2>3. GivenSorted'
    BY <1>6 DEF GivenSorted
  <2> QED
    BY <1>1, <1>6, <2>2, <2>3
<1>7. CASE Call
  <2>1. UNCHANGED <<now, next, given>> /\ phase' = "loop" /\ dci' = MaxDci
    BY <1>7 DEF Call
  <2>2. NextLeft'
    BY <2>1, UlSlotsAssumption DEF NextLeft, UlSlotsAssumption
  <2> QED
    BY <1>4, <1>6, <2>1, <2>2 DEF NextNear
<1>8. CASE Stop
  <2>1. UNCHANGED <<now, given>> /\ phase = "loop"
    BY <1>8 DEF Stop
  <2>2. CASE dci = 0 /\ next' = next
    BY <1>4, <1>6, <2>1, <2>2 DEF NextNear, NextLeft
  <2>3. CASE next' = Candidate
    <3>1. NextNear' /\ Ahead(now', next') >= 1 /\ Ahead(now, next) =< Ahead(now', next')
      BY <1>1, <2>1, <2>3, MoveNext
    <3> QED
      BY <1>6, <2>1, <3>1 DEF NextLeft
  <2> QED
    BY <1>8, <2>2, <2>3 DEF Stop
<1>9. CASE PassEmpty
  <2>1. /\ UNCHANGED <<now, given>>
        /\ \/ next' = Candidate
           \/ next' = Plus(Candidate, 1) /\ Reaches(Candidate)
    BY <1>9 DEF PassEmpty
  <2>2. NextNear' /\ Ahead(now', next') >= 1 /\ Ahead(now, next) =< Ahead(now', next')
    BY <1>1, <2>1, MoveNext
  <2> QED
    BY <1>6, <2>1, <2>2 DEF NextLeft
<1>10. ASSUME NEW n \in 1..MaxSched, NEW served \in BOOLEAN, PassGrants(n, served)
       PROVE  SlotInv'
  <2>1. /\ now' = now /\ next' = Plus(Candidate, 1) /\ Reaches(Candidate)
        /\ given' = Append(given, Candidate)
    BY <1>10 DEF PassGrants
  <2>2. /\ NextNear' /\ Ahead(now', next') >= 1
    BY <1>1, <2>1, MoveNext
  <2>3. /\ Candidate \in Tick /\ Candidate % Period \in UlSlots
        /\ Ahead(now, Candidate) \in Nat /\ Ahead(now, Candidate) < Half
        /\ Ahead(now, next) =< Ahead(now, Candidate)
        /\ MinRxTx =< Ahead(now, Candidate)
    BY CandidateIs
  <2>4. Ahead(now', next') = Ahead(now, Candidate) + 1
    <3>1. 1 \in 0..Wrap /\ Ahead(now, Candidate) + 1 < Wrap
      BY <2>3, Constants
    <3> QED
      BY <1>2, <2>1, <2>3, <3>1, AheadPlus
  <2>5. /\ Len(given') = Len(given) + 1
        /\ given'[Len(given) + 1] = Candidate
        /\ \A i \in 1..Len(given) : given'[i] = given[i]
    BY <1>2, <2>1, <2>3
  <2>6. GivenAhead'
    <3> SUFFICES ASSUME NEW i \in 1..Len(given) + 1
                 PROVE  /\ given'[i] % Period \in UlSlots
                        /\ 1 =< Ahead(now, given'[i])
                        /\ Ahead(now, given'[i]) < Ahead(now', next')
      BY <2>1, <2>5 DEF GivenAhead
    <3>1. CASE i = Len(given) + 1
      BY <2>3, <2>4, <2>5, <3>1, Constants
    <3>2. CASE i \in 1..Len(given)
      BY <1>4, <1>5, <2>3, <2>4, <2>5, <3>2 DEF GivenAhead
    <3> QED
      BY <1>4, <3>1, <3>2
  <2>7. GivenSorted'
    <3> SUFFICES ASSUME NEW i \in 1..Len(given) + 1, NEW j \in 1..Len(given) + 1, i < j
                 PROVE  Ahead(now, given'[i]) < Ahead(now, given'[j])
      BY <2>1, <2>5 DEF GivenSorted
    <3>1. i \in 1..Len(given)
      BY <1>4
    <3>2. CASE j = Len(given) + 1
      BY <1>4, <1>5, <2>3, <2>5, <3>1, <3>2 DEF GivenAhead
    <3>3. CASE j \in 1..Len(given)
      BY <2>5, <3>1, <3>3 DEF GivenSorted
    <3> QED
      BY <1>4, <3>2, <3>3
  <2> QED
    BY <1>1, <2>2, <2>6, <2>7 DEF NextLeft
<1>11. CASE NextSlot
  <2>1. /\ phase = "done" /\ phase' = "slot" /\ now' = Plus(now, 1) /\ next' = next
        /\ given' = IF given # <<>> /\ Head(given) = now' THEN Tail(given) ELSE given
    BY <1>11 DEF NextSlot
  <2>2. Ahead(now', next') = Ahead(now, next) - 1
    BY <1>2, <2>1, AheadNext DEF NextLeft
  <2>3. \A i \in 1..Len(given) : Ahead(now', given[i]) = Ahead(now, given[i]) - 1
    BY <1>2, <1>3, <2>1, AheadNext DEF GivenAhead
  <2>4. NextNear'
    BY <1>4, <2>1, <2>2, Constants DEF NextNear
  <2>5. PICK k \in {0, 1} :
          /\ k =< Len(given)
          /\ k = 0 => (Len(given) = 0 \/ given[1] # now')
          /\ Len(given') = Len(given) - k
          /\ \A i \in 1..Len(given) - k : given'[i] = given[i + k]
    <3>1. CASE given # <<>> /\ Head(given) = now'
      <4>1. given' = Tail(given) /\ Len(given) >= 1
        BY <1>2, <2>1, <3>1
      <4>2. Len(given') = Len(given) - 1
            /\ \A i \in 1..Len(given) - 1 : given'[i] = given[i + 1]
        BY <1>2, <4>1
      <4> QED
        BY <4>1, <4>2
    <3>2. CASE ~(given # <<>> /\ Head(given) = now')
      <4>1. given' = given /\ (Len(given) = 0 \/ given[1] # now')
        BY <1>2, <2>1, <3>2
      <4> QED
        BY <1>4, <4>1
    <3> QED
      BY <3>1, <3>2
  <2>6. \A i \in 1..Len(given) : i > k => Ahead(now, given[i]) >= 2
    <3> SUFFICES ASSUME NEW i \in 1..Len(given), i > k
                 PROVE  Ahead(now, given[i]) >= 2
      OBVIOUS
    <3>1. 1 \in 1..Len(given) /\ Ahead(now, given[1]) >= 1
      BY <1>4 DEF GivenAhead
    <3>2. CASE i > 1
      BY <1>5, <3>1, <3>2 DEF GivenSorted
    <3>3. CASE i = 1
      <4>1. given[1] # now' /\ now' \in Tick /\ given[1] \in Tick
        BY <1>1, <1>3, <1>4, <2>5, <3>1, <3>3 DEF TypeOK
      <4>2. Ahead(now', given[1]) # 0
        BY <4>1, AheadIs, AheadInjective
      <4> QED
        BY <1>5, <2>3, <3>1, <3>3, <4>2
    <3> QED
      BY <1>4, <3>2, <3>3
  <2>7. GivenAhead'
    <3> SUFFICES ASSUME NEW i \in 1..Len(given) - k
                 PROVE  /\ given'[i] % Period \in UlSlots
                        /\ 1 =< Ahead(now', given'[i])
                        /\ Ahead(now', given'[i]) < Ahead(now', next')
      BY <2>5 DEF GivenAhead
    <3>1. i + k \in 1..Len(given) /\ i + k > k /\ given'[i] = given[i + k]
      BY <1>4, <2>5
    <3> QED
      BY <1>4, <1>5, <2>2, <2>3, <2>6, <3>1 DEF GivenAhead
  <2>8. GivenSorted'
    <3> SUFFICES ASSUME NEW i \in 1..Len(given) - k, NEW j \in 1..Len(given) - k, i < j
                 PROVE  Ahead(now', given'[i]) < Ahead(now', given'[j])
      BY <2>5 DEF GivenSorted
    <3>1. /\ i + k \in 1..Len(given) /\ j + k \in 1..Len(given) /\ i + k < j + k
          /\ given'[i] = given[i + k] /\ given'[j] = given[j + k]
      BY <1>4, <2>5
    <3>2. Ahead(now, given[i + k]) < Ahead(now, given[j + k])
      BY <3>1 DEF GivenSorted
    <3> QED
      BY <1>5, <2>3, <3>1, <3>2
  <2> QED
    BY <1>1, <2>1, <2>4, <2>7, <2>8 DEF NextLeft
<1>12. CASE (\E p \in UlSlots : NeedRetx(p)) \/ UNCHANGED vars
  <2>1. UNCHANGED <<now, next, phase, dci, given>>
    BY <1>12 DEF NeedRetx, vars
  <2> QED
    BY <1>4, <1>6, <2>1 DEF NextNear, NextLeft
<1> QED
  BY <1>7, <1>8, <1>9, <1>10, <1>11, <1>12 DEF Next, Pass

LEMMA SlotInit == Init => SlotInv
<1> SUFFICES ASSUME Init PROVE SlotInv
  OBVIOUS
<1>1. TypeOK
  BY Constants, UlSlotsAssumption DEF Init, TypeOK, Tick, UlSlotsAssumption
<1>2. Ahead(now, next) = 0
  BY <1>1, AheadIs DEF Init, TypeOK
<1>3. Len(given) = 0
  BY DEF Init
<1> QED
  BY <1>1, <1>2, <1>3, Constants
     DEF Init, SlotInv, NextNear, NextLeft, GivenAhead, GivenSorted

LEMMA SlotInvariance == Spec => []SlotInv
BY SlotInit, SlotStep, PTL DEF Spec

(***************************************************************************)
(* The theorems                                                            *)
(***************************************************************************)

\* The clock and ul_next stay slot numbers and the DCIs within their limit.
THEOREM UlSlotsTypeOK == Spec => []TypeOK
BY SlotInvariance, PTL DEF SlotInv

\* Uplink slots are granted in their order and each in one pass, for every
\* period and number of slots.
THEOREM UlSlotsInOrder == Spec => []GrantsInOrder
<1>1. SlotInv => GrantsInOrder
  <2> SUFFICES ASSUME SlotInv, NEW i \in 1..Len(given), NEW j \in 1..Len(given), i < j
               PROVE  Diff(given[j], given[i]) > 0
    BY DEF GrantsInOrder
  <2> USE DEF SlotInv
  <2>1. /\ now \in Tick /\ next \in Tick
        /\ given[i] \in Tick /\ given[j] \in Tick
    BY DEF TypeOK
  <2>2. /\ Ahead(now, given[i]) \in Nat /\ Ahead(now, given[j]) \in Nat
        /\ Ahead(now, next) \in Nat
    BY <2>1, AheadIs, Constants
  <2>3. /\ Ahead(now, given[i]) < Ahead(now, given[j])
        /\ Ahead(now, given[j]) < Half
    BY <2>2, Constants DEF GivenAhead, GivenSorted, NextNear
  <2>4. Diff(given[j], given[i]) = Ahead(now, given[j]) - Ahead(now, given[i])
    <3>1. /\ Ahead(now, given[j]) - Ahead(now, given[i]) < Half
          /\ Ahead(now, given[i]) - Ahead(now, given[j]) < Half
      BY <2>2, <2>3, Constants
    <3> QED
      BY <2>1, <3>1, DiffIs
  <2> QED
    BY <2>2, <2>3, <2>4
<1> QED
  BY <1>1, SlotInvariance, PTL

\* The grants to come are in uplink slots that begin after now and before
\* ul_next.
THEOREM UlSlotsBetween == Spec => []GrantsBetween
<1>1. SlotInv => GrantsBetween
  <2> SUFFICES ASSUME SlotInv, NEW i \in 1..Len(given)
               PROVE  /\ Diff(given[i], now) >= 0
                      /\ Diff(next, given[i]) > 0
                      /\ given[i] % Period \in UlSlots
    BY DEF GrantsBetween
  <2> USE DEF SlotInv
  <2>1. now \in Tick /\ next \in Tick /\ given[i] \in Tick
    BY DEF TypeOK
  <2>2. /\ Ahead(now, given[i]) \in Nat /\ Ahead(now, next) \in Nat
        /\ Ahead(now, now) = 0
    BY <2>1, AheadIs, Constants
  <2>3. /\ 1 =< Ahead(now, given[i])
        /\ Ahead(now, given[i]) < Ahead(now, next)
        /\ Ahead(now, next) < Half
        /\ given[i] % Period \in UlSlots
    BY DEF GivenAhead, NextNear
  <2>4. Diff(given[i], now) = Ahead(now, given[i]) - Ahead(now, now)
    <3>1. /\ Ahead(now, given[i]) - Ahead(now, now) < Half
          /\ Ahead(now, now) - Ahead(now, given[i]) < Half
      BY <2>2, <2>3, Constants
    <3> QED
      BY <2>1, <3>1, DiffIs
  <2>5. Diff(next, given[i]) = Ahead(now, next) - Ahead(now, given[i])
    <3>1. /\ Ahead(now, next) - Ahead(now, given[i]) < Half
          /\ Ahead(now, given[i]) - Ahead(now, next) < Half
      BY <2>2, <2>3, Constants
    <3> QED
      BY <2>1, <3>1, DiffIs
  <2> QED
    BY <2>2, <2>3, <2>4, <2>5
<1> QED
  BY <1>1, SlotInvariance, PTL

\* DevAssert(k2 > 0): the slot the loop looks for a TDA for begins after the
\* one being prepared.
K2Positive ==
  phase = "loop" => Diff(Candidate, now) > 0

\* The assertion on k2 in nr_ulsch_preprocessor cannot fail.
THEOREM UlSlotsK2Positive == Spec => []K2Positive
<1>1. SlotInv => K2Positive
  <2> SUFFICES ASSUME SlotInv PROVE Diff(Candidate, now) > 0
    BY DEF K2Positive
  <2>1. /\ now \in Tick /\ Candidate \in Tick /\ Ahead(now, now) = 0
        /\ Ahead(now, Candidate) \in Nat /\ Ahead(now, Candidate) < Half
        /\ MinRxTx =< Ahead(now, Candidate)
    BY CandidateIs, AheadIs DEF SlotInv, TypeOK
  <2>2. /\ Ahead(now, Candidate) - Ahead(now, now) < Half
        /\ Ahead(now, now) - Ahead(now, Candidate) < Half
    BY <2>1, Constants
  <2>3. Diff(Candidate, now) = Ahead(now, Candidate) - Ahead(now, now)
    BY <2>1, <2>2, DiffIs
  <2> QED
    BY <2>1, <2>3, Constants
<1> QED
  BY <1>1, SlotInvariance, PTL

\* pf_ul was called for the uplink slot s, which a TDA reaches, with DCIs left:
\* it granted somebody, or nobody on behalf of the last downlink slot.
Offered(s) ==
  /\ s = Candidate /\ Reaches(s)
  /\ now % Period \in DlSlots /\ dci > 0
  /\ given' = Append(given, s) \/ (LastDl /\ dci' = dci)

\* ul_next leaves an uplink slot behind only when it was offered, or is too near
\* for a UE to send in it.
NoneSkipped ==
  \A s \in Tick :
    /\ s % Period \in UlSlots
    /\ Ahead(now, next) =< Ahead(now, s)
    /\ Ahead(now, s) < Ahead(now, next')
    => Ahead(now, s) < MinRxTx \/ Offered(s)

\* The loop of nr_ulsch_preprocessor jumps over no uplink slot that a UE could
\* still be granted, across the wrap of the frame number too: the part of
\* RetxServed that needs no fairness.
THEOREM UlSlotsNoneSkipped == Spec => [][NoneSkipped]_vars
<1>1. ASSUME SlotInv, Next PROVE NoneSkipped
  <2> SUFFICES ASSUME NEW s \in Tick, s % Period \in UlSlots,
                      Ahead(now, next) =< Ahead(now, s),
                      Ahead(now, s) < Ahead(now, next'),
                      MinRxTx =< Ahead(now, s)
               PROVE  Offered(s)
    <3>1. MinRxTx \in Int /\ \A r \in Tick : Ahead(now, r) \in Int
      BY <1>1, AheadIs, Constants DEF SlotInv, TypeOK
    <3> QED
      BY <3>1 DEF NoneSkipped
  <2>1. /\ now \in Tick /\ next \in Tick /\ Candidate \in Tick
        /\ Ahead(now, next) \in Int /\ Ahead(now, s) \in Int
        /\ Ahead(now, Candidate) \in Nat /\ Ahead(now, Candidate) < Half
        /\ Ahead(now, Candidate) =< Ahead(now, s)
    BY <1>1, CandidateIs, AheadIs, Constants DEF SlotInv, TypeOK
  <2>2. next' # next /\ next' # Candidate
    BY <2>1
  <2>3. PassEmpty \/ \E n \in 1..MaxSched, served \in BOOLEAN : PassGrants(n, served)
    BY <1>1, <2>2 DEF Next, Pass, Call, Stop, NextSlot, NeedRetx
  <2>4. /\ next' = Plus(Candidate, 1)
        /\ now % Period \in DlSlots /\ Reaches(Candidate) /\ dci > 0
        /\ given' = Append(given, Candidate) \/ (LastDl /\ dci' = dci)
    <3>1. CASE PassEmpty
      BY <2>2, <3>1 DEF PassEmpty
    <3>2. ASSUME NEW n \in 1..MaxSched, NEW served \in BOOLEAN, PassGrants(n, served)
          PROVE  /\ next' = Plus(Candidate, 1)
                 /\ now % Period \in DlSlots /\ Reaches(Candidate) /\ dci > 0
                 /\ given' = Append(given, Candidate)
      BY <1>1, <3>2, UlSlotsAssumption DEF PassGrants, SlotInv, TypeOK, UlSlotsAssumption
    <3> QED
      BY <2>3, <3>1, <3>2
  <2>5. Ahead(now, next') = Ahead(now, Candidate) + 1
    <3>1. 1 \in 0..Wrap /\ Ahead(now, Candidate) + 1 < Wrap
      BY <2>1, Constants
    <3> QED
      BY <2>1, <2>4, <3>1, AheadPlus
  <2>6. Ahead(now, s) = Ahead(now, Candidate)
    BY <2>1, <2>5
  <2>7. s = Candidate
    BY <2>1, <2>6, AheadInjective
  <2> QED
    BY <2>4, <2>7 DEF Offered
<1>2. SlotInv /\ [Next]_vars => [NoneSkipped]_vars
  BY <1>1
<1> QED
  BY <1>2, SlotInvariance, PTL DEF Spec
=============================================================================
