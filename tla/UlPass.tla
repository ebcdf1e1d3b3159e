------------------------------- MODULE UlPass -------------------------------
(***************************************************************************)
(* One call of pf_ul after another: the pass that shares the resource      *)
(* blocks and DCIs of one uplink slot among the UEs of one beam.  A first  *)
(* loop over the UE list grants retransmissions and collects the UEs that  *)
(* may send new data; the second grants these in the order of the          *)
(* comparator, under the minimum grant of the posture and the floor, the   *)
(* cap and the consecutive grant limit of the slice policy.                *)
(*                                                                         *)
(* Whatever is decided by a computation (MCS, TBS, power headroom) or by a *)
(* procedure outside the pass (CCE, buffer state) is a choice.  The pass   *)
(* runs under sched_lock: nothing interleaves with its steps.              *)
(***************************************************************************)
EXTENDS Integers, Sequences, FiniteSets

CONSTANTS
  NumUe,      \* length of connected_ue_list, visited in order
  Carrier,    \* blocks of the carrier, the length of the block map
  BwpStart,   \* first block of the BWP in the carrier
  BwpSize,
  MaxUe,      \* max_num_ue: the DCIs left in this downlink slot
  MinRb,      \* per UE: min_grant_prb of its posture or of the gNB
  RbFloor,    \* per UE: ul_rb_floor of its slice policy, 0 for none
  RbCap,      \* per UE: ul_rb_cap, 0 for none
  MaxCg,      \* per UE: ul_maxcg, 0 for none
  Coefs,      \* proportional fair coefficients, after the multipliers
  RetxSizes,  \* sizes of the grants that may have to be repeated
  Reserved,   \* the sets of blocks that others may hold when a pass begins
  Gaps,       \* distances between two uplink slots
  Wrap,       \* slots in 1024 frames, after which the tick restarts
  RunMax,     \* bound: ul_consecutive_grants is counted up to here
  RuntimeMax  \* RK_SLICE_RUNTIME_MAX

Ue == 1..NumUe
Span == 0..BwpSize   \* positions and lengths in the BWP

ASSUME UlPassAssumption ==
  /\ NumUe \in Nat \ {0}
  /\ BwpStart \in Nat
  /\ BwpSize \in Nat \ {0}
  /\ MaxUe \in Nat \ {0}
  /\ MinRb \in [Ue -> Nat \ {0}]
  /\ RbFloor \in [Ue -> Nat]
  /\ RbCap \in [Ue -> Nat]
  /\ MaxCg \in [Ue -> Nat]
  /\ Coefs \subseteq Nat \ {0}
  /\ RetxSizes \subseteq Nat \ {0}
  /\ Reserved \subseteq SUBSET Nat
  /\ Gaps \subseteq Nat \ {0}
  /\ Wrap \in Nat \ {0}
  /\ RunMax \in Nat \ {0}
  /\ \A u \in Ue : MaxCg[u] =< RunMax
  /\ RuntimeMax \in Nat

ASSUME CarrierAssumption == Carrier \in Nat /\ BwpStart + BwpSize =< Carrier

VARIABLES
  tick,    \* ul_now_tick: the uplink slot being shared
  phase,   \* "idle", "collect" (first loop) or "allocate" (second)
  visit,   \* the UE the first loop is at
  cands,   \* UE_sched: what is left of it in the second loop
  taken,   \* history: the blocks in use when the pass began
  mask,    \* rballoc_mask: the blocks in use
  left,    \* n_rb_sched
  remain,  \* remainUEs
  retx,    \* rbSize of the grant at the head of retrans_ul_harq, 0 if none
  grants,  \* the PUSCHs of the pass, in the order they were granted
  last,    \* last_ul_tick of the UE's runtime entry
  run,     \* ul_consecutive_grants, 0 while the UE has no runtime entry
  streak   \* history: slots in a row, up to the last one, the UE was granted

vars == <<tick, phase, visit, cands, taken, mask, left, remain, retx, grants,
          last, run, streak>>
passVars == <<tick, taken, retx, streak>>
runtime == <<last, run>>

Candidate == [ue : Ue, inactive : BOOLEAN, coef : Coefs \cup {0}]
Grant == [ue : Ue, start : Nat, size : Nat \ {0}, kind : {"retx", "new", "inactive"}]

Smaller(a, b) == IF a < b THEN a ELSE b
Larger(a, b) == IF a < b THEN b ELSE a

(***************************************************************************)
(* Blocks.  Positions are relative to the start of the BWP.                *)
(***************************************************************************)

Used(i) == BwpStart + i \in mask

\* What the search loops find: the first free block, BwpSize if there is none,
\* and how many blocks are free in a row from it on.
FreeRun(start, len) ==
  /\ start = BwpSize \/ ~Used(start)
  /\ \A i \in 0..start - 1 : Used(i)
  /\ start + len =< BwpSize
  /\ \A i \in start..start + len - 1 : ~Used(i)
  /\ start + len = BwpSize \/ Used(start + len)

\* The blocks a grant puts on the air.
Blocks(g) == {BwpStart + g.start + i : i \in 0..g.size - 1}

\* Mutation: one block too few is marked.
MarksOneLess(start, size) == {start + rb : rb \in BwpStart..size - 2}

\* The blocks the marking loop marks; it counts rb from bwpStart.
Marks(start, size) == {start + rb : rb \in BwpStart..size - 1}

\* get_max_rb_range: n blocks are the longest free run in m.
LongestRun(n, m) ==
  LET Free(s, k) == \A i \in s..s + k - 1 : i \notin m
  IN /\ \E s \in 0..Carrier - n : Free(s, n)
     /\ \A k \in n + 1..Carrier : \A s \in 0..Carrier - k : ~Free(s, k)

\* get_best_ul_tda: rb_len keeps the width of the carrier when nothing is free.
BestLength(m) ==
  {IF n = 0 THEN Carrier ELSE n : n \in {k \in 0..Carrier : LongestRun(k, m)}}

(***************************************************************************)
(* The runtime table of the slice policy                                   *)
(***************************************************************************)

\* Mutation: one more grant in a row than the limit.
ThrottledLate(u) ==
  /\ MaxCg[u] > 0
  /\ run[u] > MaxCg[u]
  /\ last[u] = tick - 1

\* rk_slice_runtime_ul_should_throttle.
Throttled(u) ==
  /\ MaxCg[u] > 0
  /\ run[u] > 0
  /\ last[u] = tick - 1
  /\ run[u] >= MaxCg[u]

HasRuntime(u) == run[u] > 0
RuntimeFull == Cardinality({u \in Ue : HasRuntime(u)}) >= RuntimeMax

\* rk_slice_runtime_note_ul_grant: nothing is noted when the table is full.
NoteGrant(u) ==
  IF ~HasRuntime(u) /\ RuntimeFull
  THEN UNCHANGED runtime
  ELSE /\ last' = [last EXCEPT ![u] = tick]
       /\ run' = [run EXCEPT ![u] =
                    IF last[u] = tick - 1 THEN Smaller(run[u] + 1, RunMax) ELSE 1]

-----------------------------------------------------------------------------
Init ==
  /\ tick = 0
  /\ phase = "idle"
  /\ visit = 1
  /\ cands = {}
  /\ taken = {}
  /\ mask = {}
  /\ left = 0
  /\ remain = MaxUe
  /\ retx = [u \in Ue |-> 0]
  /\ grants = <<>>
  /\ last = [u \in Ue |-> -1]
  /\ run = [u \in Ue |-> 0]
  /\ streak = [u \in Ue |-> 0]

\* sched_frame * slots_per_frame + sched_slot
TickAfter(gap) == (tick + gap) % Wrap

Granted(u) == \E i \in 1..Len(grants) : grants[i].ue = u

\* The preprocessor calls pf_ul for the next uplink slot.
Begin(gap) ==
  /\ phase = "idle"
  /\ phase' = "collect"
  /\ tick' = TickAfter(gap)
  /\ visit' = 1
  /\ cands' = {}
  /\ grants' = <<>>
  /\ remain' = MaxUe
  /\ retx' \in [Ue -> RetxSizes \cup {0}]
  /\ taken' \in Reserved
  /\ mask' = taken'
  /\ left' \in BestLength(taken')
  /\ streak' = [u \in Ue |->
                 IF Granted(u) /\ gap = 1 /\ tick' = tick + 1
                 THEN Smaller(streak[u] + 1, RunMax) ELSE 0]
  /\ UNCHANGED runtime

(***************************************************************************)
(* First loop                                                              *)
(***************************************************************************)
Visiting(u) ==
  /\ phase = "collect"
  /\ visit = u
  /\ visit' = u + 1

\* A failed UE, no DCI left, no process free, nothing to send, or a
\* retransmission for which there are no blocks or no CCE.
Skip(u) ==
  /\ Visiting(u)
  /\ UNCHANGED <<passVars, phase, cands, mask, left, remain, grants, runtime>>

\* post_process_ulsch and the bookkeeping that follows it.
Signal(g) ==
  /\ grants' = Append(grants, g)
  /\ remain' = remain - 1
  /\ mask' = mask \cup Marks(g.start, g.size)
  /\ NoteGrant(g.ue)

\* allocate_ul_retransmission with the old TDA: from the first free block on,
\* the end of the BWP is the only limit that is checked.
Repeat(u) ==
  /\ Visiting(u)
  /\ remain > 0
  /\ retx[u] > 0
  /\ \E start, len \in Span :
       /\ FreeRun(start, len)
       /\ start + retx[u] =< BwpSize
       /\ Signal([ue |-> u, start |-> start, size |-> retx[u], kind |-> "retx"])
  \* The code subtracts the size from the pointer n_rb_sched, not from *n_rb_sched.
  /\ UNCHANGED <<passVars, phase, cands, left>>

\* With another TDA the size that carries the same TBS is searched for in the
\* free run.
RepeatElsewhere(u) ==
  /\ Visiting(u)
  /\ remain > 0
  /\ retx[u] > 0
  /\ \E start, len \in Span :
       /\ FreeRun(start, len)
       /\ \E size \in 1..len :
            Signal([ue |-> u, start |-> start, size |-> size, kind |-> "retx"])
  /\ UNCHANGED <<passVars, phase, cands, left>>

\* Mutation: a UE whose retransmission found no room is a candidate too.
CollectAnyway(u) ==
  /\ Visiting(u)
  /\ remain > 0
  /\ \E inactive \in BOOLEAN, coef \in Coefs :
       cands' = cands \cup
         {[ue |-> u, inactive |-> inactive,
           coef |-> IF Throttled(u) THEN 0 ELSE coef]}
  /\ UNCHANGED <<passVars, phase, mask, left, remain, grants, runtime>>

\* A UE with data, or without but due for a grant (inactive), is a candidate.
Collect(u) ==
  /\ Visiting(u)
  /\ remain > 0
  /\ retx[u] = 0
  /\ \E inactive \in BOOLEAN, coef \in Coefs :
       cands' = cands \cup
         {[ue |-> u, inactive |-> inactive,
           coef |-> IF Throttled(u) THEN 0 ELSE coef]}
  /\ UNCHANGED <<passVars, phase, mask, left, remain, grants, runtime>>

Sort ==
  /\ phase = "collect"
  /\ visit > NumUe
  /\ phase' = "allocate"
  /\ UNCHANGED <<passVars, visit, cands, mask, left, remain, grants, runtime>>

(***************************************************************************)
(* Second loop                                                             *)
(***************************************************************************)

\* comparator: inactive UEs first, then by falling coefficient.
Before(p, q) ==
  \/ p.inactive /\ ~q.inactive
  \/ ~p.inactive /\ ~q.inactive /\ p.coef > q.coef

\* The UE the iterator is at: qsort leaves equals in any order.
Turn(c) ==
  /\ phase = "allocate"
  /\ c \in cands
  /\ \A d \in cands : ~Before(d, c)
  /\ cands' = cands \ {c}

\* No DCI, no CCE or no room for it.
Refuse(c) ==
  /\ Turn(c)
  /\ UNCHANGED <<passVars, phase, visit, mask, left, remain, grants, runtime>>

\* available_rb: free blocks in a row, at most the minimum when inactive.
Available(c, len) == IF c.inactive THEN Smaller(MinRb[c.ue], len) ELSE len

\* Mutation: the floor is not limited by what is available.
ShapedBlindly(u, size, available) ==
  LET raised == Larger(size, RbFloor[u])
  IN IF RbCap[u] > 0 THEN Smaller(raised, RbCap[u]) ELSE raised

\* The floor raises a size as far as there is room, the cap then limits it.
Shaped(u, size, available) ==
  LET raised == Larger(size, Smaller(RbFloor[u], available))
  IN IF RbCap[u] > 0 THEN Smaller(raised, RbCap[u]) ELSE raised

\* Mutation: the check for a DCI is dropped.
HasRoomWithoutDci(c, start, len) ==
  /\ left >= MinRb[c.ue]
  /\ start + MinRb[c.ue] =< BwpSize
  /\ Available(c, len) >= MinRb[c.ue]

HasRoom(c, start, len) ==
  /\ remain # 0
  /\ left >= MinRb[c.ue]
  /\ start + MinRb[c.ue] =< BwpSize
  /\ Available(c, len) >= MinRb[c.ue]

\* The power headroom may reduce what is available (nr_ue_max_mcs_min_rb), the
\* buffer decides the size within it (nr_find_nb_rb).
GrantNew(c) ==
  /\ Turn(c)
  /\ \E start, len \in Span :
       /\ FreeRun(start, len)
       /\ HasRoom(c, start, len)
       /\ \E available \in MinRb[c.ue]..Available(c, len) :
            \E need \in MinRb[c.ue]..available :
              LET size == Shaped(c.ue, need, available)
              IN /\ Signal([ue |-> c.ue, start |-> start, size |-> size,
                            kind |-> IF c.inactive THEN "inactive" ELSE "new"])
                 /\ left' = left - size
  /\ UNCHANGED <<passVars, phase, visit>>

End ==
  /\ phase = "allocate"
  /\ cands = {}
  /\ phase' = "idle"
  /\ UNCHANGED <<passVars, visit, cands, mask, left, remain, grants, runtime>>

Next ==
  \/ \E gap \in Gaps : Begin(gap)
  \/ \E u \in Ue : Skip(u) \/ Repeat(u) \/ RepeatElsewhere(u) \/ Collect(u)
  \/ Sort
  \/ \E c \in cands : Refuse(c) \/ GrantNew(c)
  \/ End

Spec == Init /\ [][Next]_vars

-----------------------------------------------------------------------------
(***************************************************************************)
(* Properties                                                              *)
(***************************************************************************)

IsNew(g) == g.kind # "retx"

\* Every variable has its type.
TypeOK ==
  /\ tick \in 0..Wrap - 1
  /\ phase \in {"idle", "collect", "allocate"}
  /\ visit \in 1..NumUe + 1
  /\ cands \subseteq Candidate
  /\ taken \subseteq Nat
  /\ mask \subseteq Nat
  /\ left \in Int
  /\ remain \in Int
  /\ retx \in [Ue -> RetxSizes \cup {0}]
  /\ grants \in Seq(Grant)
  /\ last \in [Ue -> -1..Wrap - 1]
  /\ run \in [Ue -> 0..RunMax]
  /\ streak \in [Ue -> 0..RunMax]

\* A grant for new data uses no block that was in use when the pass began and
\* none that an earlier grant of the pass, of either kind, was given: the first
\* free run is what both loops left of the map.
NewGrantsFree ==
  \A j \in 1..Len(grants) :
    IsNew(grants[j]) =>
      /\ Blocks(grants[j]) \cap taken = {}
      /\ \A i \in 1..j - 1 : Blocks(grants[i]) \cap Blocks(grants[j]) = {}

\* "Check the resource is enough for retransmission": no grant of either kind
\* uses a block that was in use before it.
GrantsFree ==
  \A j \in 1..Len(grants) :
    /\ Blocks(grants[j]) \cap taken = {}
    /\ \A i \in 1..j - 1 : Blocks(grants[i]) \cap Blocks(grants[j]) = {}

\* No grant reaches beyond the BWP, whatever floor, cap, minimum and power
\* limit say.
GrantsInBwp ==
  \A i \in 1..Len(grants) : grants[i].start + grants[i].size =< BwpSize

\* A pass sends no more DCIs than were left, and what it returns as
\* num_ue_sched, which the preprocessor subtracts from max_dci, is their number.
DciLimit ==
  /\ Len(grants) =< MaxUe
  /\ MaxUe - remain = Len(grants)

\* A UE gets one grant in a pass, and one that waits for a retransmission no
\* new data.
OneGrantRetxFirst ==
  \A j \in 1..Len(grants) :
    /\ IsNew(grants[j]) => retx[grants[j].ue] = 0
    /\ \A i \in 1..j - 1 : grants[i].ue # grants[j].ue

\* The UE was granted as many slots in a row as its limit allows, and the
\* runtime table knows.
Exhausted(u) == MaxCg[u] > 0 /\ HasRuntime(u) /\ streak[u] >= MaxCg[u]

\* A UE that has had its consecutive grants yields: when it is granted more
\* new data, every candidate below its own limit has been served or refused
\* before.  A UE may also count as throttled on an entry of 1024 frames ago.
ExhaustedYield ==
  phase = "allocate" =>
    \A i \in 1..Len(grants) :
      grants[i].kind = "new" /\ Exhausted(grants[i].ue)
        => \A c \in cands : ~c.inactive /\ (Exhausted(c.ue) \/ Throttled(c.ue))
=============================================================================
