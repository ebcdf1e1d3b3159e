------------------------------- MODULE DlPass -------------------------------
(***************************************************************************)
(* One downlink slot after another in gnb_patch/gNB_scheduler_dlsch.c:     *)
(* pf_dl shares the resource blocks and DCIs of a slot among the UEs of    *)
(* one beam, then nr_schedule_ue_spec sends what was planned and tells the *)
(* runtime table of the slice policy.  The first loop of pf_dl grants      *)
(* retransmissions and collects the UEs for new data; the second serves    *)
(* these by falling coefficient, under the minimum grant of the posture    *)
(* and the floor, the cap and the consecutive grant limit of the policy.   *)
(*                                                                         *)
(* Whatever is decided by a computation (MCS, TBS) or outside the file     *)
(* (CCE, PUCCH occasion, RLC buffers) is a choice.  All of a slot runs     *)
(* under sched_lock: nothing interleaves with its steps.  DlHarq models    *)
(* what happens to the processes of one UE.                                *)
(***************************************************************************)
EXTENDS Integers, Sequences, FiniteSets

CONSTANTS
  NumUe,      \* length of connected_ue_list, visited in order
  Carrier,    \* blocks of the carrier, n_rb_sched when a slot begins
  BwpStart,   \* first block of the BWP in the carrier
  BwpSize,
  MaxUe,      \* max_sched_ues: the DCIs of a slot
  MinRb,      \* per UE: dl_min_grant_prb of its posture, or 5
  RbFloor,    \* per UE: dl_rb_floor of its slice policy, 0 for none
  RbCap,      \* per UE: dl_rb_cap, 0 for none
  MaxCg,      \* per UE: dl_maxcg_override or dl_max_consecutive_grants, 0 for none
  Coefs,      \* proportional fair coefficients, after the multipliers
  RetxSizes,  \* sizes of the blocks that may have to be repeated
  Reserved,   \* the sets of blocks that others may hold when a slot begins
  Gaps,       \* distances between two downlink slots
  Wrap,       \* slots in 1024 frames, after which the tick restarts
  RunMax,     \* bound: dl_consecutive_grants is counted up to here
  RuntimeMax  \* RK_SLICE_RUNTIME_MAX

Ue == 1..NumUe
Span == 0..BwpSize   \* positions and lengths in the BWP

ASSUME DlPassAssumption ==
  /\ NumUe \in Nat \ {0}
  /\ BwpStart \in Nat
  /\ BwpSize \in Nat \ {0}
  /\ MaxUe \in Nat
  /\ MinRb \in [Ue -> Nat \ {0}]
  /\ RbFloor \in [Ue -> Nat]
  /\ RbCap \in [Ue -> Nat]
  /\ MaxCg \in [Ue -> Nat]
  /\ Coefs \subseteq Nat \ {0}
  /\ RetxSizes \subseteq Nat \ {0}
  /\ Reserved \subseteq SUBSET Nat
  /\ Gaps \subseteq Nat \ {0}
  /\ Wrap \in Nat \ {0}
  /\ RunMax \in Nat \ {0}
  /\ \A u \in Ue : MaxCg[u] =< RunMax
  /\ RuntimeMax \in Nat

ASSUME DlCarrierAssumption == Carrier \in Nat /\ BwpStart + BwpSize =< Carrier

VARIABLES
  tick,    \* dl_now_tick: the slot being shared
  phase,   \* "idle", "collect" (first loop), "allocate" (second) or "send"
  visit,   \* the UE the first loop, or the loop of nr_schedule_ue_spec, is at
  cands,   \* UE_sched: what is left of it in the second loop
  taken,   \* history: the blocks in use when the slot began
  mask,    \* rballoc_mask: the blocks in use
  left,    \* n_rb_sched
  remain,  \* remainUEs
  retx,    \* rbSize of the block at the head of retrans_dl_harq, 0 if none
  grants,  \* the PDSCHs of the slot, in the order they were planned
  last,    \* last_dl_tick of the UE's runtime entry
  run,     \* dl_consecutive_grants, 0 while the UE has no runtime entry
  streak   \* history: slots in a row, up to the last one, with new data for the UE

vars == <<tick, phase, visit, cands, taken, mask, left, remain, retx, grants,
          last, run, streak>>
slotVars == <<tick, taken, retx, streak>>
pool == <<mask, left, remain, grants>>
runtime == <<last, run>>

Candidate == [ue : Ue, coef : Coefs \cup {0}]
Grant == [ue : Ue, start : Nat, size : Nat \ {0}, kind : {"retx", "new"}]

Smaller(a, b) == IF a < b THEN a ELSE b
Larger(a, b) == IF a < b THEN b ELSE a

(***************************************************************************)
(* Blocks.  Positions are relative to the start of the BWP.                *)
(***************************************************************************)

Used(i) == BwpStart + i \in mask

\* Where a search for new data begins: the first free block or, free or not,
\* the last one; and how many blocks it takes to be free from there on.
FreeRun(start, len) ==
  /\ start < BwpSize
  /\ \A i \in 0..start - 1 : Used(i)
  /\ start = BwpSize - 1 \/ ~Used(start)
  /\ len > 0 /\ start + len =< BwpSize
  /\ \A i \in start + 1..start + len - 1 : ~Used(i)
  /\ start + len = BwpSize \/ Used(start + len)

\* A free run that begins at start and is long enough for size blocks.
Fits(start, size) ==
  /\ start < BwpSize - 1
  /\ start + size =< BwpSize
  /\ \A i \in start..start + size - 1 : ~Used(i)
  /\ start = 0 \/ Used(start - 1)

FirstFit(start, size) ==
  Fits(start, size) /\ \A s \in 0..start - 1 : ~Fits(s, size)

\* The blocks a PDSCH puts on the air.
Blocks(g) == {BwpStart + g.start + i : i \in 0..g.size - 1}

\* Mutation: one block too few is marked.
MarksOneLess(start, size) == {start + rb : rb \in BwpStart..size - 2}

\* The blocks that are marked for new data; the loop counts from bwp_start.
Marks(start, size) == {start + rb : rb \in BwpStart..size - 1}

\* For a retransmission the loop runs from the first block up to the size.
MarksRepeated(start, size) == BwpStart + start..size - 1

(***************************************************************************)
(* The runtime table of the slice policy                                   *)
(***************************************************************************)

\* Mutation: one more grant in a row than the limit.
ThrottledLate(u) ==
  /\ MaxCg[u] > 0
  /\ run[u] > MaxCg[u]
  /\ last[u] = tick - 1

\* rk_slice_runtime_dl_should_throttle.
Throttled(u) ==
  /\ MaxCg[u] > 0
  /\ run[u] > 0
  /\ last[u] = tick - 1
  /\ run[u] >= MaxCg[u]

HasRuntime(u) == run[u] > 0
RuntimeFull == Cardinality({u \in Ue : HasRuntime(u)}) >= RuntimeMax

\* rk_slice_runtime_note_dl_grant: nothing is noted when the table is full.
NoteGrant(u) ==
  IF ~HasRuntime(u) /\ RuntimeFull
  THEN UNCHANGED runtime
  ELSE /\ last' = [last EXCEPT ![u] = tick]
       /\ run' = [run EXCEPT ![u] =
                    IF last[u] = tick - 1 THEN Smaller(run[u] + 1, RunMax) ELSE 1]

-----------------------------------------------------------------------------
Init ==
  /\ tick = 0
  /\ phase = "idle"
  /\ visit = 1
  /\ cands = {}
  /\ taken = {}
  /\ mask = {}
  /\ left = 0
  /\ remain = MaxUe
  /\ retx = [u \in Ue |-> 0]
  /\ grants = <<>>
  /\ last = [u \in Ue |-> -1]
  /\ run = [u \in Ue |-> 0]
  /\ streak = [u \in Ue |-> 0]

\* frame * slots_per_frame + slot
TickAfter(gap) == (tick + gap) % Wrap

Granted(u, kind) == \E i \in 1..Len(grants) : grants[i].ue = u /\ grants[i].kind = kind

\* nr_dlsch_preprocessor calls pf_dl for the next downlink slot.
Begin(gap) ==
  /\ phase = "idle"
  /\ phase' = "collect"
  /\ tick' = TickAfter(gap)
  /\ visit' = 1
  /\ cands' = {}
  /\ grants' = <<>>
  /\ remain' = MaxUe
  /\ left' = Carrier
  /\ retx' \in [Ue -> RetxSizes \cup {0}]
  /\ taken' \in Reserved
  /\ mask' = taken'
  /\ streak' = [u \in Ue |->
                 IF Granted(u, "new") /\ gap = 1 /\ tick' = tick + 1
                 THEN Smaller(streak[u] + 1, RunMax) ELSE 0]
  /\ UNCHANGED runtime

(***************************************************************************)
(* First loop                                                              *)
(***************************************************************************)
Visiting(u) ==
  /\ phase = "collect"
  /\ visit = u
  /\ visit' = u + 1

\* A failed UE, no DCI left, no process free, nothing to send, or a
\* retransmission for which there are no blocks, no CCE or no PUCCH.
Skip(u) ==
  /\ Visiting(u)
  /\ UNCHANGED <<slotVars, phase, cands, pool, runtime>>

Planned(g, marked) ==
  /\ grants' = Append(grants, g)
  /\ remain' = remain - 1
  /\ left' = left - g.size
  /\ mask' = mask \cup marked

PlanRepeat(u, start, size) ==
  /\ Visiting(u)
  /\ remain > 0
  /\ retx[u] > 0
  /\ Planned([ue |-> u, start |-> start, size |-> size, kind |-> "retx"],
             MarksRepeated(start, size))
  /\ UNCHANGED <<slotVars, phase, cands, runtime>>

\* allocate_dl_retransmission with the old TDA: the first free run that is
\* long enough.
Repeat(u) ==
  \E start \in Span : FirstFit(start, retx[u]) /\ PlanRepeat(u, start, retx[u])

\* With another TDA the size that carries the same TBS is searched for in the
\* first free run.
RepeatElsewhere(u) ==
  \E start, len \in Span :
    /\ FreeRun(start, len) /\ ~Used(start)
    /\ \E size \in 1..len : PlanRepeat(u, start, size)

\* A UE with data, or in need of a timing advance command, is a candidate.
Collect(u) ==
  /\ Visiting(u)
  /\ remain > 0
  /\ retx[u] = 0
  /\ \E coef \in Coefs :
       cands' = cands \cup {[ue |-> u, coef |-> IF Throttled(u) THEN 0 ELSE coef]}
  /\ UNCHANGED <<slotVars, phase, pool, runtime>>

Sort ==
  /\ phase = "collect"
  /\ visit > NumUe
  /\ phase' = "allocate"
  /\ UNCHANGED <<slotVars, visit, cands, pool, runtime>>

(***************************************************************************)
(* Second loop                                                             *)
(***************************************************************************)

\* The UE the iterator is at: qsort leaves equals in any order.
Turn(c) ==
  /\ phase = "allocate"
  /\ c \in cands
  /\ \A d \in cands : d.coef =< c.coef
  /\ cands' = cands \ {c}

\* No DCI, no CCE, no PUCCH occasion or no room for it.
Refuse(c) ==
  /\ Turn(c)
  /\ UNCHANGED <<slotVars, phase, visit, pool, runtime>>

\* Mutation: the floor is not limited by what is available.
ShapedBlindly(u, size, available) ==
  LET raised == Larger(size, RbFloor[u])
  IN IF RbCap[u] > 0 THEN Smaller(raised, RbCap[u]) ELSE raised

\* The floor raises a size as far as there is room, the cap then limits it.
Shaped(u, size, available) ==
  LET raised == Larger(size, Smaller(RbFloor[u], available))
  IN IF RbCap[u] > 0 THEN Smaller(raised, RbCap[u]) ELSE raised

HasRoom(c, len) ==
  /\ remain # 0
  /\ left >= MinRb[c.ue]
  /\ len >= MinRb[c.ue]

\* The buffer decides the size within what is free (nr_find_nb_rb).
GrantNew(c) ==
  /\ Turn(c)
  /\ \E start, len \in Span :
       /\ FreeRun(start, len)
       /\ HasRoom(c, len)
       /\ \E need \in MinRb[c.ue]..len :
            LET size == Shaped(c.ue, need, len)
            IN Planned([ue |-> c.ue, start |-> start, size |-> size, kind |-> "new"],
                       Marks(start, size))
  /\ UNCHANGED <<slotVars, phase, visit, runtime>>

EndPass ==
  /\ phase = "allocate"
  /\ cands = {}
  /\ phase' = "send"
  /\ visit' = 1
  /\ UNCHANGED <<slotVars, cands, pool, runtime>>

(***************************************************************************)
(* nr_schedule_ue_spec                                                     *)
(***************************************************************************)

\* The UE has a PDSCH or not: only an initial transmission is noted.
SendTo(u) ==
  /\ phase = "send"
  /\ visit = u
  /\ visit' = u + 1
  /\ IF Granted(u, "new") THEN NoteGrant(u) ELSE UNCHANGED runtime
  /\ UNCHANGED <<slotVars, phase, cands, pool>>

End ==
  /\ phase = "send"
  /\ visit > NumUe
  /\ phase' = "idle"
  /\ UNCHANGED <<slotVars, visit, cands, pool, runtime>>

Next ==
  \/ \E gap \in Gaps : Begin(gap)
  \/ \E u \in Ue : Skip(u) \/ Repeat(u) \/ RepeatElsewhere(u) \/ Collect(u)
  \/ Sort
  \/ \E c \in cands : Refuse(c) \/ GrantNew(c)
  \/ EndPass
  \/ \E u \in Ue : SendTo(u)
  \/ End

Spec == Init /\ [][Next]_vars

-----------------------------------------------------------------------------
(***************************************************************************)
(* Properties                                                              *)
(***************************************************************************)

IsNew(g) == g.kind = "new"

\* Every variable has its type.
TypeOK ==
  /\ tick \in 0..Wrap - 1
  /\ phase \in {"idle", "collect", "allocate", "send"}
  /\ visit \in 1..NumUe + 1
  /\ cands \subseteq Candidate
  /\ taken \subseteq Nat
  /\ mask \subseteq Nat
  /\ left \in Int
  /\ remain \in Int
  /\ retx \in [Ue -> RetxSizes \cup {0}]
  /\ grants \in Seq(Grant)
  /\ last \in [Ue -> -1..Wrap - 1]
  /\ run \in [Ue -> 0..RunMax]
  /\ streak \in [Ue -> 0..RunMax]

\* A retransmission that does not begin at the first block of the carrier is
\* marked in part: the marking loop of allocate_dl_retransmission counts from
\* its first block up to its size.
PartlyMarked(g) == g.kind = "retx" /\ BwpStart + g.start > 0

\* The searches look at the map as it is: a minimum grant of one block may
\* take a last block that is in use.
Searched(g) == g.kind = "retx" \/ MinRb[g.ue] > 1

\* "Check that there are enough resources for retransmission": no PDSCH is
\* given a block that was in use when the slot began, and none that an earlier
\* one of the slot was given, but for the blocks that a retransmission behind
\* the first block of the carrier leaves unmarked.
OverlapOnlyUnmarked ==
  \A j \in 1..Len(grants) :
    Searched(grants[j]) =>
      /\ Blocks(grants[j]) \cap taken = {}
      /\ \A i \in 1..j - 1 :
           Blocks(grants[i]) \cap Blocks(grants[j]) # {} => PartlyMarked(grants[i])

\* No PDSCH reaches beyond the BWP, whatever floor, cap and minimum say.
GrantsInBwp ==
  \A i \in 1..Len(grants) : grants[i].start + grants[i].size =< BwpSize

\* A slot sends no more DCIs than it has; the two loops count them in one
\* place each.
DciLimit ==
  /\ Len(grants) =< MaxUe
  /\ MaxUe - remain = Len(grants)

\* A UE gets one PDSCH in a slot (there is one sched_pdsch), and one that
\* waits for a retransmission no new data.
OneGrantRetxFirst ==
  \A j \in 1..Len(grants) :
    /\ IsNew(grants[j]) => retx[grants[j].ue] = 0
    /\ \A i \in 1..j - 1 : grants[i].ue # grants[j].ue

\* The UE had new data as many slots in a row as its limit allows, and the
\* runtime table knows.
Exhausted(u) == MaxCg[u] > 0 /\ HasRuntime(u) /\ streak[u] >= MaxCg[u]

\* A UE that has had its consecutive grants yields: when it is given more new
\* data, every candidate below its own limit has been served or refused
\* before.  A retransmission in between starts the count afresh.
ExhaustedYield ==
  phase = "allocate" =>
    \A i \in 1..Len(grants) :
      IsNew(grants[i]) /\ Exhausted(grants[i].ue)
        => \A c \in cands : Exhausted(c.ue) \/ Throttled(c.ue)
=============================================================================
