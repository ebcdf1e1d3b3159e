------------------------------ MODULE UlSlots -------------------------------
(***************************************************************************)
(* nr_ulsch_preprocessor: which uplink slots a downlink slot plans.  ul_next*)
(* is the first uplink slot not planned yet; from each downlink slot the   *)
(* loop walks on from there, as far as a time domain allocation (TDA)      *)
(* reaches and DCIs are left, and calls pf_ul for every slot on the way.   *)
(*                                                                         *)
(* A pass of pf_ul is abstracted to the number of grants it makes, which   *)
(* UlPass shows to be at most the number of DCIs it was given.  Slots are  *)
(* counted modulo Wrap, the slots of 1024 frames.                          *)
(***************************************************************************)
EXTENDS Integers, Sequences

CONSTANTS
  Period,   \* numb_slots_period
  DlSlots,  \* positions in the period with downlink symbols
  UlSlots,  \* positions in the period with uplink symbols
  NumDl,    \* num_dl_slots: the full downlink slots, at its beginning
  Wrap,
  MinRxTx,  \* slots between a DCI and the earliest PUSCH
  Tdas,     \* configurations: sets of <<position, k2>> for which a TDA exists
  MaxDci,   \* min(DCIs of the carrier, MAX_DCI_CORESET)
  MaxSched  \* grants a pass may make: the number of UEs

Tick == 0..Wrap - 1
Position == 0..Period - 1
None == -1

ASSUME UlSlotsAssumption ==
  /\ Period \in Nat \ {0}
  /\ DlSlots \subseteq Position /\ UlSlots \subseteq Position /\ UlSlots # {}
  /\ NumDl \in Nat
  /\ Wrap \in Nat \ {0} /\ Wrap % Period = 0
  /\ MinRxTx \in Nat \ {0} /\ MinRxTx + Period < Wrap \div 2
  \* a k2 is at most 32, half the frame numbers are thousands of slots
  /\ \A tda \in Tdas : tda \subseteq UlSlots \X (1..Wrap \div 2 - Period - 1)
  /\ MaxDci \in Nat \ {0} /\ MaxSched \in Nat \ {0}

VARIABLES
  tda,    \* the configuration the gNB was started with
  now,    \* the slot being prepared
  next,   \* ul_next
  dci,    \* max_dci: what is left of it in this slot
  phase,  \* "slot" before the preprocessor is called, "loop", "done"
  need,   \* the position a waiting retransmission fits into, None if any does
  given   \* history: uplink slots to come with grants, in the order granted

vars == <<tda, now, next, dci, phase, need, given>>

TypeOK ==
  /\ tda \in Tdas
  /\ now \in Tick /\ next \in Tick
  /\ dci \in 0..MaxDci
  /\ phase \in {"slot", "loop", "done"}
  /\ need \in UlSlots \cup {None}
  /\ given \in Seq(Tick)

(***************************************************************************)
(* Slot arithmetic                                                         *)
(***************************************************************************)

\* Mutation: the frame number is not taken modulo its range.
PlusUnwrapped(t, delta) == t + delta

\* fs_add_delta
Plus(t, delta) == (t + delta) % Wrap

\* Mutation: the difference is not taken around the wrap.
DiffFlat(a, b) == a - b

\* fs_get_diff: the shorter way round
Diff(a, b) ==
  LET d == a - b
  IN IF d < -(Wrap \div 2) THEN d + Wrap
     ELSE IF d > Wrap \div 2 THEN d - Wrap ELSE d

\* Mutation: always the earliest slot the UE can reach.
LaterSecond(a, b) == b

\* fs_get_max
Later(a, b) == IF Diff(a, b) =< 0 THEN b ELSE a

\* the loop over is_ul_slot
FirstUl(t) ==
  Plus(t, CHOOSE d \in Position :
            /\ Plus(t, d) % Period \in UlSlots
            /\ \A e \in 0..d - 1 : Plus(t, e) % Period \notin UlSlots)

-----------------------------------------------------------------------------
Init ==
  /\ tda \in Tdas
  /\ now = 0
  /\ next = 0
  /\ dci = MaxDci
  /\ phase = "slot"
  /\ need = None
  /\ given = <<>>

\* The MAC calls the preprocessor in every slot.
Call ==
  /\ phase = "slot"
  /\ phase' = "loop"
  /\ dci' = MaxDci
  /\ UNCHANGED <<tda, now, next, need, given>>

\* the uplink slot this turn of the loop is about
Candidate == FirstUl(Later(next, Plus(now, MinRxTx)))

Reaches(t) == <<t % Period, Diff(t, now)>> \in tda

\* No DCI left; or the slot has no downlink, or no TDA reaches the uplink slot.
Stop ==
  /\ phase = "loop"
  /\ phase' = "done"
  /\ \/ dci = 0 /\ next' = next
     \/ /\ dci > 0
        /\ now % Period \notin DlSlots \/ ~Reaches(Candidate)
        /\ next' = Candidate
  /\ UNCHANGED <<tda, now, dci, need, given>>

\* Mutation: no downlink slot is treated as the last.
LastDlNever == FALSE

LastDl == now % Period = NumDl - 1

\* pf_ul grants n > 0 UEs, the one whose retransmission waits for such a slot
\* perhaps among them; the slot is planned.
PassGrants(n, served) ==
  /\ phase = "loop"
  /\ dci >= n
  /\ now % Period \in DlSlots /\ Reaches(Candidate)
  /\ need' = IF served THEN None ELSE need
  /\ served => need = Candidate % Period
  /\ dci' = dci - n
  /\ next' = Plus(Candidate, 1)
  /\ given' = Append(given, Candidate)
  /\ UNCHANGED <<tda, now, phase>>

\* pf_ul grants nobody: only the last downlink slot goes on behind it, another
\* leaves it to the downlink slots to come.
PassEmpty ==
  /\ phase = "loop"
  /\ dci > 0
  /\ now % Period \in DlSlots /\ Reaches(Candidate)
  /\ IF LastDl
     THEN next' = Plus(Candidate, 1) /\ phase' = phase
     ELSE next' = Candidate /\ phase' = "done"
  /\ UNCHANGED <<tda, now, dci, need, given>>

\* The clock: the grant of the slot that begins is used.
NextSlot ==
  /\ phase = "done"
  /\ phase' = "slot"
  /\ now' = Plus(now, 1)
  /\ given' = IF given # <<>> /\ Head(given) = now' THEN Tail(given) ELSE given
  /\ UNCHANGED <<tda, next, dci, need>>

\* A transport block of an uplink slot has to be repeated in a slot of the
\* same kind: elsewhere its size would not be met.
NeedRetx(p) ==
  /\ phase = "slot"
  /\ need = None
  /\ \E k2 \in 1..Wrap \div 2 : <<p, k2>> \in tda
  /\ need' = p
  /\ UNCHANGED <<tda, now, next, dci, phase, given>>

Pass == PassEmpty \/ \E n \in 1..MaxSched, served \in BOOLEAN : PassGrants(n, served)

Next == Call \/ Stop \/ Pass \/ NextSlot \/ \E p \in UlSlots : NeedRetx(p)

Spec == Init /\ [][Next]_vars

\* The slots go by; a UE whose slot is offered again and again gets a CCE.
FairSpec ==
  /\ Spec
  /\ WF_vars(Call \/ Stop \/ Pass \/ NextSlot)
  /\ SF_vars(\E n \in 1..MaxSched : PassGrants(n, TRUE))

-----------------------------------------------------------------------------
(***************************************************************************)
(* Properties                                                              *)
(***************************************************************************)

\* Uplink slots are granted in their order and each in one pass: the feedback
\* list of a UE is in slot order only because of that, and handle_nr_ul_harq
\* takes every process before the one it looks for to be lost.
GrantsInOrder ==
  \A i, j \in 1..Len(given) : i < j => Diff(given[j], given[i]) > 0

\* The grants to come are near: they are in uplink slots that begin after now
\* and before ul_next, which is what AssertFatal in post_process_ulsch and the
\* block map, kept for a few slots only, rely on.
GrantsBetween ==
  \A i \in 1..Len(given) :
    /\ Diff(given[i], now) >= 0
    /\ Diff(next, given[i]) > 0
    /\ given[i] % Period \in UlSlots

\* "if it's the last DL slot, we should try all TDAs [...] we might starve HARQ
\* processes that need a retransmission in a specific slot": such a
\* retransmission is granted as long as DCIs are left for it.
RetxServed == [](need # None => <>(need = None))

=============================================================================
