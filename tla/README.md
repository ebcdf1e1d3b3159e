# Verification of User-RIC

TLA+ specifications of User-RIC: a tool server a language model calls
(`jetson_user_side/server.py`), an xApp that turns its commands into E2 control
messages and a posture file (`spark_ran_side/control_xapp.py`), and patches of
the OpenAirInterface gNB that apply both in its MAC scheduler (`gnb_patch/`).
TLC checks small instances; TLAPS proves the main safety properties for every
value of the constants.

## 1. Inventory

| part | source | state it keeps | operations |
|---|---|---|---|
| MCP server | `server.py` | active mode, roles of agents, last UE snapshot | tools (`set_scene`, `set_ul_posture`, `claim`, ...), each a sequence of xApp commands over TCP |
| xApp command server | `control_xapp.py` | `STATE`, `UE_REGISTRY`, `UE_UL_LA_REGISTRY`, `KEEPALIVE`, two locks | one thread per connection (`serve_forever`): set/clear posture, bind a UE to a slice, add slices, heartbeats |
| posture file | `control_xapp.py` 820-850, `rk_ue_la_policy.c`, `rk_ue_dl_policy.c` | a temporary and a published file, one table per direction in the gNB | write and rename; stat, open, parse on change |
| slice control at the node | `ran_func_slice.c`, `rk_slice_policy.c` | `g_rk_slice_assoc`, policy table, throttle counters | association updates; lookups and throttling by the schedulers |
| uplink scheduler | `gNB_scheduler_ulsch.c` | resource block map, HARQ lists and processes, `sched_ul_bytes`, DTX counter per UE | `pf_ul`, `allocate_ul_retransmission`, `post_process_ulsch`, `_nr_rx_sdu`, `handle_nr_ul_harq` |
| downlink scheduler | `gNB_scheduler_dlsch.c` | the same for the downlink, TA and CSI control elements | `pf_dl`, `allocate_dl_retransmission`, `finish_nr_dl_harq`, `nr_schedule_ue_spec` |
| RNTI watcher | `gnb_rnti_watcher.py` | last RNTI and measurements read from the gNB log, a state file | parse a line, push to the xApp, save |

How they interact. A tool call becomes one or several JSON commands, each on its
own TCP connection and served by its own thread of the xApp; nothing orders two
of them. Slice commands are broadcast to every E2 node while a lock is held,
each node being waited for a limited time in a thread that is abandoned, not
cancelled. Posture commands never touch E2: they rewrite a file the schedulers
poll in every slot. In the gNB, the E2 thread and the schedulers share the slice
association table without a lock; the scheduler and the receive path share the
HARQ state under `sched_lock`.

What is hard here, and what the properties are about:

* **the HARQ lists**: three linked lists of process ids per UE, moved by two
  paths, with reports that may be lost, in which a mistake leaks a process or
  closes a list into a loop; the byte count that must follow every path;
* **a file as a channel**: several writers on one temporary name, readers that
  stat, open and parse in separate steps, change detection by time stamp;
* **timed broadcast**: abandoned calls that are carried out later, partial
  success at one of several nodes, a lock that must not be kept by a silent node;
* **what is reported**: `ue_list` and the answers claim things about nodes and
  schedulers that must be true.

`PROJECT.json` lists each hazard at its line, with the properties that cover it.

## 2. Modules

| module | models | kind |
|---|---|---|
| `HarqProcess` | what a HARQ entity promises, process by process | abstract specification, implemented by `UlHarq` and `DlHarq` |
| `UlHarq` | the uplink HARQ lists, rounds, NDI, byte count, DTX counter of one UE | component; refines `HarqProcess` |
| `UlHarqProofs` | the theorems about `UlHarq`, with the facts about sequences and sums they need | proofs |
| `PostureFile` | posture registry, temporary and published file, the two tables | component |
| `PostureProofs` | the theorems about `PostureFile` | proofs |
| `SliceControl`, `SliceProofs` | commands, broadcast, calls, nodes, what is shown; its theorems | component, proofs |
| `UlPass`, `UlPassProofs` | one pass of `pf_ul` after another: block map, DCIs, order, floors, caps, throttle; its theorems | component, proofs |
| `UlSlots`, `UlSlotsProofs` | `nr_ulsch_preprocessor`: which uplink slots a downlink slot plans; its theorems | component, proofs; abstracts `UlPass` to its number of grants |
| `DlHarq`, `DlHarqProofs` | the downlink HARQ lists of one UE from `pf_dl` to `nr_schedule_ue_spec`, processes without feedback, the timing advance command; its theorems | component, proofs; refines `HarqProcess` |
| `DlPass`, `DlPassProofs` | one downlink slot after another: `pf_dl` for several UEs, then what is sent and noted; its theorems | component, proofs |
| `SceneControl`, `SceneProofs` | `claim_agent` and `set_scene` as sequences of requests, with the ageing of `UE_REGISTRY`, the watcher and other clients; its theorems | component, proofs; takes from `SliceControl` that a bind answers ok with or without an acknowledgement |
| `MC...` | values of the constants for TLC | instances |

Definitions preceded by `\* Mutation:` are not part of the specification: each
is the definition that follows it with one plausible mistake, kept to show that
the property it is paired with in `PROJECT.json` notices the mistake.

### UlHarq

State: `available`, `feedback`, `retrans` are the three `NR_list_t` of
`NR_UE_sched_ctrl_t` as sequences of process ids; `waiting`, `round`, `ndi`,
`tbSize` the fields of `NR_UE_ul_harq_t`; `schedBytes`, `dtx`, `failure` the
counters of the UE; `air` the PUSCHs granted whose CRC the PHY has not yet
reported, in slot order; `rx` the indication under way; `disableHarq` the
configuration the gNB was started with (both values are initial states).

| action | code |
|---|---|
| `ScheduleNew`, `ScheduleNewNoHarq` | `pf_ul` and `post_process_ulsch` for new data, without and with `disable_harq` (then the process is finished, and its NDI toggled, before the DCI is filled in) |
| `ScheduleRetx` | `allocate_ul_retransmission` succeeding for the head of `retrans_ul_harq` |
| `RxSdu` | `_nr_rx_sdu` up to `handle_nr_ul_harq`: bytes, DTX counter, `ul_failure` |
| `FlushOne`, `DropIndication`, `HandleCrc` | the loop of `handle_nr_ul_harq`, its early return and its last iteration |
| `LoseCrc` | environment: a CRC that is never reported |
| `Reaccess` | `nr_rx_ra_sdu` finding the C-RNTI of this UE: `reset_ul_harq_list` |

The scheduler and the receive path hold `sched_lock`, so while `rx` holds an
indication only its own actions are enabled. Whether a grant succeeds (resource
blocks, CCE) is a nondeterministic choice here: it only decides *when*.

### PostureFile

State: `registry` is `UE_UL_LA_REGISTRY`; `inode`, `tmp`, `path` the files and the
two names that refer to them; `fd`, `rfd` what writers and readers have open; `key`
what each reload function remembers of the file it loaded; `table` what a scheduler
applies; `Reader` the directions whose scheduler runs. `past`, `gone` and `alone`
(whether the last request met no other one and no restart) are history. What
`ue_list` shows of a posture is left out, see section 6.

Each handler is the sequence `Begin` (under `_UE_LA_LOCK`), `Snapshot` (again
under the lock), `OpenTmp` (truncates), `WriteTmp`, `Replace` or `ReplaceFails`,
`Reply`; each reload is `Poll` (stat), `OpenPath`, `Read`. Any two of these may
interleave. `Overlay` says what a file holds when two writers write it from
their own offset zero. A posture is one value per direction and all values have
the same width, so the size of a file depends on the fields it has. `ver` stands
for `st_mtim` with nanoseconds and takes every write to have its own stamp,
which a kernel with a coarse clock tick does not promise; `sec` is the second.
The tables have room for every UE.

### SliceControl

State: `pc`, `req`, `acked`, `turn` are one request thread's progress through
`do_ue_slice_assoc`, `do_set_profile`, `do_set_mode` or an add command; `lock` is
`_CTRL_LOCK`; `calls` the threads started by `control_slice_sm_timed`, awaited or
abandoned; `keepalive` the array each key of `KEEPALIVE` keeps; `registry`,
`activeMode` what is shown; `heard` the binding that `gnb_rnti_watcher.py` read last
of each UE in the log of the node `Watched`; `assoc` the table of each node.
`applied`, `reply` and `faults` are history.

A call passes `started`, `sent`, `applied`; when its array is freed before it
reads it (`Collect`) it sends whatever it finds (`EncodeFreed`). `Deliver` is
`write_ctrl_slice_sm`: the association table keeps its entries for ever and
drops an update for a new UE when it is full, which the node acknowledges all
the same. Slice definitions are only printed by the node and have no content here.

The binding `ue_list` shows has writers of its own besides the commands. `Hear` is
the watcher reading a line of the log, which names the slice the gNB applies to the
UE (0, which is `None`, without an association), into its `active_ues`;
`UpdateSchedulerRnti` is a push of what it has there, whether for an event or as the
heartbeat, which `update_scheduler_rnti` writes over whatever the registry says, the
binding a command has just recorded included. A push takes one step; a push still on
its way is a line not read yet. `PruneUes` and `ResetUes` drop entries, at any moment.

### UlPass

State: `tick` is `ul_now_tick`; `visit` the place of the iterator in
`connected_ue_list`; `cands` what is left of `UE_sched`; `mask` the blocks in use
in `vrb_map_UL`, `left` is `n_rb_sched`, `remain` is `remainUEs`; `retx` the size
of the grant at the head of each `retrans_ul_harq`; `last`, `run` the entries of
`g_rk_slice_runtime`. `taken` (the map when the pass began), `grants` and
`streak` (slots in a row a UE was granted) are history.

| action | code |
|---|---|
| `Begin` | the preprocessor's choice of a TDA with the longest free run, and the head of `pf_ul` |
| `Skip` | every `continue` of the first loop |
| `Repeat`, `RepeatElsewhere` | `allocate_ul_retransmission`, with the old or another TDA |
| `Collect`, `Sort` | the rest of the first loop; `qsort` with `comparator` |
| `Refuse`, `GrantNew` | the second loop, without and with a grant |
| `End` | the return of the number of grants |

`Signal` is what all grants have in common: `post_process_ulsch` with
`rk_slice_runtime_note_ul_grant`, and the loop that marks the blocks. One beam is
modelled, and the symbols of a slot are not told apart: a block is in use or not.
MCS, TBS, power headroom and CCE allocation are choices within the limits the
code gives them. Posture and policy of a UE are constants; that they may change
between two passes matters to no property here but `ExhaustedYield`, which is
about one limit.

### UlSlots

State: `now` is the slot being prepared, `next` is `ul_next`, `dci` what is left
of `max_dci`, `need` the kind of slot a waiting retransmission fits into, `given`
the uplink slots to come that have grants (history). The actions are the exits of
the loop (`Stop`, `PassEmpty`) and its turns (`PassGrants`, `PassEmpty` on the last
downlink slot); `NextSlot` is the clock. A pass makes any number of grants up to
`MaxSched` and the DCIs left, which is `UlPass!DciLimit`. The TDA list is a set of
pairs of a position in the period and a k2; the configurations of `MCTdas` reach
the mixed slot early, late, or both ways. A k2, or `MinRxTx`, and a period together
are less than half the slot numbers: a k2 is at most 32, 512 frames are thousands.

### DlHarq

State: `available`, `feedback`, `retrans`, `waiting`, `round`, `ndi` as in
`UlHarq`; `saved` is `harq_processes[].sched_pdsch`, what a retransmission starts
from; `sched` is the one `sched_pdsch` of the UE, empty while its `rbSize` is
zero; `frame`, `taFrame`, `taApply` are the frame number, `ta_frame`, `ta_apply`;
`silent` the processes with `downlinkHARQ_FeedbackDisabled_r17` (every subset is
an initial state); `interrupt` and `failure` the transmission interruption and
`ul_failure`. A slot has the two stages of the code, both under `sched_lock`.

| action | code |
|---|---|
| `PlanRetx` | `allocate_dl_retransmission` succeeding: `sched_pdsch` is a copy of the saved one |
| `PlanData`, `PlanTa` | the second loop of `pf_dl`, for a UE with data, or without but with a timing advance command due |
| `PlanNothing` | every other way through `pf_dl` |
| `SendNew`, `SendSilent`, `SendRetx`, `SendNothing` | the paths of `nr_schedule_ue_spec`: initial transmission, process without feedback, retransmission, `rbSize` of zero |
| `Report` | environment: `handle_dl_harq` for the oldest process that expects a report, which ends in `finish_nr_dl_harq`, `abort_nr_dl_harq` or the retransmission list |
| `Interrupt`, `Fail`, `Reaccess` | environment: OAI's interruption timer, the loss of the uplink, `reset_dl_harq_list` on the return of a UE |

A silent process is finished, and its NDI toggled, before the DCI is filled in; it
never retransmits, and the code that would take it from the retransmission list
is kept in `SendSilent`. `Due` is the comparison of `nr_schedule_ue_spec` and
`pf_dl` with the frame 100 after the last command, which wraps with the frame
number; because only one frame satisfies it, a command missed in that frame waits
for 1024 more, which `TaRecurs` tolerates.

### DlPass

State as in `UlPass`, for the downlink: `tick` is `dl_now_tick`, `mask` the blocks
in use in `vrb_map`, `left` is `n_rb_sched`, `remain` is `remainUEs`, `last` and
`run` the downlink half of `g_rk_slice_runtime`. `taken` and `streak` are history;
`grants` is the slot's `sched_pdsch` of every UE, in the order they were planned.

| action | code |
|---|---|
| `Begin` | `nr_dlsch_preprocessor` and the head of `pf_dl` |
| `Skip` | every `continue` of the first loop |
| `Repeat`, `RepeatElsewhere` | `allocate_dl_retransmission` with the old or another TDA |
| `Collect`, `Sort` | the rest of the first loop; `qsort` with `comparator` |
| `Refuse`, `GrantNew`, `EndPass` | the second loop, without and with a PDSCH; its end |
| `SendTo`, `End` | the loop of `nr_schedule_ue_spec`, as far as it notes initial transmissions in the runtime table |

What differs from the uplink, and is why this is a module of its own: a
retransmission searches for a run that is free over its whole length
(`FirstFit`), but marks only the blocks from its start up to its *size*
(`MarksRepeated`); the counts are kept by the caller; grants are noted
after the pass and only for initial transmissions; a new transmission takes its
first block unchecked when every block before the last is in use (`FreeRun`).
Posture, policy and coefficients are as in `UlPass`.

### SceneControl

State: `seen`, `watched`, `role` are `last_seen` (by the two limits it is compared
with), `source_family` and `role` of each entry of `UE_REGISTRY`; `assoc` the
binding at the gNB; `activeMode` and `lastCtrl` parts of `STATE`; `late` the
`set_mode` requests that still run after `backend_call` gave up. `pc` and `goal`
say where the one tool call of the server is, `claimed`, `list`, `todo`, `winner`,
`target`, `chosen`, `ok` are its local variables. `escaped`, `excuse` and `churn`
are history.

| action | code |
|---|---|
| `StartClaim`, `StartScene` | `tools_call` of `ric.claim_agent`, `ric.set_scene` |
| `Found`, `ClaimFirst`, `NotFound` | `_resolve_target_rnti("agent")`: listed, not listed before the claim, not listed after it or the list failed |
| `Before`, `After`, `ClaimFails` | `_claim_agent` up to the counters, and its error returns; which UE sent most is a choice |
| `ClearRole`, `ClearRoleFails` | one turn of `_clear_roles`, whose answers are ignored |
| `Crown`, `CrownFails`, `Rival`, `ClaimEnds` | the rest of `_claim_agent` |
| `GetState`, `SetMode`, `SetModeUnacked`, `SetModeTimesOut`, `SetPosture`, `Reply` | the rest of `ric.set_scene` |
| `Heartbeat`, `Age` | `update_scheduler_rnti`; time |
| `OtherBind`, `OtherTag`, `LateBind` | other clients of the xApp, and requests nobody waits for |

Every request prunes what has expired, with its role. Measurements, summaries and
the reading of postures before and after are left out: they change no state.

## 3. Runs

Every passing run is exhaustive within its bounds.

| run | question | bounds |
|---|---|---|
| `ul_harq_lossy` | does the byte count survive lost CRCs, does a CRC meet the grant it reports, is every reported block concluded, with HARQ enabled and disabled? | 3 processes, 3 rounds, 2 sizes, 3 PUSCHs in flight |
| `ul_harq_reaccess` | do the lists stay a partition and implement `HarqProcess` when the UE also restarts its access with CRCs in flight? | 3 processes, 2 rounds, 1 size |
| `posture_serial` | one request after another: does a posture lapse in a reload, do both schedulers converge? | 2 UEs, 2 values, both directions, 2 requests, 2 seconds |
| `posture_threads` | can interleaved writers and restarts make a scheduler apply a value nobody set, does a request that meets no other publish the registry whatever they left behind? | 2 threads (symmetric), 2 UEs, 1 value for each direction, 3 requests, the uplink reader |
| `posture_torn` | *violated*: is the published file never open for writing? | 2 threads |
| `slice_broadcast` | do nodes agree without faults, is nothing shown, and no ok given to `ue_slice_assoc`, that no node carried out with them, is everyone answered, does `ue_list` end up with what the watched node applies? | 2 threads, 2 nodes, 1 UE, 2 bindings, 2 requests, every command but `set_profile` |
| `ul_pass` | do new grants collide, are DCIs counted right, does an exhausted UE yield? | 3 UEs, 4 blocks of which one may be reserved, 2 DCIs, frame of 3 slots, 2 runtime entries |
| `ul_pass_repeat` | *violated*: does a retransmission avoid blocks in use? | the same |
| `ul_slots` | are uplink slots planned once and in order, across the wrap, and is no retransmission starved? | period of 5 slots, 5 periods to the wrap, 3 TDA configurations, 3 DCIs, 2 grants a pass |
| `dl_harq` | do the downlink lists stay a partition and implement `HarqProcess`, does every plan fit the lists it is carried out on, does the NDI toggle once per block, do blocks and timing advance commands come to an end? | 2 processes, any of them silent, 2 rounds, 2 sizes, 3 frame numbers |
| `dl_pass` | where may PDSCHs overlap, do they stay in the BWP, does an exhausted UE yield? | 3 UEs, 3 blocks of which one may be reserved, 2 DCIs, frame of 3 slots, 2 runtime entries |
| `scene_control` | is there one agent, does ok mean bound, do mode and posture reach one UE, does every tool call end? | 2 UEs, 2 modes, 2 tool calls, 1 request that fails or comes from another client |

Why these bounds. Three HARQ processes are one to be matched, one flushed before
it and one pending: every pair of list positions the loop distinguishes. Two
rounds are the first and the last transmission, three add one in between. Two
requests are enough for one to overtake, overwrite or undo another; a file needs
two UEs to lose a line of one while it is written for the other. Two seconds let
two writes fall into one second or into two. The third request of `posture_threads`
is one that comes after two that raced. In `UlPass` three UEs are one that retransmits, one
that is exhausted and one that is neither; a frame of three slots wraps within a
streak. `DlHarq` needs two processes to take the wrong one from a list, and three
frame numbers so that the one frame that is due is neither every other frame nor
out of reach; a retransmission that is repeated is left to `ul_harq_lossy` and the
proofs. `set_profile` takes the steps of `set_mode` but the last, and is left out
of the run. In
`SceneControl` two UEs are the agent and the one that replaces it, and also the
number for which a claim names a competitor; two calls let the second meet what the
first left, and one upset is what a call can meet in its middle. Two nodes are needed for partial
success and for one broadcast to overtake another at one node only. The counters
that bound the runs (`MaxAir`, `MaxBytes`, `MaxRequests`, `MaxSec`) only stop new
work; what is under way always runs to its end.

Fairness. `UlHarq`: the PHY reports what it decodes, the receive path runs to its
end under the lock, and a pending retransmission is not refused for ever; new
grants, losses and re-access are not obliged to happen. `BlocksConclude` leaves
out a block whose CRC was lost and a failed UE, which the code does not serve.
`PostureFile`: a handler that began continues, and the schedulers call the reload
functions in every slot; requests, restarts and the clock are not fair.
`SliceControl`: threads run on and time out when they must (`t.join(timeout_s)`);
no node has to answer; the gNB that is watched goes on logging the UEs it schedules,
which `pf_dl` and `pf_ul` do in every pass, and the watcher pushes its entries every
`HEARTBEAT_S`. `DlHarq`: slots follow each other, frames end, a process
that expects a report is reported on or given up at its time (the PUCCH occasion
passes), and neither retransmissions nor timing advance commands are refused for
ever, which rests on the proportional fair coefficient. `TaRecurs` assumes that
interruptions and failures end. `SceneControl` needs no fairness: `ToolsConclude`
is a distance that falls at every step of the server, whatever else happens; that
the server takes its steps is the time limit of `backend_call`. `UlSlots`: the clock runs, and a UE that waits for a
retransmission is not refused for ever in slots its grant fits into; that it
comes to such slots is what is checked.

Properties that are conditional say where the code gives no more.
`UeListConverges` says what `ue_list` ends up showing, not what it shows: two
requests may be recorded in the opposite order of their delivery, because the
registry is written after the lock is released, a late call may rebind a UE, and the
watcher may push an old binding; the next push of what the log says by then puts it
right. `LoneRequestPublishes` says nothing of a request that met another one or a
restart, only that the next one repairs what they left. `DownlinkConverges` leaves out
a loaded file that was replaced within its second by one of the same size
(`SameSecond`), which `rk_ue_dl_reload_if_needed` cannot tell apart.
`BytesMatchPending` and `CrcMatchesGrant` are checked without re-access,
after which `sched_ul_bytes` keeps what was reset and a CRC may be taken for a
later grant of the same process.

## 4. Disagreements between the code and its documentation

* `_write_ue_la_state_atomic` is not atomic: request threads share
  `ue_la.conf.tmp` outside the lock (`posture_torn`).
* "Check the resource is enough for retransmission" checks the end of the BWP
  only: with a reserved block behind the first free one, a retransmission is
  placed across it (`ul_pass_repeat`).

Observed while modelling, and part of the models, without a run of their own:

* `ric.clear_ul_posture`, "Clear only the UL subset", clears the downlink
  subset too (`PostureFile!ClearPosture`).
* `ric.set_mode`, "Applies policy + binds UE", answers ok when no node bound the
  UE (`SliceControl!Failed`); `ShownWasApplied` says for which
  command ok means more.
* `KEEPALIVE`, which exists so that arrays handed to SWIG are not collected,
  is overwritten while an abandoned call may still have to read the array
  (`SliceControl!Collect`).
* "Check that there are enough resources for retransmission" (downlink) does; but
  the blocks found are marked from the start only up to the size, so that they may
  be granted again (`DlPass!MarksRepeated`).
* The claim that is "exclusive" leaves the role of an agent that is not
  listed at that moment, and `set_scene` skips `set_mode` when the mode is active
  for any UE. `OneAgent` and `SceneOkMeansBound` leave out exactly these cases
  (`escaped`, `excuse`).
* A command's record in `UE_REGISTRY` does not last: the watcher's heartbeat writes
  what it has cached over it, so that `ue_list` may show an old binding again
  (`SliceControl!UpdateSchedulerRnti`), and a posture that was cleared, until the
  watcher has read what the gNB logs since.

## 5. Proofs

`UlHarqProofs` proves, for any finite set of processes, sizes and rounds, the
type invariant, `ProcessesPartitioned`, `WaitingMeansFeedback`,
`RoundsMatchLists` and the refinement of `HarqProcess`. They are one inductive
invariant: an id moves between lists without a duplicate only because it was on
no other list, a retransmission is taken off the right list only because its
round is above zero, and the PUSCH of a retransmission has a size only because a
process off the available list was granted once (`CarriersSized`, the conjunct
added to make it inductive). The refinement follows step by step: `FlushOne` and
`HandleCrc` are both a `Nack` or a `Finish` of the process at the head of the
feedback list.

The next theorems about `UlHarq` assume that the UE does not come back through
random access (`~MayReaccess`): `nr_rx_ra_sdu` resets the lists and leaves the
byte count and the PUSCHs on the air alone, so that reports of the old blocks meet
the new ones. Without it the PUSCHs on the air are those of processes on the
feedback list, in the order of that list (`ReportsInOrder`, with `NothingWaits`
where HARQ is disabled), and the report under way is of the oldest. A lost CRC only
removes one. Hence a flush stops at the process it looks for
(`UlHarqReportsFound`: the early return is never taken), what it flushes was lost,
and the CRC is taken for the grant it reports (`CrcMatchesGrant`); the NDI toggles
once per block. `BytesMatchPending` and `BytesCoverAir` follow from `BytesCounted`:
`sched_ul_bytes` is the sum of the sizes over `Counted`, the processes with a block
whose bytes were not yet subtracted, so every subtraction is of a term of the sum
and the clamp at zero never acts. `SumFunctionOnSet` is a fold; that adding or
removing an element changes it by one term is proved from a smallest subset on
which it would not, since induction over an operator is out of reach.

Four theorems hold with random access. `UlHarqNdiKept`: an indicator toggles only
in the step that makes its process available. `UlHarqHandlingEnds`: while a report
is handled, each step ends the handling or takes a process off the feedback list,
which has at most as many entries as there are processes. This is the measure
behind `HandlingEnds`, and it needs neither fairness nor a bound.
`UlHarqBlocksEnd` counts the moves a block can still make between the lists
(`MovesLeft`, at most `2 * RoundMax - 1`): a step leaves a block where it is or uses
one up, and a report handled or a retransmission granted always does. This is the
measure behind `BlocksConclude`. `UlHarqInTurn`: no block is overtaken on the
feedback list or on the list of retransmissions, whatever is lost.

`PostureProofs` proves, for any number of threads and UEs, the type invariant
and `NoInventedPosture`: every line of every file, snapshot and table is, for
each direction, the line some past registry had (`PastCovers`), which `Overlay`
preserves because it chooses between two lines and never mixes them; and the
file a reader or writer holds exists (`HeldFiles`). `LoneRequestPublishes` needs no
assumption either: while a request is the only one, its position determines what its
snapshot, the temporary and the published file hold, because the snapshot is of the
registry as it is, the temporary file is truncated whatever was left there, and the
name cannot be renamed away; a restart, or a request that begins meanwhile, ends the
claim (`alone`). `NoLapse` is proved for one request thread: up to a restart, which counts as
clearing every UE, and but for what was cleared, a table has no posture that the
file its reader has open lacks, that file none that the published one lacks, and
the published one none that the registry lacks (`OnlyAdded`); a reload only adds.
`PostureWhole` is what one thread keeps across restarts (`Whole`): a temporary file
that a restart left behind is truncated before it is written again, so the published
file is always one past registry, and the table a scheduler parses from it is too.
Two theorems are about the stamp a scheduler reloads by. `PostureUpToDate`, for any
number of threads and with restarts: a scheduler that finds the stamp unchanged
applies what the published file holds, also when the file was replaced between the
`stat()` and the `fopen()` of a reload (`Stamped`: no file gets the published name
back, and no two writes have one stamp). The exception is `Missed`, the downlink file
that was replaced within the same second by one of the same size.
`PostureSettled`, for any number of threads: when the last request met no other and no
restart, and nothing is left to reload, every UE has the posture the registry has for
it. This is
what `SchedulersConverge` says but that such a state is reached.

`UlPassProofs` proves every safety property of the `ul_pass` run, for any number
of UEs, blocks, DCIs, and any postures and policies. Each way to grant is shown
to satisfy `MaySignal`, and what `Signal` does then is proved once. UEs granted
or collected are behind the iterator (`Turns`), which gives one grant per UE.
`SharesOnlyUnmarked` says what the map of the pass is good for wherever the BWP
begins: new data never gets a block that was in use before, a retransmission never
begins on one, and both meet an earlier grant of the pass only in its last `bwpStart`
blocks, which the marking loop leaves out (`MaskCovers`: everything else is marked).
Where the BWP begins at block 0, which is an assumption of that theorem,
`NewGrantsFree` follows. `ExhaustedYield` rests on `Remembered`, which relates
the runtime table to the slots a UE was really granted as long as the table knows
it, and on `CoefTells`, by which a candidate of coefficient zero is a throttled
one (coefficients are positive).

`UlSlotsProofs` proves the type invariant, `GrantsInOrder`, `GrantsBetween` and that
`DevAssert(k2 > 0)` cannot fail, for every period, TDA configuration and number of
slots. It replaces differences around the wrap by distances ahead of the clock
(`Ahead`); what has to be shown is that `ul_next` stays less than half the slot
numbers ahead, where `fs_get_diff` would turn its sign (`NextNear`). A TDA leads at
most one slot behind its reach, the search for an uplink slot adds less than a
period, and only once: it does not leave an uplink slot. This is why `NextNear` is
stronger while `ul_next` is not an uplink slot. `NextLeft` is the other end:
`ul_next` moves in every slot before the clock can pass it. That an uplink slot is
found at all needs that the period divides the number of slots. `NoneSkipped` is the
part of `RetxServed` that needs no fairness: the loop leaves an uplink slot behind
only when it was offered to the UEs, or is too near for one to send in it. For this
the invariant also says that the candidate is the first uplink slot a TDA reaches
(`FirstUlNearest`).

`DlHarqProofs` proves the partition, the asserts, the rounds and the refinement
for the downlink, together with `HandOffSound`
and, for each step, `NdiTogglesPerBlock`. What is new in its invariant is the time
between the two stages of a slot: what `pf_dl` planned stays possible because the
lists do not move until it is sent. `DlHarqBlocksEnd` is the measure of the
uplink, for the downlink. `DlHarqTaKept` is the part of `TaRecurs` that needs no
fairness: the frames until the next timing advance command (`TaWait`) get one fewer
with every frame, across the wrap and for every period, and a command that is due
stays due until it is sent.

`DlPassProofs` proves every property of the `dl_pass` run, and `DciLimit` and
`OneGrantRetxFirst`, which no run checks. Both kinds of PDSCH end in `Planned`,
whose effect is proved once. The marking loop starts at the first block of the BWP
but still ends at the size of the PDSCH, so that elsewhere than at block 0 it leaves
out blocks of new PDSCHs too (`Marks`, `MarkEnd`). `SharesOnlyUnmarked` says so for
every BWP: a PDSCH whose blocks were searched for has none that was in use before the
slot, and shares with an earlier PDSCH only what the loop left out of that one.
Where the BWP begins at block 0, `OverlapOnlyUnmarked` follows.

`SliceProofs` proves the two safety properties of the `slice_broadcast` run for
any number of threads, nodes and UEs. `Locked` says that at most one broadcast is
under way and how far it is. For `NodesAgree`, `Agreeing` gives the associations
of the nodes the broadcast has reached, and those of the others, as one function
each; this needs no assumption, since full tables are full everywhere. For
`ShownWasApplied` (`CallsMatch`, `AckedApplied`) an acknowledgement is traced to a
call that a node carried out, and what the watcher reads is what the node it watches
carried out (`BoundApplied`). This one assumes that there are no more UEs than places
in an association table: a node with a full table acknowledges a binding it drops.
`SliceListSettles` is what `UeListConverges` rests on, and holds for each UE by itself,
however many requests are served for others: while no request and no call for it is
under way (`AtRest`), no step takes what is shown of it further away from what the
watched node applies (`Behind`), a line read in the log leaves at most the push to be
made, and that push then shows it. `SliceOneAwaited`: however
calls raise, hang or come back late, at most one is awaited, by the thread that holds
the lock, and the array of a message is freed under a call only when nobody waits
for it any more. `SliceRequestsEnd` is the measure behind `EveryRequestAnswered`: a
request has at most `2 * NumNodes + 5` steps left (`Left`), every step of its thread
uses some, no other step gives any back, and a thread waits only for a call that is
awaited or for a lock whose holder is broadcasting (`NobodyStuck`).

`SceneProofs` proves the four properties of the `scene_control` run for any number
of UEs and modes. `Exclusive`: while roles are cleared, the agents that nothing
excuses are among those still to be cleared. `SceneBound` and `LastMode`: from the
command that set the active mode follows what the gNB applies. `Kept`: the UE a
scene resolved stays the only agent and stays listed, so the second resolution has
nothing else to find. `ToolsConclude` is an arithmetic fact about each step, for
which `Weighed` shows that a resolution that is over outweighs all steps of the
next; with it, that a tool call ends needs no temporal argument.

Assumptions: those named above (a BWP that begins at block 0, for
`UlPassNewGrantsFree` and `DlPassOverlapOnlyUnmarked` only; room in the association
tables, for `SliceShownWasApplied`; no random access, in five theorems of
`UlHarqProofs`; one request thread, for `PostureNoLapse` and `PostureWhole`), and the `ASSUME`s of the components about their constants, which
TLC evaluates in every run of theirs. Every safety invariant and action property of a
passing run is stated by a theorem, and so is `TypeOK` of every component.

Only model-checked is liveness under fairness (`BlocksConclude`, `HandlingEnds`,
`TaRecurs`, `RetxServed`, `SchedulersConverge`, `EveryRequestAnswered`,
`UeListConverges`), since
`ENABLED` is beyond the provers. What these properties owe to the code rather than to
the scheduling is proved, as said above: a measure that every step of the work
decreases, or that nothing due is lost. What stays with TLC is that fairness makes
the steps happen. The two properties that are violated are not theorems;
`NeverWrittenInPlace` is one for a single thread (`PostureWhole`).

## 6. What is not modelled

The content of slice definitions (printed by the node, not applied); scheduling
with several beams; link adaptation, power control, DCI formats and MAC PDU decoding (computations without
protocol state); MAC control elements other than the timing advance command; `pick_rnti` for requests without an RNTI; the
competitor as a target of scenes; random access beyond the return of a known UE; JSON-RPC framing,
tool schemas and validation reports; FlexRIC, the PHY and OAI's list functions,
which appear only as the code uses them.

What `ue_list` shows of postures: the fields in `UE_REGISTRY` are written by
`touch_ue` and `_clear_ue_posture_snapshot` in the handlers, by
`update_scheduler_rnti` (`control_xapp.py` 1598-1640) with what the watcher cached of
the log of the gNB, by `prune_ues` (359-365) and by `reset_ues` (1546-1548).
`PostureFile` is about the registry of postures and the file, and no property of it
mentions `ue_list`.

Of the watcher: the parsing of a line, the fields other than the binding, the state
file it preloads, and what `docker logs --since` repeats after a restart of it or of
the log. A UE it has dropped after `UE_IDLE_TTL_S` is one it pushes no more until it
reads of it again. `dl_id` and `ul_id`, read from different lines, are one value, and a
push that is overtaken by a later one of the same UE on the way is left out.

## 7. Plan

1. Proofs: what of the `UlHarq` theorems without random access keeps a form that
   holds with it. A lower bound of `sched_ul_bytes` does not: a CRC of an old block
   may subtract the size of a later grant.
2. The choice of an RNTI for requests without one (`pick_rnti`,
   `resolve_control_rnti`), in `SceneControl`.
