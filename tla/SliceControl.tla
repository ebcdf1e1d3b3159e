---------------------------- MODULE SliceControl ----------------------------
(***************************************************************************)
(* Slice control from the xApp to the gNBs: request threads of             *)
(* spark_ran_side/control_xapp.py send an E2 slice control message to      *)
(* every connected node under _CTRL_LOCK, waiting for each node at most    *)
(* CTRL_CALL_TIMEOUT_S, and record in UE_REGISTRY and STATE, after the     *)
(* lock is released, what they bound.  A node applies an association to    *)
(* g_rk_slice_assoc (ran_func_slice.c, rk_slice_policy.c).                 *)
(*                                                                         *)
(* A call to ric.control_slice_sm runs in a thread of its own which the    *)
(* handler abandons when it takes too long; it may still be served then.   *)
(* A binding is the slice ids of a profile, and stands for the profile.    *)
(*                                                                         *)
(* The binding ue_list shows has other writers: gnb_rnti_watcher.py reads  *)
(* the log of one gNB and pushes what it read last of each UE, again and   *)
(* again, and entries are pruned and reset.  A push is one step; one that  *)
(* is still on its way is modelled as a log that is not read yet.          *)
(***************************************************************************)
EXTENDS Integers, FiniteSets

CONSTANTS
  Thread,       \* request threads of the xApp (serve_forever)
  NumNodes,     \* number of E2 nodes connected
  Rnti,         \* UE identifiers
  Bind,         \* bindings a request may ask for
  Cmds,         \* the commands that are requested
  Watched,      \* the node whose log gnb_rnti_watcher.py reads
  AssocMax,     \* RK_SLICE_ASSOC_MAX, the size of g_rk_slice_assoc
  MayTimeout,   \* whether a call may take longer than CTRL_CALL_TIMEOUT_S
  MayRaise,     \* whether a call may raise
  MaxRequests   \* bound on the requests

None == 0

\* the nodes, in the order conn_e2_nodes() lists them
Node == 1 .. NumNodes

\* ue_slice_assoc, set_profile and set_mode bind a UE; the add commands and
\* apply_profiles send slices, which the node only acknowledges
BindCmd == {"ue_slice_assoc", "set_profile", "set_mode"}
Cmd == BindCmd \cup {"add_slices"}

ASSUME SliceAssumption ==
  /\ Thread # {} /\ None \notin Thread /\ NumNodes \in Nat \ {0}
  /\ Rnti \subseteq Nat \ {None} /\ Bind \subseteq Nat \ {None}
  /\ Cmds \subseteq Cmd /\ Watched \in Node
  /\ AssocMax \in Nat /\ MaxRequests \in Nat
  /\ {MayTimeout, MayRaise} \subseteq BOOLEAN

VARIABLES
  pc,           \* where each request thread is
  req,          \* the request it serves
  turn,         \* the node it is to call next
  acked,        \* whether a node acknowledged its call
  lock,         \* who holds _CTRL_LOCK
  calls,        \* the calls to ric.control_slice_sm that still run
  keepalive,    \* KEEPALIVE: the request whose array it keeps, per key
  registry,     \* UE_REGISTRY: the binding and the profile shown for a UE
  activeMode,   \* STATE["active_mode"]
  heard,        \* active_ues of the watcher: the binding it read last of a UE
  assoc,        \* g_rk_slice_assoc of each node
  requests,     \* number of requests so far
  applied,      \* history: the associations a node carried out
  reply,        \* history: the last answer given
  faults        \* history: whether a call raised or timed out

server == <<req, acked, keepalive, requests>>
shown == <<registry, activeMode>>
vars == <<pc, server, turn, lock, calls, shown, heard, assoc, applied, reply, faults>>

Slot == Bind \cup {None}
Ue == Rnti \cup {None}
Request == [id : 1 .. MaxRequests, cmd : Cmd, rnti : Ue, bind : Slot]
Idle == [id |-> None]
Stage == {"started", "dangling", "sent", "applied"}
Call == [id : 1 .. MaxRequests, node : Node, cmd : Cmd, rnti : Ue, bind : Slot,
         stage : Stage, awaited : BOOLEAN]
Reply == [cmd : Cmd, rnti : Ue, bind : Slot, ok : BOOLEAN]
NoReply == [ok |-> FALSE]

TypeOK ==
  /\ pc \in [Thread -> {"idle", "lock", "send", "wait", "touch", "profile", "state"}]
  /\ req \in [Thread -> Request \cup {Idle}]
  /\ turn \in [Thread -> 1 .. NumNodes + 1]
  /\ acked \in [Thread -> BOOLEAN]
  /\ lock \in Thread \cup {None}
  /\ calls \subseteq Call
  /\ keepalive \in [{"assoc", "slices"} -> 0 .. MaxRequests]
  /\ registry \in [Rnti -> [bind : Slot, profile : Slot]]
  /\ activeMode \in Slot
  /\ assoc \in [Node -> [Rnti -> Slot]]
  /\ requests \in 0 .. MaxRequests
  /\ applied \subseteq Node \X Rnti \X Bind
  /\ reply \in Reply \cup {NoReply}
  /\ heard \in [Rnti -> Slot]
  /\ faults \in BOOLEAN

Init ==
  /\ pc = [t \in Thread |-> "idle"]
  /\ req = [t \in Thread |-> Idle]
  /\ turn = [t \in Thread |-> 1]
  /\ acked = [t \in Thread |-> FALSE]
  /\ lock = None
  /\ calls = {}
  /\ keepalive = [k \in {"assoc", "slices"} |-> None]
  /\ registry = [r \in Rnti |-> [bind |-> None, profile |-> None]]
  /\ activeMode = None
  /\ assoc = [n \in Node |-> [r \in Rnti |-> None]]
  /\ requests = 0
  /\ applied = {}
  /\ reply = NoReply
  /\ heard = [r \in Rnti |-> None]
  /\ faults = FALSE

-----------------------------------------------------------------------------
(* Request threads of the xApp                                             *)

Key(cmd) == IF cmd \in BindCmd THEN "assoc" ELSE "slices"

\* A request is answered; a thread that is idle serves nobody.
Answer(t, ok) ==
  /\ reply' = [cmd |-> req[t].cmd, rnti |-> req[t].rnti, bind |-> req[t].bind, ok |-> ok]
  /\ req' = [req EXCEPT ![t] = Idle]
  /\ acked' = [acked EXCEPT ![t] = FALSE]
  /\ pc' = [pc EXCEPT ![t] = "idle"]

\* The handler fills in the array of the message, which KEEPALIVE keeps in
\* place of that of the request before, and then waits for the lock.
Begin(t, cmd, r, b) ==
  /\ pc[t] = "idle"
  /\ requests < MaxRequests
  /\ requests' = requests + 1
  /\ req' = [req EXCEPT ![t] = [id |-> requests', cmd |-> cmd, rnti |-> r, bind |-> b]]
  /\ keepalive' = [keepalive EXCEPT ![Key(cmd)] = requests']
  /\ pc' = [pc EXCEPT ![t] = "lock"]
  /\ UNCHANGED <<acked, turn, lock, calls, shown, heard, assoc, applied, reply, faults>>

\* Mutation: the lock is not waited for.
AcquireAnyway(t) ==
  /\ pc[t] = "lock"
  /\ lock' = t
  /\ pc' = [pc EXCEPT ![t] = "send"]
  /\ UNCHANGED <<server, turn, calls, shown, heard, assoc, applied, reply, faults>>

\* control_slice_sm_safe: one broadcast at a time
Acquire(t) ==
  /\ pc[t] = "lock"
  /\ lock = None
  /\ lock' = t
  /\ pc' = [pc EXCEPT ![t] = "send"]
  /\ UNCHANGED <<server, turn, calls, shown, heard, assoc, applied, reply, faults>>

\* control_slice_sm_timed starts the call to the next node
Send(t) ==
  /\ pc[t] = "send"
  /\ turn[t] \in Node
  /\ calls' = calls \cup
       {[id |-> req[t].id, node |-> turn[t], cmd |-> req[t].cmd, rnti |-> req[t].rnti,
         bind |-> req[t].bind, stage |-> "started", awaited |-> TRUE]}
  /\ turn' = [turn EXCEPT ![t] = @ + 1]
  /\ pc' = [pc EXCEPT ![t] = "wait"]
  /\ UNCHANGED <<server, lock, shown, heard, assoc, applied, reply, faults>>

\* the call t waits for
Awaits(t, c) == pc[t] = "wait" /\ c.id = req[t].id /\ c.awaited

\* the thread is done with this node
Proceed(t, ack) ==
  /\ acked' = [acked EXCEPT ![t] = @ \/ ack]
  /\ pc' = [pc EXCEPT ![t] = "send"]
  /\ UNCHANGED <<req, keepalive, requests, turn, lock, shown, heard, assoc, applied, reply>>

\* the node acknowledged in time
Return(t) ==
  \E c \in calls :
    /\ Awaits(t, c) /\ c.stage = "applied"
    /\ calls' = calls \ {c}
    /\ Proceed(t, TRUE)
    /\ UNCHANGED faults

\* the call raised; a message sent may arrive all the same
Raise(t) ==
  \E c \in calls :
    /\ MayRaise /\ Awaits(t, c)
    /\ \/ calls' = calls \ {c}
       \/ c.stage = "sent" /\ calls' = (calls \ {c}) \cup {[c EXCEPT !.awaited = FALSE]}
    /\ Proceed(t, FALSE)
    /\ faults' = TRUE

\* Mutation: a timeout counts as an acknowledgement.
TimeOutAcked(t) ==
  \E c \in calls :
    /\ MayTimeout /\ Awaits(t, c)
    /\ calls' = (calls \ {c}) \cup
         IF c.stage = "applied" THEN {} ELSE {[c EXCEPT !.awaited = FALSE]}
    /\ Proceed(t, TRUE)
    /\ faults' = TRUE

\* the call takes longer than CTRL_CALL_TIMEOUT_S: it goes on by itself
TimeOut(t) ==
  \E c \in calls :
    /\ MayTimeout /\ Awaits(t, c)
    /\ calls' = (calls \ {c}) \cup
         IF c.stage = "applied" THEN {} ELSE {[c EXCEPT !.awaited = FALSE]}
    /\ Proceed(t, FALSE)
    /\ faults' = TRUE

\* Mutation: the error path keeps the lock.
FailedKeepsLock(t) ==
  /\ pc[t] = "send" /\ turn[t] \notin Node /\ ~acked[t]
  /\ Answer(t, req[t].cmd \in {"set_profile", "set_mode"})
  /\ turn' = [turn EXCEPT ![t] = 1]
  /\ UNCHANGED <<keepalive, requests, lock, calls, shown, heard, assoc, applied, faults>>

\* Every node was called: the lock is released.  With no acknowledgement the
\* binding failed; set_profile and set_mode answer ok all the same.
Failed(t) ==
  /\ pc[t] = "send" /\ turn[t] \notin Node /\ ~acked[t]
  /\ lock' = None /\ turn' = [turn EXCEPT ![t] = 1]
  /\ Answer(t, req[t].cmd \in {"set_profile", "set_mode"})
  /\ UNCHANGED <<keepalive, requests, calls, shown, heard, assoc, applied, faults>>

\* With one the handler goes on to the registry, if it binds a UE.
Bound(t) ==
  /\ pc[t] = "send" /\ turn[t] \notin Node /\ acked[t]
  /\ lock' = None /\ turn' = [turn EXCEPT ![t] = 1]
  /\ \/ /\ req[t].cmd \in BindCmd
        /\ pc' = [pc EXCEPT ![t] = "touch"]
        /\ UNCHANGED <<req, acked, reply>>
     \/ req[t].cmd \notin BindCmd /\ Answer(t, TRUE)
  /\ UNCHANGED <<keepalive, requests, calls, shown, heard, assoc, applied, faults>>

\* do_ue_slice_assoc records the binding, without the lock
Touch(t) ==
  /\ pc[t] = "touch"
  /\ registry' = [registry EXCEPT ![req[t].rnti].bind = req[t].bind]
  /\ \/ req[t].cmd = "ue_slice_assoc" /\ Answer(t, TRUE)
     \/ /\ req[t].cmd # "ue_slice_assoc"
        /\ pc' = [pc EXCEPT ![t] = "profile"]
        /\ UNCHANGED <<req, acked, reply>>
  /\ UNCHANGED <<keepalive, requests, turn, lock, calls, activeMode, heard, assoc, applied, faults>>

\* do_set_profile and do_set_mode record it again, with the profile
TouchProfile(t) ==
  /\ pc[t] = "profile"
  /\ registry' = [registry EXCEPT ![req[t].rnti] =
                    [bind |-> req[t].bind, profile |-> req[t].bind]]
  /\ \/ req[t].cmd = "set_profile" /\ Answer(t, TRUE)
     \/ /\ req[t].cmd = "set_mode"
        /\ pc' = [pc EXCEPT ![t] = "state"]
        /\ UNCHANGED <<req, acked, reply>>
  /\ UNCHANGED <<keepalive, requests, turn, lock, calls, activeMode, heard, assoc, applied, faults>>

\* do_set_mode then makes it the active mode
SetActiveMode(t) ==
  /\ pc[t] = "state"
  /\ activeMode' = req[t].bind
  /\ Answer(t, TRUE)
  /\ UNCHANGED <<keepalive, requests, turn, lock, calls, registry, heard, assoc, applied, faults>>

Handle(t) ==
  \/ Send(t) \/ Return(t) \/ Raise(t) \/ TimeOut(t)
  \/ Failed(t) \/ Bound(t)
  \/ Touch(t) \/ TouchProfile(t) \/ SetActiveMode(t)

-----------------------------------------------------------------------------
(* Calls and nodes                                                         *)

InCalls(c, d) ==
  /\ calls' = (calls \ {c}) \cup d
  /\ UNCHANGED <<pc, server, turn, lock, shown, heard, reply, faults>>

\* the call reads the array of the message and sends it
Encode(c) ==
  /\ c.stage = "started"
  /\ InCalls(c, {[c EXCEPT !.stage = "sent"]})
  /\ UNCHANGED <<assoc, applied>>

\* once KEEPALIVE holds another array and the handler has returned, the
\* array may be freed under a call that has not read it
Collect(c) ==
  /\ c.stage = "started"
  /\ keepalive[Key(c.cmd)] # c.id
  /\ \A t \in Thread : req[t].id # c.id
  /\ InCalls(c, {[c EXCEPT !.stage = "dangling"]})
  /\ UNCHANGED <<assoc, applied>>

\* the call reads whatever is there now
EncodeFreed(c) ==
  /\ c.stage = "dangling"
  /\ IF c.cmd \in BindCmd
       THEN \E r \in Rnti, b \in Bind :
              InCalls(c, {[c EXCEPT !.stage = "sent", !.rnti = r, !.bind = b]})
       ELSE InCalls(c, {[c EXCEPT !.stage = "sent"]})
  /\ UNCHANGED <<assoc, applied>>

Full(n) == Cardinality({r \in Rnti : assoc[n][r] # None}) >= AssocMax

\* write_ctrl_slice_sm: rk_slice_assoc_update_by_rnti drops the association
\* of a further UE when the table is full; the node acknowledges anyway
Deliver(c) ==
  /\ c.stage = "sent"
  /\ InCalls(c, IF c.awaited THEN {[c EXCEPT !.stage = "applied"]} ELSE {})
  /\ IF c.cmd \in BindCmd /\ (assoc[c.node][c.rnti] # None \/ ~Full(c.node))
       THEN /\ assoc' = [assoc EXCEPT ![c.node][c.rnti] = c.bind]
            /\ applied' = applied \cup {<<c.node, c.rnti, c.bind>>}
       ELSE UNCHANGED <<assoc, applied>>

\* a call nobody waits for may end without effect
Lose(c) ==
  /\ MayRaise /\ ~c.awaited
  /\ InCalls(c, {})
  /\ UNCHANGED <<assoc, applied>>

CallStep(c) == Encode(c) \/ Collect(c) \/ EncodeFreed(c) \/ Deliver(c) \/ Lose(c)

-----------------------------------------------------------------------------
(* The other writers of UE_REGISTRY                                        *)

\* The gNB logs the binding it applies in every pass it considers the UE in,
\* and when it carries out an association, with slice 0, None, where there is
\* none; the watcher reads it and caches it.
Hear(r) ==
  /\ heard' = [heard EXCEPT ![r] = assoc[Watched][r]]
  /\ UNCHANGED <<pc, server, turn, lock, calls, shown, assoc, applied, reply, faults>>

\* Mutation: what is pushed of a UE already shown is left out.
UpdateOnce(r) ==
  /\ registry' = [registry EXCEPT ![r].bind = IF @ = None THEN heard[r] ELSE @]
  /\ UNCHANGED <<pc, server, turn, lock, calls, activeMode, heard, assoc, applied, reply, faults>>

\* The watcher pushes what it has in its cache, at an event or as a heartbeat,
\* and so perhaps what the log said before the binding recorded last;
\* update_scheduler_rnti writes it over whatever is there.
UpdateSchedulerRnti(r) ==
  /\ registry' = [registry EXCEPT ![r].bind = heard[r]]
  /\ UNCHANGED <<pc, server, turn, lock, calls, activeMode, heard, assoc, applied, reply, faults>>

Forget(S) ==
  /\ registry' = [r \in Rnti |->
                    IF r \in S THEN [bind |-> None, profile |-> None] ELSE registry[r]]
  /\ UNCHANGED <<pc, server, turn, lock, calls, activeMode, heard, assoc, applied, reply, faults>>

\* list_ues drops the entries not refreshed for UE_TTL_S, which may be any
PruneUes == \E S \in SUBSET Rnti : Forget(S)

\* reset_ues drops all
ResetUes == Forget(Rnti)

Watch ==
  \/ \E r \in Rnti : Hear(r) \/ UpdateSchedulerRnti(r)
  \/ PruneUes \/ ResetUes

Next ==
  \/ \E t \in Thread :
       \/ \E cmd \in Cmds \cap BindCmd, r \in Rnti, b \in Bind : Begin(t, cmd, r, b)
       \/ \E cmd \in Cmds \ BindCmd : Begin(t, cmd, None, None)
       \/ Acquire(t)
       \/ Handle(t)
  \/ \E c \in calls : CallStep(c)
  \/ Watch

Spec == Init /\ [][Next]_vars

\* Threads run and time out when they must; nothing makes a node answer.  The
\* gNB that is watched keeps scheduling the UEs, and logs them; the watcher has a
\* heartbeat.
FairSpec ==
  /\ Spec
  /\ \A t \in Thread : WF_vars(Acquire(t)) /\ WF_vars(Handle(t))
  /\ \A r \in Rnti : WF_vars(Hear(r)) /\ WF_vars(UpdateSchedulerRnti(r))

-----------------------------------------------------------------------------
(* Properties                                                              *)

\* No request under way and no abandoned call.
Quiet == calls = {} /\ \A t \in Thread : pc[t] = "idle"

\* While nothing fails, concurrent broadcasts leave all nodes with the same
\* associations: none overtakes another at one node only.
NodesAgree == Quiet /\ ~faults => \A m, n \in Node : assoc[m] = assoc[n]

\* Whatever calls fail or come late, whatever is recorded or reported out of
\* order and however often entries are dropped: with no more requests ue_list ends
\* up showing for each UE what the watched gNB applies, or nothing for a while.
UeListConverges ==
  \A r \in Rnti :
    /\ <>[](registry[r].bind \in {None, assoc[Watched][r]})
    /\ []<>(registry[r].bind = assoc[Watched][r])

\* Whatever calls fail, hang, arrive late or read a freed array, ue_list, the
\* active mode and a ue_slice_assoc that is answered ok stand only for bindings
\* that some node did carry out; set_profile and set_mode may answer ok without.
ShownWasApplied ==
  /\ \A r \in Rnti : registry[r].bind # None =>
       \E n \in Node : <<n, r, registry[r].bind>> \in applied
  /\ activeMode # None =>
       \E n \in Node, r \in Rnti : <<n, r, activeMode>> \in applied
  /\ reply.ok /\ reply.cmd = "ue_slice_assoc" =>
       \E n \in Node : <<n, reply.rnti, reply.bind>> \in applied

\* A node that never answers blocks nobody for ever: every request is answered
\* and every thread gets the lock.
EveryRequestAnswered == \A t \in Thread : []<>(pc[t] = "idle")
=============================================================================
