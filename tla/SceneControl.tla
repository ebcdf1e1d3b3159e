---------------------------- MODULE SceneControl ----------------------------
(***************************************************************************)
(* An MCP server (jetson_user_side/server.py) serves one tool call at a    *)
(* time, each a sequence of requests to the xApp.  ric.claim_agent finds   *)
(* the UE that carries a burst of traffic and tags it agent, after it took *)
(* the roles of all others away; ric.set_scene resolves the agent (with a  *)
(* claim if there is none), sets the mode of the scene unless it is active *)
(* and then a posture.  Between the requests, entries of UE_REGISTRY       *)
(* (control_xapp.py) age or come back by the heartbeats of                 *)
(* gnb_rnti_watcher.py, and other clients bind and tag.                    *)
(*                                                                         *)
(* Time is a choice: an entry may age at any moment.  How the xApp binds a *)
(* UE in several steps is in SliceControl, what a posture does in          *)
(* PostureFile.                                                            *)
(***************************************************************************)
EXTENDS Integers, FiniteSets

CONSTANTS
  Rnti,      \* UE identifiers
  Mode,      \* profiles of scenes
  None,
  MaxCalls,  \* bound on the tool calls
  MaxUpsets  \* bound on the requests of other clients and those that fail

ASSUME SceneAssumption ==
  /\ IsFiniteSet(Rnti) /\ None \notin Rnti
  /\ None \notin Mode
  /\ {MaxCalls, MaxUpsets} \subseteq Nat

VARIABLES
  seen,       \* last_seen of a registry entry: "active" within 15 s, "stale"
              \* within UE_TTL_S, "expired" beyond, "never" without an entry
  watched,    \* entries with source_family gnb_rnti_watcher
  role,       \* role of an entry, "unknown" without one
  assoc,      \* the binding of a UE at the gNB
  activeMode, \* STATE["active_mode"]
  lastCtrl,   \* STATE["last_ctrl"], of the commands that bind
  late,       \* set_mode requests still at work after backend_call gave up
  pc,         \* where the tool call is
  goal,       \* what it resolves a UE for: "claim" (none), "state", "bind" or "posture"
  chosen,     \* mode of the scene
  claimed,    \* whether this resolution has claimed
  list,       \* UEs of the last ue_list of a claim
  todo,       \* those whose role is still to be taken
  winner,     \* the UE that is claimed
  target,     \* the UE resolved last
  sceneUe,    \* the UE the mode of the scene is set for, or found to be set for
  ok,         \* the answer so far
  calls, upsets,  \* counted up to their bounds
  escaped,    \* history: agents a claim or another client left beside the last one
  excuse,     \* history: why an ok may not mean that the UE is bound
  churn       \* history: why a scene may address two UEs

registry == <<seen, watched, role>>
ran == <<assoc, activeMode, lastCtrl, late>>
claim == <<list, todo, winner>>
scene == <<goal, chosen, claimed, target, sceneUe, ok>>
bounds == <<calls, upsets>>
history == <<escaped, excuse, churn>>
vars == <<registry, ran, pc, claim, scene, bounds, history>>

Role == {"agent", "competitor", "unknown"}
Ue == Rnti \cup {None}
Ctrl == [cmd : {"set_mode", "set_profile"}, ue : Rnti, mode : Mode]
NoCtrl == [cmd |-> "none"]
Slot == Mode \cup {None}

TypeOK ==
  /\ seen \in [Rnti -> {"never", "active", "stale", "expired"}]
  /\ watched \subseteq Rnti
  /\ role \in [Rnti -> Role]
  /\ assoc \in [Rnti -> Slot]
  /\ activeMode \in Slot
  /\ lastCtrl \in Ctrl \cup {NoCtrl}
  /\ late \subseteq Rnti \X Mode
  /\ pc \in {"idle", "resolve", "before", "after", "clear", "rival", "final",
             "state", "bind", "posture", "done"}
  /\ goal \in {"claim", "state", "bind", "posture"}
  /\ chosen \in Slot
  /\ claimed \in BOOLEAN
  /\ list \subseteq Rnti /\ todo \subseteq list
  /\ {winner, target, sceneUe} \subseteq Ue
  /\ ok \in BOOLEAN
  /\ calls \in 0 .. MaxCalls /\ upsets \in 0 .. MaxUpsets
  /\ escaped \subseteq Rnti
  /\ excuse \in BOOLEAN /\ churn \in BOOLEAN
  /\ \A r \in Rnti : seen[r] = "never" => r \notin watched /\ role[r] = "unknown"

Init ==
  /\ seen = [r \in Rnti |-> "never"] /\ watched = {} /\ role = [r \in Rnti |-> "unknown"]
  /\ assoc = [r \in Rnti |-> None] /\ activeMode = None /\ lastCtrl = NoCtrl /\ late = {}
  /\ pc = "idle" /\ goal = "claim" /\ chosen = None /\ claimed = FALSE
  /\ list = {} /\ todo = {} /\ winner = None
  /\ target = None /\ sceneUe = None /\ ok = TRUE
  /\ calls = 0 /\ upsets = 0
  /\ escaped = {} /\ excuse = FALSE /\ churn = FALSE

-----------------------------------------------------------------------------
(* UE_REGISTRY                                                             *)

\* list_ues(active_only, src = "gnb_rnti_watcher")
Listed == {r \in watched : seen[r] = "active"}

Agents == {r \in Rnti : role[r] = "agent"}

Expired == {r \in Rnti : seen[r] = "expired"}

\* prune_ues, at the beginning of every list_ues
Prune ==
  /\ seen' = [r \in Rnti |-> IF r \in Expired THEN "never" ELSE seen[r]]
  /\ watched' = watched \ Expired
  /\ role' = [r \in Rnti |-> IF r \in Expired THEN "unknown" ELSE role[r]]

\* tag_ue: touch_ue makes an entry or refreshes it, then the list is answered
TagUe(u, as) ==
  /\ seen' = [r \in Rnti |-> IF r = u THEN "active" ELSE IF r \in Expired THEN "never" ELSE seen[r]]
  /\ watched' = watched \ (Expired \ {u})
  /\ role' = [r \in Rnti |-> IF r = u THEN as ELSE IF r \in Expired THEN "unknown" ELSE role[r]]

\* touch_ue of a command that binds u
TouchUe(u) ==
  /\ seen' = [seen EXCEPT ![u] = "active"]
  /\ UNCHANGED <<watched, role>>

\* do_set_mode or do_set_profile, with an acknowledgement of the gNB
Bind(cmd, u, mode) ==
  /\ assoc' = [assoc EXCEPT ![u] = mode]
  /\ lastCtrl' = [cmd |-> cmd, ue |-> u, mode |-> mode]
  /\ activeMode' = IF cmd = "set_mode" THEN mode ELSE activeMode
  /\ TouchUe(u)

-----------------------------------------------------------------------------
(* The world around a tool call                                            *)

\* update_scheduler_rnti of the watcher
Heartbeat(r) ==
  /\ seen' = [seen EXCEPT ![r] = "active"]
  /\ watched' = watched \cup {r}
  /\ UNCHANGED <<role, ran, pc, claim, scene, bounds, history>>

\* nothing is heard of r for 15 s, then for UE_TTL_S
Age(r) ==
  /\ \/ seen[r] = "active" /\ seen' = [seen EXCEPT ![r] = "stale"]
     \/ seen[r] = "stale" /\ seen' = [seen EXCEPT ![r] = "expired"]
  /\ churn' = (churn \/ r = sceneUe)
  /\ UNCHANGED <<watched, role, ran, pc, claim, scene, bounds, escaped, excuse>>

\* a request of another client, or one that fails
Upset == upsets < MaxUpsets /\ upsets' = upsets + 1

Other == Upset /\ UNCHANGED <<pc, claim, scene, calls>>

\* another client binds a UE
OtherBind(cmd, r, mode) ==
  /\ Other
  /\ Bind(cmd, r, mode)
  /\ excuse' = TRUE
  /\ UNCHANGED <<late, escaped, churn>>

\* another client tags a UE
OtherTag(r, as) ==
  /\ Other
  /\ TagUe(r, as)
  /\ escaped' = IF as = "agent" THEN escaped \cup {r} ELSE escaped \ {r}
  /\ churn' = TRUE
  /\ UNCHANGED <<ran, excuse>>

\* a request that took longer than BACKEND_TIMEOUT_S is carried out after all
LateBind ==
  \E call \in late :
    /\ Bind("set_mode", call[1], call[2])
    /\ late' = late \ {call}
    /\ excuse' = TRUE
    /\ UNCHANGED <<pc, claim, scene, bounds, escaped, churn>>

-----------------------------------------------------------------------------
(* _claim_agent                                                            *)

\* The call goes on behind a resolution, or behind the claim that it needed.
ResolvedNone ==
  /\ target' = None
  /\ ok' = (ok /\ goal = "state")
  /\ IF goal = "bind"
       THEN pc' = "resolve" /\ goal' = "posture" /\ claimed' = FALSE
       ELSE pc' = (IF goal = "state" THEN "state" ELSE "done") /\ UNCHANGED <<goal, claimed>>
  /\ UNCHANGED <<chosen, sceneUe>>

\* A ue_list of the call fails. The entries may have been pruned all the same.
ListFails ==
  /\ Upset /\ UNCHANGED calls
  /\ Prune \/ UNCHANGED registry

\* nobody is listed before the burst, or after it of those listed before; or
\* one of the two lists fails, or no address for the burst is found
ClaimFails ==
  /\ \/ pc = "before" /\ Listed = {} /\ Prune /\ UNCHANGED bounds
     \/ pc = "after" /\ list \cap Listed = {} /\ Prune /\ UNCHANGED bounds
     \/ pc \in {"before", "after"} /\ ListFails
  /\ ResolvedNone
  /\ UNCHANGED <<ran, claim, history>>

Before ==
  /\ pc = "before"
  /\ Listed # {}
  /\ Prune
  /\ list' = Listed /\ todo' = {}
  /\ pc' = "after"
  /\ UNCHANGED <<ran, winner, scene, bounds, history>>

\* The burst is over and the events are counted: the winner is a UE that was
\* listed before.
After ==
  /\ pc = "after"
  /\ winner' \in list \cap Listed
  /\ Prune
  /\ list' = Listed /\ todo' = Listed
  /\ pc' = "clear"
  /\ escaped' = escaped \cup (Agents \ Listed)
  /\ UNCHANGED <<ran, scene, bounds, excuse, churn>>

\* _clear_roles takes the role of a UE
ClearRole(r) ==
  /\ pc = "clear" /\ r \in todo
  /\ TagUe(r, "unknown")
  /\ todo' = todo \ {r}
  /\ escaped' = escaped \ {r}
  /\ UNCHANGED <<ran, pc, list, winner, scene, bounds, excuse, churn>>

\* the answers of tag_ue are not looked at
ClearRoleFails(r) ==
  /\ pc = "clear" /\ r \in todo
  /\ Upset
  /\ todo' = todo \ {r}
  /\ escaped' = escaped \cup ({r} \cap Agents)
  /\ UNCHANGED <<registry, ran, pc, list, winner, scene, calls, excuse, churn>>

\* Mutation: the winner is tagged before the others are cleared.
CrownEarly ==
  /\ pc = "clear"
  /\ TagUe(winner, "agent")
  /\ escaped' = escaped \ {winner}
  /\ pc' = "rival"
  /\ UNCHANGED <<ran, claim, scene, bounds, excuse, churn>>

Crown ==
  /\ pc = "clear" /\ todo = {}
  /\ TagUe(winner, "agent")
  /\ escaped' = escaped \ {winner}
  /\ pc' = "rival"
  /\ UNCHANGED <<ran, claim, scene, bounds, excuse, churn>>

CrownFails ==
  /\ pc = "clear" /\ todo = {}
  /\ Upset
  /\ pc' = "rival"
  /\ UNCHANGED <<registry, ran, claim, scene, calls, history>>

\* of two UEs listed the other one is the competitor
Rival ==
  /\ pc = "rival"
  /\ pc' = "final"
  /\ IF Cardinality(list) = 2
       THEN \E r \in list \ {winner} : TagUe(r, "competitor") /\ escaped' = escaped \ {r}
       ELSE UNCHANGED <<registry, escaped>>
  /\ UNCHANGED <<ran, claim, scene, bounds, excuse, churn>>

\* the list is read again
ClaimEnds ==
  /\ pc = "final"
  /\ Prune
  /\ pc' = IF goal = "claim" THEN "done" ELSE "resolve"
  /\ list' = {} /\ winner' = None
  /\ UNCHANGED <<ran, todo, scene, bounds, history>>

-----------------------------------------------------------------------------
(* _resolve_target_rnti("agent")                                           *)

\* Mutation: the role is not looked at.
FoundAny ==
  /\ pc = "resolve"
  /\ target' \in Listed
  /\ Prune
  /\ pc' = goal
  /\ sceneUe' = IF goal = "posture" THEN sceneUe ELSE target'
  /\ churn' = IF goal = "posture" THEN churn ELSE escaped # {}
  /\ claimed' = FALSE
  /\ UNCHANGED <<ran, claim, goal, chosen, ok, bounds, escaped, excuse>>

\* the UE is the scene's until set_mode resolves again
Found ==
  /\ pc = "resolve"
  /\ target' \in Listed \cap Agents
  /\ Prune
  /\ pc' = goal
  /\ sceneUe' = IF goal = "posture" THEN sceneUe ELSE target'
  /\ churn' = IF goal = "posture" THEN churn ELSE escaped # {}
  /\ claimed' = FALSE
  /\ UNCHANGED <<ran, claim, goal, chosen, ok, bounds, escaped, excuse>>

\* Mutation: a claim is made for as long as there is no agent.
ClaimFirstForEver ==
  /\ pc = "resolve" /\ Listed \cap Agents = {}
  /\ Prune
  /\ pc' = "before"
  /\ UNCHANGED <<ran, claim, scene, bounds, history>>

\* no agent is listed: claim one, once
ClaimFirst ==
  /\ pc = "resolve" /\ Listed \cap Agents = {} /\ ~claimed
  /\ Prune
  /\ claimed' = TRUE
  /\ pc' = "before"
  /\ UNCHANGED <<ran, claim, goal, chosen, target, sceneUe, ok, bounds, history>>

\* nobody is the agent even after a claim, or the list fails
NotFound ==
  /\ pc = "resolve"
  /\ \/ Listed \cap Agents = {} /\ claimed /\ Prune /\ UNCHANGED bounds
     \/ ListFails
  /\ ResolvedNone
  /\ UNCHANGED <<ran, claim, history>>

-----------------------------------------------------------------------------
(* Tools                                                                   *)

Start ==
  /\ pc = "idle"
  /\ calls < MaxCalls
  /\ calls' = calls + 1
  /\ target' = None /\ sceneUe' = None /\ ok' = TRUE
  /\ excuse' = FALSE /\ churn' = FALSE

\* ric.claim_agent
StartClaim ==
  /\ Start
  /\ pc' = "before" /\ goal' = "claim" /\ claimed' = TRUE
  /\ UNCHANGED <<registry, ran, claim, chosen, upsets, escaped>>

\* ric.set_scene
StartScene(mode) ==
  /\ Start
  /\ chosen' = mode
  /\ pc' = "resolve" /\ goal' = "state" /\ claimed' = FALSE
  /\ UNCHANGED <<registry, ran, claim, upsets, escaped>>

\* get_state: set_mode is skipped when the mode is active, for whichever UE
GetState ==
  /\ pc = "state"
  /\ goal' = IF activeMode = chosen THEN "posture" ELSE "bind"
  /\ excuse' = IF activeMode # chosen THEN FALSE
               ELSE lastCtrl.cmd # "set_mode" \/ lastCtrl.ue # sceneUe
  /\ pc' = "resolve" /\ claimed' = FALSE /\ target' = None
  /\ UNCHANGED <<registry, ran, claim, chosen, sceneUe, ok, bounds, escaped, churn>>

\* the next step is the posture
ToPosture(answer) ==
  /\ pc = "bind"
  /\ ok' = (ok /\ answer)
  /\ goal' = "posture" /\ pc' = "resolve" /\ claimed' = FALSE /\ target' = None
  /\ UNCHANGED <<claim, chosen, sceneUe, calls, escaped, churn>>

SetMode ==
  /\ ToPosture(TRUE)
  /\ Bind("set_mode", target, chosen)
  /\ UNCHANGED <<late, upsets, excuse>>

\* no node acknowledged, the xApp answers ok (SliceControl!Failed)
SetModeUnacked ==
  /\ ToPosture(TRUE)
  /\ Upset
  /\ excuse' = TRUE
  /\ UNCHANGED <<registry, ran>>

\* Mutation: a request that took too long counts as done.
SetModeTimesOutOk ==
  /\ ToPosture(TRUE)
  /\ Upset
  /\ late' = late \cup {<<target, chosen>>}
  /\ UNCHANGED <<registry, assoc, activeMode, lastCtrl, excuse>>

\* backend_call gives up; the xApp may still be waiting for _CTRL_LOCK
SetModeTimesOut ==
  /\ ToPosture(FALSE)
  /\ Upset
  /\ late' = late \cup {<<target, chosen>>}
  /\ UNCHANGED <<registry, assoc, activeMode, lastCtrl, excuse>>

SetPosture ==
  /\ pc = "posture"
  /\ pc' = "done"
  /\ TouchUe(target)
  /\ UNCHANGED <<ran, claim, scene, bounds, history>>

Reply ==
  /\ pc = "done"
  /\ pc' = "idle"
  /\ chosen' = None /\ goal' = "claim" /\ claimed' = FALSE /\ target' = None /\ sceneUe' = None
  /\ list' = {} /\ todo' = {} /\ winner' = None /\ ok' = TRUE
  /\ excuse' = FALSE /\ churn' = FALSE
  /\ UNCHANGED <<registry, ran, bounds, escaped>>

Claiming ==
  \/ ClaimFails \/ Before \/ After
  \/ \E r \in Rnti : ClearRole(r) \/ ClearRoleFails(r)
  \/ Crown \/ CrownFails \/ Rival \/ ClaimEnds

Tool ==
  \/ Claiming
  \/ Found \/ ClaimFirst \/ NotFound
  \/ GetState \/ SetMode \/ SetModeUnacked \/ SetModeTimesOut
  \/ SetPosture \/ Reply

World ==
  \/ \E r \in Rnti : Heartbeat(r) \/ Age(r)
  \/ \E r \in Rnti, mode \in Mode, cmd \in {"set_mode", "set_profile"} : OtherBind(cmd, r, mode)
  \/ \E r \in Rnti, as \in Role : OtherTag(r, as)
  \/ LateBind

Next ==
  \/ StartClaim
  \/ \E mode \in Mode : StartScene(mode)
  \/ Tool
  \/ World

Spec == Init /\ [][Next]_vars

-----------------------------------------------------------------------------
(***************************************************************************)
(* Properties                                                              *)
(***************************************************************************)

\* The roles are cleared before a claim "(排他式 claim 的关键)", the key of an
\* exclusive claim: however claims, ageing and heartbeats follow each other,
\* there is one agent at most, beside those that were not listed when the
\* roles were cleared, those whose clearing failed and those another client
\* tagged.
OneAgent == Cardinality(Agents \ escaped) =< 1

\* A scene that is answered ok leaves its UE bound to its mode, unless another
\* client or a late request bound it, no node acknowledged, or set_mode was
\* skipped because the mode is active for another UE.
SceneOkMeansBound ==
  pc = "done" /\ goal = "posture" /\ ok /\ ~excuse /\ sceneUe # None => assoc[sceneUe] = chosen

\* The mode and the posture of a scene, for each of which the agent is
\* resolved, reach the same UE, unless its entry aged in between, another
\* client changed roles or there was more than one agent.
SceneOneUe ==
  pc = "posture" /\ sceneUe # None /\ ~churn => target = sceneUe

\* How far a tool call is from its end: resolutions that are left, and steps
\* of the one that is going on.
Left == CASE goal = "state" -> 3 [] goal = "bind" -> 2 [] goal = "posture" -> 1 [] goal = "claim" -> 0

Steps ==
  LET all == Cardinality(Rnti)
  IN CASE pc = "resolve" -> IF claimed THEN 3 ELSE all + 9
       [] pc = "before" -> all + 8
       [] pc = "after" -> all + 7
       [] pc = "clear" -> Cardinality(todo) + 6
       [] pc = "rival" -> 5
       [] pc = "final" -> 4
       [] pc \in {"state", "bind", "posture"} -> 2
       [] pc = "done" -> 1
       [] pc = "idle" -> 0

Distance == Left * (Cardinality(Rnti) + 10) + Steps

\* A tool call ends, whatever happens around it: a resolution claims once and
\* a claim does not repeat, so every step of the server comes nearer to the
\* end.
ToolsConclude == [][Tool => Distance' \in Nat /\ Distance' < Distance]_vars
=============================================================================
