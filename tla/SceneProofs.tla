---------------------------- MODULE SceneProofs ----------------------------
(***************************************************************************)
(* Proofs about SceneControl: types, the exclusive claim, what the answer  *)
(* ok of a scene says, the one UE of a scene, and the end of a tool call.  *)
(***************************************************************************)
EXTENDS SceneControl, FiniteSetTheorems, TLAPS

-----------------------------------------------------------------------------
(* Types                                                                   *)

RegistryTyped ==
  /\ seen \in [Rnti -> {"never", "active", "stale", "expired"}]
  /\ watched \subseteq Rnti
  /\ role \in [Rnti -> Role]
  /\ \A r \in Rnti : seen[r] = "never" => r \notin watched /\ role[r] = "unknown"

RanTyped ==
  /\ assoc \in [Rnti -> Slot]
  /\ activeMode \in Slot
  /\ lastCtrl \in Ctrl \cup {NoCtrl}
  /\ late \subseteq Rnti \X Mode

ClaimTyped ==
  /\ list \subseteq Rnti /\ todo \subseteq list
  /\ winner \in Ue
  /\ pc \in {"rival", "final"} => todo = {}

CallTyped ==
  /\ pc \in {"idle", "resolve", "before", "after", "clear", "rival", "final",
             "state", "bind", "posture", "done"}
  /\ goal \in {"claim", "state", "bind", "posture"}
  /\ chosen \in Slot
  /\ claimed \in BOOLEAN
  /\ target \in Ue
  /\ pc \in {"before", "after", "clear", "rival", "final"} => claimed
  /\ pc \in {"state", "bind", "posture"} => goal = pc
  /\ pc = "resolve" => goal # "claim"
  /\ pc \in {"bind", "posture"} => target \in Rnti
  /\ pc # "idle" /\ goal # "claim" => chosen \in Mode

AnswerTyped ==
  /\ sceneUe \in Ue
  /\ ok \in BOOLEAN
  /\ calls \in 0 .. MaxCalls /\ upsets \in 0 .. MaxUpsets
  /\ escaped \subseteq Rnti
  /\ excuse \in BOOLEAN /\ churn \in BOOLEAN

TypeInv == RegistryTyped /\ RanTyped /\ ClaimTyped /\ CallTyped /\ AnswerTyped

LEMMA TypeInvTypes == ASSUME TypeInv PROVE TypeOK
  BY DEF TypeInv, TypeOK, RegistryTyped, RanTyped, ClaimTyped, CallTyped, AnswerTyped

\* What a step may do to the registry.
RegistryStep ==
  \/ UNCHANGED registry
  \/ Prune
  \/ \E u \in Ue, as \in Role : TagUe(u, as)
  \/ \E u \in Rnti : TouchUe(u)
  \/ \E r \in Rnti : Heartbeat(r) \/ Age(r)

LEMMA WorldRegistry ==
  ASSUME TypeInv, World
  PROVE  RegistryStep
<1>1. ASSUME NEW r \in Rnti, Heartbeat(r) \/ Age(r) PROVE RegistryStep
  BY <1>1 DEF RegistryStep
<1>2. ASSUME NEW r \in Rnti, NEW mode \in Mode, NEW cmd \in {"set_mode", "set_profile"},
             OtherBind(cmd, r, mode)
      PROVE  RegistryStep
  BY <1>2 DEF RegistryStep, OtherBind, Bind
<1>3. ASSUME NEW r \in Rnti, NEW as \in Role, OtherTag(r, as) PROVE RegistryStep
  BY <1>3 DEF RegistryStep, OtherTag, Ue
<1>4. ASSUME LateBind PROVE RegistryStep
  BY <1>4 DEF RegistryStep, LateBind, Bind, TypeInv, RanTyped
<1> QED
  BY <1>1, <1>2, <1>3, <1>4 DEF World

LEMMA ToolRegistry ==
  ASSUME TypeInv, Tool
  PROVE  RegistryStep
<1>1. ASSUME ClaimFails \/ Before \/ After \/ ClaimEnds \/ Found \/ ClaimFirst \/ NotFound
      PROVE  RegistryStep
  BY <1>1 DEF RegistryStep, ClaimFails, Before, After, ClaimEnds, Found, ClaimFirst, NotFound,
       ListFails
<1>2. ASSUME NEW r \in Rnti, ClearRole(r) \/ ClearRoleFails(r) PROVE RegistryStep
  BY <1>2 DEF RegistryStep, ClearRole, ClearRoleFails, Ue, Role
<1>3. ASSUME Crown \/ CrownFails \/ Rival PROVE RegistryStep
  BY <1>3 DEF RegistryStep, Crown, CrownFails, Rival, TypeInv, ClaimTyped, Ue, Role, registry
<1>4. ASSUME SetMode \/ SetPosture PROVE RegistryStep
  BY <1>4 DEF RegistryStep, SetMode, SetPosture, ToPosture, Bind, TypeInv, CallTyped
<1>5. ASSUME GetState \/ SetModeUnacked \/ SetModeTimesOut \/ Reply PROVE RegistryStep
  BY <1>5 DEF RegistryStep, GetState, SetModeUnacked, SetModeTimesOut, Reply
<1> QED
  BY <1>1, <1>2, <1>3, <1>4, <1>5 DEF Tool, Claiming

LEMMA RegistrySteps ==
  ASSUME TypeInv, [Next]_vars
  PROVE  RegistryStep
<1>1. ASSUME StartClaim \/ \E mode \in Mode : StartScene(mode) PROVE RegistryStep
  BY <1>1 DEF RegistryStep, StartClaim, StartScene
<1>2. ASSUME UNCHANGED vars PROVE RegistryStep
  BY <1>2 DEF RegistryStep, vars
<1> QED
  BY <1>1, <1>2, ToolRegistry, WorldRegistry DEF Next

LEMMA RegistryTypes ==
  ASSUME RegistryTyped, RegistryStep
  PROVE  RegistryTyped'
<1>1. CASE UNCHANGED registry
  BY <1>1 DEF RegistryTyped, registry
<1>2. CASE Prune
  <2>1. seen' \in [Rnti -> {"never", "active", "stale", "expired"}] /\ role' \in [Rnti -> Role]
    BY <1>2 DEF Prune, RegistryTyped, Role
  <2> QED
    BY <1>2, <2>1 DEF Prune, RegistryTyped, Expired
<1>3. ASSUME NEW u \in Ue, NEW as \in Role, TagUe(u, as) PROVE RegistryTyped'
  <2>1. seen' \in [Rnti -> {"never", "active", "stale", "expired"}] /\ role' \in [Rnti -> Role]
    BY <1>3 DEF TagUe, RegistryTyped, Role
  <2> QED
    BY <1>3, <2>1 DEF TagUe, RegistryTyped, Expired
<1>4. ASSUME NEW u \in Rnti, TouchUe(u) PROVE RegistryTyped'
  BY <1>4 DEF TouchUe, RegistryTyped
<1>5. ASSUME NEW r \in Rnti, Heartbeat(r) \/ Age(r) PROVE RegistryTyped'
  BY <1>5 DEF Heartbeat, Age, RegistryTyped
<1> QED
  BY <1>1, <1>2, <1>3, <1>4, <1>5 DEF RegistryStep

\* What a step may do to the bindings.
RanStep ==
  \/ UNCHANGED <<assoc, activeMode, lastCtrl>> /\ late' \subseteq Rnti \X Mode
  \/ \E cmd \in {"set_mode", "set_profile"}, u \in Rnti, mode \in Mode :
       Bind(cmd, u, mode) /\ late' \subseteq late

LEMMA RanSteps ==
  ASSUME TypeInv, [Next]_vars
  PROVE  RanStep
<1>0. late \subseteq Rnti \X Mode
  BY DEF TypeInv, RanTyped
<1>1. ASSUME NEW r \in Rnti, NEW mode \in Mode, NEW cmd \in {"set_mode", "set_profile"},
             OtherBind(cmd, r, mode)
      PROVE  RanStep
  BY <1>1 DEF RanStep, OtherBind
<1>2. ASSUME LateBind PROVE RanStep
  <2>1. PICK call \in late : Bind("set_mode", call[1], call[2]) /\ late' = late \ {call}
    BY <1>2 DEF LateBind
  <2>2. call[1] \in Rnti /\ call[2] \in Mode
    BY <1>0, <2>1
  <2> QED
    BY <2>1, <2>2 DEF RanStep
<1>3. ASSUME SetMode PROVE RanStep
  <2>1. target \in Rnti /\ chosen \in Mode
    BY <1>3 DEF SetMode, ToPosture, TypeInv, CallTyped
  <2> QED
    BY <1>3, <2>1 DEF SetMode, RanStep
<1>4. ASSUME SetModeTimesOut PROVE RanStep
  <2>1. target \in Rnti /\ chosen \in Mode
    BY <1>4 DEF SetModeTimesOut, ToPosture, TypeInv, CallTyped
  <2> QED
    BY <1>0, <1>4, <2>1 DEF SetModeTimesOut, RanStep
<1>5. ASSUME UNCHANGED ran PROVE RanStep
  BY <1>0, <1>5 DEF ran, RanStep
<1>6. ASSUME NEW r \in Rnti, Heartbeat(r) \/ Age(r) \/ \E as \in Role : OtherTag(r, as)
      PROVE  UNCHANGED ran
  BY <1>6 DEF Heartbeat, Age, OtherTag, Other
<1>7. ASSUME Claiming PROVE UNCHANGED ran
  BY <1>7 DEF Claiming, ClaimFails, Before, After, ClearRole, ClearRoleFails, Crown, CrownFails,
       Rival, ClaimEnds
<1>8. ASSUME Found \/ ClaimFirst \/ NotFound \/ GetState \/ SetModeUnacked \/ SetPosture \/ Reply
      PROVE  UNCHANGED ran
  BY <1>8 DEF Found, ClaimFirst, NotFound, GetState, SetModeUnacked, SetPosture, Reply
<1>9. ASSUME StartClaim \/ \E mode \in Mode : StartScene(mode) PROVE UNCHANGED ran
  BY <1>9 DEF StartClaim, StartScene
<1>10. UNCHANGED vars => UNCHANGED ran
  BY DEF vars
<1> QED
  BY <1>1, <1>2, <1>3, <1>4, <1>5, <1>6, <1>7, <1>8, <1>9, <1>10 DEF Next, Tool, World

LEMMA RanTypes ==
  ASSUME RanTyped, RanStep
  PROVE  RanTyped'
<1>1. CASE UNCHANGED <<assoc, activeMode, lastCtrl>> /\ late' \subseteq Rnti \X Mode
  BY <1>1 DEF RanTyped
<1>2. ASSUME NEW cmd \in {"set_mode", "set_profile"}, NEW u \in Rnti, NEW mode \in Mode,
             Bind(cmd, u, mode), late' \subseteq late
      PROVE  RanTyped'
  BY <1>2 DEF RanTyped, Bind, Ctrl, Slot
<1> QED
  BY <1>1, <1>2 DEF RanStep

\* The world leaves the tool call alone.
LEMMA WorldLeaves == World => UNCHANGED <<pc, claim, scene>>
<1>1. ASSUME NEW r \in Rnti, Heartbeat(r) \/ Age(r) PROVE UNCHANGED <<pc, claim, scene>>
  BY <1>1 DEF Heartbeat, Age
<1>2. ASSUME NEW r \in Rnti, NEW mode, NEW cmd, OtherBind(cmd, r, mode)
      PROVE  UNCHANGED <<pc, claim, scene>>
  BY <1>2 DEF OtherBind, Other
<1>3. ASSUME NEW r \in Rnti, NEW as, OtherTag(r, as) PROVE UNCHANGED <<pc, claim, scene>>
  BY <1>3 DEF OtherTag, Other
<1>4. LateBind => UNCHANGED <<pc, claim, scene>>
  BY DEF LateBind
<1> QED
  BY <1>1, <1>2, <1>3, <1>4 DEF World

\* An agent is looked for among the UEs.
LEMMA ListedUes == ASSUME TypeInv PROVE Listed \subseteq Rnti
  BY DEF Listed, TypeInv, RegistryTyped

LEMMA ClaimingTypes ==
  ASSUME TypeInv, Claiming
  PROVE  ClaimTyped' /\ CallTyped'
<1>0. ClaimTyped /\ CallTyped /\ Listed \subseteq Rnti
  BY ListedUes DEF TypeInv
<1>1. ASSUME ClaimFails PROVE ClaimTyped' /\ CallTyped'
  <2>1. /\ pc \in {"before", "after"} /\ ResolvedNone /\ UNCHANGED claim
    BY <1>1 DEF ClaimFails
  <2>2. ClaimTyped'
    BY <1>0, <2>1 DEF ClaimTyped, ResolvedNone, claim
  <2>3. CallTyped'
    BY <1>0, <2>1 DEF CallTyped, ResolvedNone, Ue
  <2> QED
    BY <2>2, <2>3
<1>2. ASSUME Before PROVE ClaimTyped' /\ CallTyped'
  BY <1>0, <1>2 DEF Before, ClaimTyped, CallTyped, scene
<1>3. ASSUME After PROVE ClaimTyped' /\ CallTyped'
  BY <1>0, <1>3 DEF After, ClaimTyped, CallTyped, scene, Ue
<1>4. ASSUME NEW r \in Rnti, ClearRole(r) \/ ClearRoleFails(r) PROVE ClaimTyped' /\ CallTyped'
  BY <1>0, <1>4 DEF ClearRole, ClearRoleFails, ClaimTyped, CallTyped, scene
<1>5. ASSUME Crown \/ CrownFails \/ Rival PROVE ClaimTyped' /\ CallTyped'
  <2>1. /\ UNCHANGED <<claim, scene>> /\ pc \in {"clear", "rival"} /\ pc' \in {"rival", "final"}
        /\ todo = {}
    BY <1>0, <1>5 DEF Crown, CrownFails, Rival, ClaimTyped
  <2> QED
    BY <1>0, <2>1 DEF ClaimTyped, CallTyped, claim, scene
<1>6. ASSUME ClaimEnds PROVE ClaimTyped' /\ CallTyped'
  BY <1>0, <1>6 DEF ClaimEnds, ClaimTyped, CallTyped, scene, Ue
<1> QED
  BY <1>1, <1>2, <1>3, <1>4, <1>5, <1>6 DEF Claiming

LEMMA ResolvingTypes ==
  ASSUME TypeInv, Found \/ ClaimFirst \/ NotFound
  PROVE  ClaimTyped' /\ CallTyped'
<1>0. ClaimTyped /\ CallTyped /\ Listed \subseteq Rnti
  BY ListedUes DEF TypeInv
<1>1. UNCHANGED claim /\ pc = "resolve" /\ pc' \in {"state", "bind", "posture", "before", "resolve", "done"}
  BY <1>0 DEF Found, ClaimFirst, NotFound, ResolvedNone, CallTyped
<1>2. ClaimTyped'
  BY <1>0, <1>1 DEF ClaimTyped, claim
<1>3. ASSUME Found PROVE CallTyped'
  BY <1>0, <1>3 DEF Found, CallTyped, Ue
<1>4. ASSUME ClaimFirst PROVE CallTyped'
  BY <1>0, <1>4 DEF ClaimFirst, CallTyped
<1>5. ASSUME NotFound PROVE CallTyped'
  BY <1>0, <1>5 DEF NotFound, ResolvedNone, CallTyped, Ue
<1> QED
  BY <1>2, <1>3, <1>4, <1>5

LEMMA SteppingTypes ==
  ASSUME TypeInv, GetState \/ SetMode \/ SetModeUnacked \/ SetModeTimesOut \/ SetPosture \/ Reply
  PROVE  ClaimTyped' /\ CallTyped'
<1>0. ClaimTyped /\ CallTyped
  BY DEF TypeInv
<1>1. ASSUME GetState PROVE ClaimTyped' /\ CallTyped'
  BY <1>0, <1>1 DEF GetState, ClaimTyped, CallTyped, claim, Ue
<1>2. ASSUME NEW answer, ToPosture(answer) PROVE ClaimTyped' /\ CallTyped'
  BY <1>0, <1>2 DEF ToPosture, ClaimTyped, CallTyped, claim, Ue
<1>3. ASSUME SetPosture PROVE ClaimTyped' /\ CallTyped'
  BY <1>0, <1>3 DEF SetPosture, ClaimTyped, CallTyped, claim, scene
<1>4. ASSUME Reply PROVE ClaimTyped' /\ CallTyped'
  BY <1>0, <1>4 DEF Reply, ClaimTyped, CallTyped, Ue, Slot
<1> QED
  BY <1>1, <1>2, <1>3, <1>4 DEF SetMode, SetModeUnacked, SetModeTimesOut

LEMMA StartTypes ==
  ASSUME TypeInv, StartClaim \/ \E mode \in Mode : StartScene(mode)
  PROVE  ClaimTyped' /\ CallTyped'
<1>0. ClaimTyped /\ CallTyped
  BY DEF TypeInv
<1>1. ASSUME StartClaim PROVE ClaimTyped' /\ CallTyped'
  BY <1>0, <1>1 DEF StartClaim, Start, ClaimTyped, CallTyped, claim, Ue
<1>2. ASSUME NEW mode \in Mode, StartScene(mode) PROVE ClaimTyped' /\ CallTyped'
  BY <1>0, <1>2 DEF StartScene, Start, ClaimTyped, CallTyped, claim, Ue, Slot
<1> QED
  BY <1>1, <1>2

\* The answer, the bounds and the history.
LEMMA Counted == ASSUME TypeInv, Upset PROVE upsets' \in 0 .. MaxUpsets
  BY SceneAssumption DEF Upset, TypeInv, AnswerTyped

LEMMA AnswerTypes ==
  ASSUME TypeInv, [Next]_vars
  PROVE  AnswerTyped'
<1>0. AnswerTyped /\ CallTyped /\ Listed \subseteq Rnti /\ Agents \subseteq Rnti
      /\ (Upset => upsets' \in 0 .. MaxUpsets)
  BY ListedUes, Counted DEF TypeInv, Agents
<1>2. ASSUME NEW r \in Rnti, Heartbeat(r) \/ Age(r) PROVE AnswerTyped'
  BY <1>0, <1>2 DEF Heartbeat, Age, scene, bounds, history, AnswerTyped
<1>3. ASSUME NEW r \in Rnti, NEW mode, NEW cmd, OtherBind(cmd, r, mode) PROVE AnswerTyped'
  BY <1>0, <1>3 DEF OtherBind, Other, scene, AnswerTyped
<1>4. ASSUME NEW r \in Rnti, NEW as, OtherTag(r, as) PROVE AnswerTyped'
  BY <1>0, <1>4 DEF OtherTag, Other, scene, AnswerTyped
<1>5. ASSUME LateBind PROVE AnswerTyped'
  BY <1>0, <1>5 DEF LateBind, scene, bounds, AnswerTyped
<1>6. ASSUME Claiming PROVE AnswerTyped'
  <2>1. ASSUME ClaimFails PROVE AnswerTyped'
    <3>1. upsets' \in 0 .. MaxUpsets /\ calls' = calls
      BY <1>0, <2>1 DEF ClaimFails, ListFails, bounds, AnswerTyped
    <3>2. UNCHANGED <<sceneUe, history>> /\ ok' \in BOOLEAN
      BY <1>0, <2>1 DEF ClaimFails, ResolvedNone, AnswerTyped
    <3> QED
      BY <1>0, <3>1, <3>2 DEF history, AnswerTyped
  <2>2. ASSUME Before \/ After \/ ClaimEnds PROVE AnswerTyped'
    BY <1>0, <2>2 DEF Before, After, ClaimEnds, scene, bounds, history, AnswerTyped
  <2>3. ASSUME NEW r \in Rnti, ClearRole(r) PROVE AnswerTyped'
    BY <1>0, <2>3 DEF ClearRole, scene, bounds, AnswerTyped
  <2>4. ASSUME NEW r \in Rnti, ClearRoleFails(r) PROVE AnswerTyped'
    BY <1>0, <2>4 DEF ClearRoleFails, scene, AnswerTyped
  <2>5. ASSUME Crown \/ Rival PROVE AnswerTyped'
    BY <1>0, <2>5 DEF Crown, Rival, scene, bounds, AnswerTyped
  <2>6. ASSUME CrownFails PROVE AnswerTyped'
    BY <1>0, <2>6 DEF CrownFails, scene, history, AnswerTyped
  <2> QED
    BY <1>6, <2>1, <2>2, <2>3, <2>4, <2>5, <2>6 DEF Claiming
<1>7. ASSUME Found PROVE AnswerTyped'
  BY <1>0, <1>7 DEF Found, bounds, AnswerTyped, Ue
<1>8. ASSUME ClaimFirst \/ NotFound PROVE AnswerTyped'
  <2>1. upsets' \in 0 .. MaxUpsets /\ calls' = calls
    BY <1>0, <1>8 DEF ClaimFirst, NotFound, ListFails, bounds, AnswerTyped
  <2>2. UNCHANGED <<sceneUe, history>> /\ ok' \in BOOLEAN
    BY <1>0, <1>8 DEF ClaimFirst, NotFound, ResolvedNone, AnswerTyped
  <2> QED
    BY <1>0, <2>1, <2>2 DEF history, AnswerTyped
<1>9. ASSUME GetState PROVE AnswerTyped'
  BY <1>0, <1>9 DEF GetState, bounds, AnswerTyped
<1>10. ASSUME SetMode PROVE AnswerTyped'
  BY <1>0, <1>10 DEF SetMode, ToPosture, AnswerTyped
<1>11. ASSUME SetModeUnacked \/ SetModeTimesOut PROVE AnswerTyped'
  BY <1>0, <1>11 DEF SetModeUnacked, SetModeTimesOut, ToPosture, AnswerTyped
<1>12. ASSUME SetPosture PROVE AnswerTyped'
  BY <1>0, <1>12 DEF SetPosture, scene, bounds, history, AnswerTyped
<1>13. ASSUME Reply PROVE AnswerTyped'
  BY <1>0, <1>13 DEF Reply, bounds, AnswerTyped, Ue
<1>14. ASSUME StartClaim \/ \E mode \in Mode : StartScene(mode) PROVE AnswerTyped'
  <2>1. Start /\ UNCHANGED <<upsets, escaped>>
    BY <1>14 DEF StartClaim, StartScene
  <2>2. calls' \in 0 .. MaxCalls
    BY <1>0, <2>1, SceneAssumption DEF Start, AnswerTyped
  <2> QED
    BY <1>0, <2>1, <2>2 DEF Start, AnswerTyped, Ue
<1>15. UNCHANGED vars => AnswerTyped'
  BY <1>0 DEF vars, scene, bounds, history, AnswerTyped
<1>16. World => AnswerTyped'
  BY <1>2, <1>3, <1>4, <1>5 DEF World
<1>17. Tool => AnswerTyped'
  BY <1>6, <1>7, <1>8, <1>9, <1>10, <1>11, <1>12, <1>13 DEF Tool
<1> QED
  BY <1>14, <1>15, <1>16, <1>17 DEF Next

LEMMA InitTypes == Init => TypeInv
<1> SUFFICES ASSUME Init PROVE TypeInv
  OBVIOUS
<1>1. RegistryTyped
  BY DEF Init, RegistryTyped, Role
<1>2. RanTyped
  BY DEF Init, RanTyped, Slot
<1>3. ClaimTyped /\ CallTyped
  BY DEF Init, ClaimTyped, CallTyped, Ue, Slot
<1>4. AnswerTyped
  <2>1. MaxCalls \in Nat /\ MaxUpsets \in Nat
    BY SceneAssumption
  <2>2. 0 \in 0 .. MaxCalls /\ 0 \in 0 .. MaxUpsets
    BY <2>1
  <2> QED
    BY <2>2 DEF Init, AnswerTyped, Ue
<1> QED
  BY <1>1, <1>2, <1>3, <1>4 DEF TypeInv

LEMMA StepTypes ==
  ASSUME TypeInv, [Next]_vars
  PROVE  TypeInv'
<1>1. RegistryTyped' /\ RanTyped' /\ AnswerTyped'
  BY RegistrySteps, RegistryTypes, RanSteps, RanTypes, AnswerTypes DEF TypeInv
<1>2. ASSUME World \/ UNCHANGED vars PROVE ClaimTyped' /\ CallTyped'
  <2>1. UNCHANGED <<pc, claim, scene>>
    BY <1>2, WorldLeaves DEF vars
  <2> QED
    BY <2>1 DEF TypeInv, ClaimTyped, CallTyped, claim, scene
<1>3. ClaimTyped' /\ CallTyped'
  BY <1>2, ClaimingTypes, ResolvingTypes, SteppingTypes, StartTypes DEF Next, Tool
<1> QED
  BY <1>1, <1>3 DEF TypeInv

\* Every variable has its type, and an entry that was pruned has no role.
THEOREM SceneTypeOK == Spec => []TypeOK
<1>1. Spec => []TypeInv
  BY InitTypes, StepTypes, PTL DEF Spec
<1> QED
  BY <1>1, TypeInvTypes, PTL

-----------------------------------------------------------------------------
(* The exclusive claim                                                     *)

\* Where the agents are that nothing excuses: one UE at most has the role,
\* and while the roles are cleared only those whose turn is still to come.
Exclusive ==
  /\ \E u \in Ue : Agents \ escaped \subseteq {u}
  /\ pc = "clear" => Agents \ escaped \subseteq todo

\* Agents that are not escaped.
LEMMA FewerAgents ==
  ASSUME Exclusive, Agents' \ escaped' \subseteq Agents \ escaped,
         pc' = "clear" => pc = "clear" /\ todo' = todo
  PROVE  Exclusive'
  BY DEF Exclusive

LEMMA TagAgents ==
  ASSUME TypeInv, NEW u, NEW as, TagUe(u, as)
  PROVE  Agents' \subseteq (Agents \ {u}) \cup (IF as = "agent" THEN {u} ELSE {})
  BY DEF TypeInv, RegistryTyped, TagUe, Agents, Role

LEMMA PruneAgents ==
  ASSUME TypeInv, Prune
  PROVE  Agents' \subseteq Agents
  BY DEF TypeInv, RegistryTyped, Prune, Agents, Role

LEMMA StepExclusive ==
  ASSUME TypeInv, Exclusive, [Next]_vars
  PROVE  Exclusive'
<1>0. escaped \subseteq Rnti /\ ClaimTyped
  BY DEF TypeInv, AnswerTyped
<1>1. ASSUME UNCHANGED <<role, escaped>>, pc' = "clear" => pc = "clear" /\ todo' = todo
      PROVE  Exclusive'
  BY <1>1, FewerAgents DEF Agents
<1>2. ASSUME Prune, escaped' = escaped, pc' = "clear" => pc = "clear" /\ todo' = todo
      PROVE  Exclusive'
  <2>1. Agents' \ escaped' \subseteq Agents \ escaped
    BY <1>2, PruneAgents
  <2> QED
    BY <1>2, <2>1, FewerAgents
<1>3. ASSUME World PROVE Exclusive'
  <2>1. UNCHANGED <<pc, todo>>
    BY <1>3, WorldLeaves DEF claim
  <2>2. ASSUME NEW r \in Rnti, Heartbeat(r) \/ Age(r) PROVE UNCHANGED <<role, escaped>>
    BY <2>2 DEF Heartbeat, Age, history
  <2>3. ASSUME NEW r \in Rnti, NEW mode, NEW cmd, OtherBind(cmd, r, mode)
        PROVE  UNCHANGED <<role, escaped>>
    BY <2>3 DEF OtherBind, Bind, TouchUe
  <2>4. LateBind => UNCHANGED <<role, escaped>>
    BY DEF LateBind, Bind, TouchUe
  <2>5. ASSUME NEW r \in Rnti, NEW as \in Role, OtherTag(r, as) PROVE Exclusive'
    <3>1. Agents' \subseteq (Agents \ {r}) \cup (IF as = "agent" THEN {r} ELSE {})
      BY <2>5, TagAgents DEF OtherTag
    <3>2. escaped' = IF as = "agent" THEN escaped \cup {r} ELSE escaped \ {r}
      BY <2>5 DEF OtherTag
    <3>3. Agents' \ escaped' \subseteq Agents \ escaped
      BY <3>1, <3>2
    <3> QED
      BY <2>1, <3>3, FewerAgents
  <2> QED
    BY <1>1, <1>3, <2>1, <2>2, <2>3, <2>4, <2>5 DEF World
<1>4. ASSUME ClaimFails \/ Before \/ ClaimEnds \/ Found \/ ClaimFirst \/ NotFound PROVE Exclusive'
  <2>1. (Prune \/ UNCHANGED role) /\ escaped' = escaped
    BY <1>4 DEF ClaimFails, Before, ClaimEnds, Found, ClaimFirst, NotFound, ListFails, registry,
         history
  <2>2. pc' # "clear"
    BY <1>4 DEF ClaimFails, Before, ClaimEnds, Found, ClaimFirst, NotFound, ResolvedNone, TypeInv,
         CallTyped
  <2> QED
    BY <1>1, <1>2, <2>1, <2>2
<1>5. ASSUME After PROVE Exclusive'
  <2>1. /\ Agents' \subseteq Agents /\ todo' = Listed /\ pc' = "clear"
        /\ escaped' = escaped \cup (Agents \ Listed)
    BY <1>5, PruneAgents DEF After
  <2> QED
    BY <2>1 DEF Exclusive
<1>6. ASSUME NEW r \in Rnti, ClearRole(r) PROVE Exclusive'
  <2>1. Agents' \subseteq Agents \ {r}
    BY <1>6, TagAgents DEF ClearRole
  <2>2. /\ escaped' = escaped \ {r} /\ todo' = todo \ {r} /\ pc = "clear"
    BY <1>6 DEF ClearRole
  <2> QED
    BY <2>1, <2>2 DEF Exclusive
<1>7. ASSUME NEW r \in Rnti, ClearRoleFails(r) PROVE Exclusive'
  <2>1. /\ Agents' = Agents /\ escaped' = escaped \cup ({r} \cap Agents) /\ todo' = todo \ {r}
        /\ pc = "clear"
    BY <1>7 DEF ClearRoleFails, registry, Agents
  <2> QED
    BY <2>1 DEF Exclusive
<1>8. ASSUME Crown PROVE Exclusive'
  <2>1. /\ Agents' \subseteq (Agents \ {winner}) \cup {winner} /\ escaped' = escaped \ {winner}
        /\ pc = "clear" /\ todo = {} /\ pc' = "rival"
    BY <1>8, TagAgents DEF Crown
  <2>2. Agents \subseteq escaped
    BY <2>1 DEF Exclusive
  <2>3. Agents' \ escaped' \subseteq {winner} /\ winner \in Ue
    BY <1>0, <2>1, <2>2 DEF ClaimTyped
  <2> QED
    BY <2>1, <2>3 DEF Exclusive, Ue
<1>9. ASSUME CrownFails PROVE Exclusive'
  <2>1. UNCHANGED <<role, escaped>> /\ pc' = "rival"
    BY <1>9 DEF CrownFails, registry, history
  <2> QED
    BY <1>1, <2>1
<1>10. ASSUME Rival PROVE Exclusive'
  <2>1. pc' = "final"
    BY <1>10 DEF Rival
  <2>2. CASE \E r \in list \ {winner} : TagUe(r, "competitor") /\ escaped' = escaped \ {r}
    <3>1. PICK r \in list \ {winner} : TagUe(r, "competitor") /\ escaped' = escaped \ {r}
      BY <2>2
    <3>2. Agents' \subseteq Agents \ {r}
      BY <3>1, TagAgents
    <3> QED
      BY <2>1, <3>1, <3>2, FewerAgents
  <2>3. CASE UNCHANGED <<registry, escaped>>
    BY <1>1, <2>1, <2>3 DEF registry
  <2> QED
    BY <1>10, <2>2, <2>3 DEF Rival
<1>11. ASSUME GetState \/ SetMode \/ SetModeUnacked \/ SetModeTimesOut \/ SetPosture \/ Reply
       PROVE  Exclusive'
  <2>1. UNCHANGED <<role, escaped>>
    BY <1>11 DEF GetState, SetMode, SetModeUnacked, SetModeTimesOut, SetPosture, Reply, ToPosture,
         Bind, TouchUe, registry, history
  <2>2. pc' # "clear"
    BY <1>11 DEF GetState, SetMode, SetModeUnacked, SetModeTimesOut, SetPosture, Reply, ToPosture
  <2> QED
    BY <1>1, <2>1, <2>2
<1>12. ASSUME StartClaim \/ \E mode \in Mode : StartScene(mode) PROVE Exclusive'
  <2>1. UNCHANGED <<role, escaped>> /\ pc' # "clear"
    BY <1>12 DEF StartClaim, StartScene, registry
  <2> QED
    BY <1>1, <2>1
<1>13. ASSUME UNCHANGED vars PROVE Exclusive'
  BY <1>1, <1>13 DEF vars, registry, claim, history
<1>14. Claiming => Exclusive'
  BY <1>4, <1>5, <1>6, <1>7, <1>8, <1>9, <1>10 DEF Claiming
<1>15. Tool => Exclusive'
  BY <1>4, <1>11, <1>14 DEF Tool
<1> QED
  BY <1>3, <1>12, <1>13, <1>15 DEF Next

LEMMA ExclusiveCounts ==
  ASSUME Exclusive
  PROVE  OneAgent
<1>1. PICK u \in Ue : Agents \ escaped \subseteq {u}
  BY DEF Exclusive
<1>2. CASE Agents \ escaped = {}
  BY <1>2, FS_EmptySet DEF OneAgent
<1>3. CASE Agents \ escaped = {u}
  <2>1. Cardinality({u}) = 1
    BY FS_Singleton
  <2>2. Cardinality(Agents \ escaped) = 1
    BY <1>3, <2>1
  <2> QED
    BY <2>2 DEF OneAgent
<1> QED
  BY <1>1, <1>2, <1>3

LEMMA InitExclusive == Init => Exclusive
  BY DEF Init, Exclusive, Agents, Ue

LEMMA ExclusiveAlways == Spec => [](TypeInv /\ Exclusive)
<1>1. Init => TypeInv /\ Exclusive
  BY InitTypes, InitExclusive
<1>2. TypeInv /\ Exclusive /\ [Next]_vars => (TypeInv /\ Exclusive)'
  BY StepTypes, StepExclusive
<1> QED
  BY <1>1, <1>2, PTL DEF Spec

\* A claim is exclusive: one agent at most, beside those it could not clear
\* and those another client tagged.
THEOREM SceneOneAgent == Spec => []OneAgent
  BY ExclusiveAlways, ExclusiveCounts, PTL

-----------------------------------------------------------------------------
(* What ok says                                                            *)

\* set_mode that came last, of the server or of another client, is what the
\* gNB applies to its UE and what the xApp calls the active mode.
LastMode ==
  lastCtrl.cmd = "set_mode" => assoc[lastCtrl.ue] = lastCtrl.mode /\ activeMode = lastCtrl.mode

SceneBound ==
  /\ pc = "bind" => target = sceneUe
  /\ goal = "posture" /\ ok /\ ~excuse /\ sceneUe # None => assoc[sceneUe] = chosen

LEMMA StepLastMode ==
  ASSUME TypeInv, LastMode, [Next]_vars
  PROVE  LastMode'
<1>1. RanStep
  BY RanSteps
<1>2. CASE UNCHANGED <<assoc, activeMode, lastCtrl>>
  BY <1>2 DEF LastMode
<1>3. ASSUME NEW cmd \in {"set_mode", "set_profile"}, NEW u \in Rnti, NEW mode \in Mode,
             Bind(cmd, u, mode)
      PROVE  LastMode'
  <2>1. assoc \in [Rnti -> Slot]
    BY DEF TypeInv, RanTyped
  <2> QED
    BY <1>3, <2>1 DEF LastMode, Bind
<1> QED
  BY <1>1, <1>2, <1>3 DEF RanStep

LEMMA StepSceneBound ==
  ASSUME TypeInv, LastMode, SceneBound, [Next]_vars
  PROVE  SceneBound'
<1>0. CallTyped /\ AnswerTyped /\ RanTyped
  BY DEF TypeInv
<1>1. ASSUME World PROVE SceneBound'
  <2>1. UNCHANGED <<pc, goal, target, sceneUe, ok, chosen>>
    BY <1>1, WorldLeaves DEF scene
  <2>2. excuse' \/ UNCHANGED <<assoc, excuse>>
    <3>1. ASSUME NEW r \in Rnti, Heartbeat(r) \/ Age(r) \/ \E as \in Role : OtherTag(r, as)
          PROVE  UNCHANGED <<assoc, excuse>>
      BY <3>1 DEF Heartbeat, Age, OtherTag, ran, history
    <3>2. ASSUME NEW r \in Rnti, NEW mode, NEW cmd, OtherBind(cmd, r, mode) PROVE excuse'
      BY <3>2 DEF OtherBind
    <3>3. LateBind => excuse'
      BY DEF LateBind
    <3> QED
      BY <1>1, <3>1, <3>2, <3>3 DEF World
  <2> QED
    BY <2>1, <2>2 DEF SceneBound
<1>2. ASSUME UNCHANGED <<goal, sceneUe, ok, chosen, assoc, excuse>>, pc' # "bind" PROVE SceneBound'
  BY <1>2 DEF SceneBound
<1>3. ASSUME ClaimFails \/ NotFound PROVE SceneBound'
  BY <1>0, <1>3 DEF ClaimFails, NotFound, ResolvedNone, ran, history, SceneBound, CallTyped
<1>4. ASSUME Before \/ After \/ Crown \/ CrownFails \/ Rival \/ ClaimEnds
      PROVE  SceneBound'
  <2>1. pc' # "bind"
    BY <1>4 DEF Before, After, Crown, CrownFails, Rival, ClaimEnds
  <2>2. UNCHANGED <<scene, assoc, excuse>>
    BY <1>4 DEF Before, After, Crown, CrownFails, Rival, ClaimEnds, ran, history
  <2> QED
    BY <1>2, <2>1, <2>2 DEF scene
<1>5. ASSUME NEW r \in Rnti, ClearRole(r) \/ ClearRoleFails(r) PROVE SceneBound'
  BY <1>2, <1>5 DEF ClearRole, ClearRoleFails, scene, ran
<1>6. ASSUME Found PROVE SceneBound'
  BY <1>0, <1>6 DEF Found, ran, history, SceneBound, CallTyped
<1>7. ASSUME ClaimFirst PROVE SceneBound'
  BY <1>2, <1>7 DEF ClaimFirst, ran, history
<1>8. ASSUME GetState PROVE SceneBound'
  <2>1. /\ goal' = IF activeMode = chosen THEN "posture" ELSE "bind"
        /\ excuse' = IF activeMode # chosen THEN FALSE
                     ELSE lastCtrl.cmd # "set_mode" \/ lastCtrl.ue # sceneUe
        /\ pc' = "resolve" /\ UNCHANGED <<chosen, sceneUe, ok, assoc>>
    BY <1>8 DEF GetState, ran
  <2> QED
    BY <2>1 DEF SceneBound, LastMode
<1>9. ASSUME SetMode PROVE SceneBound'
  <2>1. /\ assoc' = [assoc EXCEPT ![target] = chosen] /\ target = sceneUe /\ target \in Rnti
        /\ pc' = "resolve" /\ UNCHANGED <<chosen, sceneUe>>
    BY <1>0, <1>9 DEF SetMode, ToPosture, Bind, SceneBound, CallTyped
  <2> QED
    BY <1>0, <2>1 DEF SceneBound, RanTyped
<1>10. ASSUME SetModeUnacked \/ SetModeTimesOut PROVE SceneBound'
  BY <1>10 DEF SetModeUnacked, SetModeTimesOut, ToPosture, SceneBound
<1>11. ASSUME SetPosture PROVE SceneBound'
  BY <1>2, <1>11 DEF SetPosture, scene, ran, history
<1>12. ASSUME Reply \/ StartClaim \/ \E mode \in Mode : StartScene(mode) PROVE SceneBound'
  BY <1>12 DEF Reply, StartClaim, StartScene, Start, SceneBound
<1>13. ASSUME UNCHANGED vars PROVE SceneBound'
  BY <1>13 DEF vars, scene, ran, history, SceneBound
<1>14. Claiming => SceneBound'
  BY <1>3, <1>4, <1>5 DEF Claiming
<1>15. Tool => SceneBound'
  BY <1>3, <1>6, <1>7, <1>8, <1>9, <1>10, <1>11, <1>12, <1>14 DEF Tool
<1> QED
  BY <1>1, <1>12, <1>13, <1>15 DEF Next

\* A scene that is answered ok leaves its UE bound to its mode, unless another
\* client or a late request bound it, no node acknowledged, or the mode is
\* active for another UE.
THEOREM SceneOk == Spec => []SceneOkMeansBound
<1>1. Init => TypeInv /\ LastMode /\ SceneBound
  <2>1. Init => LastMode /\ SceneBound
    BY DEF Init, LastMode, SceneBound, NoCtrl
  <2> QED
    BY <2>1, InitTypes
<1>2. TypeInv /\ LastMode /\ SceneBound /\ [Next]_vars => (TypeInv /\ LastMode /\ SceneBound)'
  BY StepTypes, StepLastMode, StepSceneBound
<1>3. SceneBound => SceneOkMeansBound
  BY DEF SceneBound, SceneOkMeansBound
<1> QED
  BY <1>1, <1>2, <1>3, PTL DEF Spec

-----------------------------------------------------------------------------
(* The one UE of a scene                                                   *)

\* While nothing excuses it, the UE a scene resolved stays the one agent and
\* stays listed, so that no claim is made and the next resolution finds it.
Kept ==
  sceneUe # None /\ ~churn =>
    /\ pc \in {"resolve", "state", "bind", "posture", "done"}
    /\ Agents = {sceneUe} /\ sceneUe \in Listed
    /\ pc = "posture" => target = sceneUe

LEMMA KeptByPrune ==
  ASSUME TypeInv, Prune, NEW u, Agents = {u}, u \in Listed
  PROVE  Agents' = {u} /\ u \in Listed'
<1>1. u \in Rnti /\ role[u] = "agent" /\ seen[u] = "active" /\ u \in watched
  BY DEF Agents, Listed
<1>2. role'[u] = "agent" /\ seen'[u] = "active" /\ u \in watched'
  BY <1>1 DEF Prune, Expired
<1>3. Agents' \subseteq Agents
  BY PruneAgents
<1> QED
  BY <1>1, <1>2, <1>3 DEF Agents, Listed

LEMMA KeptByTouch ==
  ASSUME TypeInv, NEW u, NEW r \in Rnti, TouchUe(r), Agents = {u}, u \in Listed
  PROVE  Agents' = {u} /\ u \in Listed'
<1>1. seen \in [Rnti -> {"never", "active", "stale", "expired"}]
  BY DEF TypeInv, RegistryTyped
<1> QED
  BY <1>1 DEF TouchUe, Agents, Listed

LEMMA WorldKept ==
  ASSUME TypeInv, Kept, World
  PROVE  Kept'
<1>0. UNCHANGED <<pc, target, sceneUe>> /\ seen \in [Rnti -> {"never", "active", "stale", "expired"}]
  BY WorldLeaves DEF scene, TypeInv, RegistryTyped
<1>1. ASSUME NEW r \in Rnti, Heartbeat(r) PROVE Kept'
  <2>1. /\ seen' = [seen EXCEPT ![r] = "active"] /\ watched' = watched \cup {r}
        /\ role' = role /\ churn' = churn
    BY <1>1 DEF Heartbeat, history
  <2>2. Agents' = Agents /\ Listed \subseteq Listed'
    BY <1>0, <2>1 DEF Agents, Listed, TypeInv, RegistryTyped
  <2> QED
    BY <1>0, <2>1, <2>2 DEF Kept
<1>2. ASSUME NEW r \in Rnti, Age(r) PROVE Kept'
  <2>1. /\ churn' = (churn \/ r = sceneUe) /\ UNCHANGED <<watched, role>>
        /\ \A u \in Rnti : u # r => seen'[u] = seen[u]
    BY <1>0, <1>2 DEF Age
  <2>2. Agents' = Agents /\ (sceneUe # r /\ sceneUe \in Listed => sceneUe \in Listed')
    BY <2>1 DEF Agents, Listed, TypeInv, RegistryTyped
  <2> QED
    BY <1>0, <2>1, <2>2 DEF Kept
<1>3. ASSUME NEW r \in Rnti, NEW mode, NEW cmd, OtherBind(cmd, r, mode) PROVE Kept'
  <2>1. TouchUe(r) /\ churn' = churn
    BY <1>3 DEF OtherBind, Bind
  <2> QED
    BY <1>0, <2>1, KeptByTouch DEF Kept
<1>4. ASSUME NEW r \in Rnti, NEW as, OtherTag(r, as) PROVE Kept'
  BY <1>4 DEF OtherTag, Kept
<1>5. ASSUME LateBind PROVE Kept'
  <2>1. PICK call \in late : TouchUe(call[1]) /\ churn' = churn
    BY <1>5 DEF LateBind, Bind
  <2>2. call[1] \in Rnti
    BY <2>1 DEF TypeInv, RanTyped
  <2> QED
    BY <1>0, <2>1, <2>2, KeptByTouch DEF Kept
<1> QED
  BY <1>1, <1>2, <1>3, <1>4, <1>5 DEF World

LEMMA FoundKept ==
  ASSUME TypeInv, Exclusive, Kept, Found
  PROVE  Kept'
<1>1. /\ target' \in Listed \cap Agents /\ Prune /\ pc' = goal
      /\ sceneUe' = IF goal = "posture" THEN sceneUe ELSE target'
      /\ churn' = IF goal = "posture" THEN churn ELSE escaped # {}
      /\ goal \in {"state", "bind", "posture"}
  BY DEF Found, TypeInv, CallTyped
<1>2. CASE goal = "posture"
  <2>1. SUFFICES ASSUME sceneUe # None, ~churn
                 PROVE  /\ pc' = "posture" /\ target' = sceneUe
                        /\ Agents' = {sceneUe} /\ sceneUe \in Listed'
    BY <1>1, <1>2 DEF Kept
  <2>2. Agents = {sceneUe} /\ sceneUe \in Listed
    BY <2>1 DEF Kept
  <2> QED
    BY <1>1, <1>2, <2>2, KeptByPrune
<1>3. CASE goal # "posture"
  <2>1. SUFFICES ASSUME escaped = {}
                 PROVE  Agents' = {target'} /\ target' \in Listed'
    BY <1>1, <1>3 DEF Kept
  <2>2. Agents = {target'}
    BY <1>1, <2>1 DEF Exclusive
  <2> QED
    BY <1>1, <2>2, KeptByPrune
<1> QED
  BY <1>2, <1>3

LEMMA StepKept ==
  ASSUME TypeInv, Exclusive, Kept, [Next]_vars
  PROVE  Kept'
<1>1. ASSUME Claiming PROVE Kept'
  <2>1. pc \in {"before", "after", "clear", "rival", "final"}
    BY <1>1 DEF Claiming, ClaimFails, Before, After, ClearRole, ClearRoleFails, Crown, CrownFails,
         Rival, ClaimEnds
  <2>2. UNCHANGED <<sceneUe, churn>>
    BY <1>1 DEF Claiming, ClaimFails, Before, After, ClearRole, ClearRoleFails, Crown, CrownFails,
         Rival, ClaimEnds, ResolvedNone, scene, history
  <2> QED
    BY <2>1, <2>2 DEF Kept
<1>2. ASSUME ClaimFirst \/ NotFound PROVE Kept'
  <2>1. UNCHANGED <<sceneUe, churn>>
    BY <1>2 DEF ClaimFirst, NotFound, ResolvedNone, history
  <2>2. CASE Listed \cap Agents = {}
    BY <2>1, <2>2 DEF Kept
  <2>3. CASE NotFound /\ ListFails
    <3>1. pc = "resolve" /\ pc' \in {"resolve", "state", "done"}
      BY <2>3 DEF NotFound, ResolvedNone
    <3>2. CASE UNCHANGED registry
      BY <2>1, <3>1, <3>2 DEF registry, Kept, Agents, Listed
    <3>3. CASE Prune
      BY <2>1, <3>1, <3>3, KeptByPrune DEF Kept
    <3> QED
      BY <2>3, <3>2, <3>3 DEF ListFails
  <2> QED
    BY <1>2, <2>2, <2>3 DEF ClaimFirst, NotFound
<1>3. ASSUME GetState PROVE Kept'
  BY <1>3 DEF GetState, registry, Kept, Agents, Listed
<1>4. ASSUME SetMode PROVE Kept'
  <2>1. TouchUe(target) /\ target \in Rnti /\ pc' = "resolve" /\ UNCHANGED <<sceneUe, churn>>
    BY <1>4 DEF SetMode, ToPosture, Bind, TypeInv, CallTyped
  <2> QED
    BY <2>1, KeptByTouch DEF Kept
<1>5. ASSUME SetModeUnacked \/ SetModeTimesOut PROVE Kept'
  BY <1>5 DEF SetModeUnacked, SetModeTimesOut, ToPosture, registry, Kept, Agents, Listed
<1>6. ASSUME SetPosture PROVE Kept'
  <2>1. TouchUe(target) /\ target \in Rnti /\ pc' = "done" /\ UNCHANGED <<sceneUe, churn>>
    BY <1>6 DEF SetPosture, scene, history, TypeInv, CallTyped
  <2> QED
    BY <2>1, KeptByTouch DEF Kept
<1>7. ASSUME Reply \/ StartClaim \/ \E mode \in Mode : StartScene(mode) PROVE Kept'
  BY <1>7 DEF Reply, StartClaim, StartScene, Start, Kept
<1>8. ASSUME UNCHANGED vars PROVE Kept'
  BY <1>8 DEF vars, registry, scene, history, Kept, Agents, Listed
<1>9. Tool => Kept'
  BY <1>1, <1>2, <1>3, <1>4, <1>5, <1>6, <1>7, FoundKept DEF Tool
<1> QED
  BY <1>7, <1>8, <1>9, WorldKept DEF Next

\* The mode and the posture of a scene reach the same UE, unless its entry
\* aged in between, another client changed roles or the agent was not the only
\* one.
THEOREM SceneMeansOneUe == Spec => []SceneOneUe
<1>1. Init => TypeInv /\ Exclusive /\ Kept
  BY InitTypes, InitExclusive DEF Init, Kept
<1>2. TypeInv /\ Exclusive /\ Kept /\ [Next]_vars => (TypeInv /\ Exclusive /\ Kept)'
  BY StepTypes, StepExclusive, StepKept
<1>3. Kept => SceneOneUe
  BY DEF Kept, SceneOneUe
<1> QED
  BY <1>1, <1>2, <1>3, PTL DEF Spec

-----------------------------------------------------------------------------
(* A tool call ends                                                        *)

LEMMA Sizes ==
  ASSUME TypeInv
  PROVE  /\ Cardinality(Rnti) \in Nat
         /\ IsFiniteSet(todo) /\ Cardinality(todo) \in 0 .. Cardinality(Rnti)
<1>1. IsFiniteSet(Rnti) /\ todo \subseteq Rnti
  BY SceneAssumption DEF TypeInv, ClaimTyped
<1>2. IsFiniteSet(todo) /\ Cardinality(todo) =< Cardinality(Rnti)
  BY <1>1, FS_Subset
<1> QED
  BY <1>1, <1>2, FS_CardinalityType

LEMMA Ranges ==
  TypeInv => Steps \in 0 .. Cardinality(Rnti) + 9 /\ Left \in 0 .. 3
<1> SUFFICES ASSUME TypeInv PROVE Steps \in 0 .. Cardinality(Rnti) + 9 /\ Left \in 0 .. 3
  OBVIOUS
<1> DEFINE n == Cardinality(Rnti)
           k == Cardinality(todo)
<1>1. /\ n \in Nat /\ k \in 0 .. n
      /\ pc \in {"idle", "resolve", "before", "after", "clear", "rival", "final",
                 "state", "bind", "posture", "done"}
  BY Sizes DEF TypeInv, CallTyped
<1>2. Steps \in {0, 1, 2, 3, 4, 5, k + 6, n + 7, n + 8, n + 9}
  BY <1>1 DEF Steps
<1>3. Left \in 0 .. 3
  BY DEF TypeInv, CallTyped, Left
<1> HIDE DEF n, k
<1>4. Steps \in 0 .. n + 9
  BY <1>1, <1>2
<1> QED
  BY <1>3, <1>4 DEF n

LEMMA RangesNext ==
  TypeInv' => (Steps \in 0 .. Cardinality(Rnti) + 9 /\ Left \in 0 .. 3)'
  BY Ranges, PTL

\* A resolution that is over outweighs all the steps of the next.
LEMMA Weighed ==
  ASSUME NEW n \in Nat, NEW i \in 0 .. 3, NEW j \in 0 .. 3,
         NEW a \in 0 .. n + 9, NEW b \in 0 .. n + 9,
         j < i \/ (j = i /\ b < a)
  PROVE  j * (n + 10) + b \in Nat /\ j * (n + 10) + b < i * (n + 10) + a
<1>1. j = 0 \/ j = 1 \/ j = 2 \/ j = 3
  OBVIOUS
<1>2. CASE j = i
  BY <1>1, <1>2
<1>3. CASE j < i
  <2>1. i = 1 \/ i = 2 \/ i = 3
    BY <1>3
  <2>2. CASE j = 0
    BY <1>3, <2>1, <2>2
  <2>3. CASE j = 1
    BY <1>3, <2>1, <2>3
  <2>4. CASE j = 2
    BY <1>3, <2>1, <2>4
  <2> QED
    BY <1>1, <1>3, <2>1, <2>2, <2>3, <2>4
<1> QED
  BY <1>2, <1>3

LEMMA Nearer ==
  ASSUME TypeInv, TypeInv', Left' < Left \/ (Left' = Left /\ Steps' < Steps)
  PROVE  Distance' \in Nat /\ Distance' < Distance
<1> DEFINE n == Cardinality(Rnti)
<1>1. n \in Nat /\ Steps \in 0 .. n + 9 /\ Left \in 0 .. 3
  BY Sizes, Ranges
<1>2. Steps' \in 0 .. n + 9 /\ Left' \in 0 .. 3
  BY RangesNext
<1>3. Distance = Left * (n + 10) + Steps /\ Distance' = Left' * (n + 10) + Steps'
  BY DEF Distance
<1> HIDE DEF n
<1> QED
  BY <1>1, <1>2, <1>3, Weighed

LEMMA ClaimingNearer ==
  ASSUME TypeInv, Claiming
  PROVE  Left' < Left \/ (Left' = Left /\ Steps' < Steps)
<1>0. /\ Cardinality(Rnti) \in Nat /\ IsFiniteSet(todo)
      /\ Cardinality(todo) \in 0 .. Cardinality(Rnti)
      /\ goal \in {"claim", "state", "bind", "posture"}
      /\ Listed \subseteq Rnti
  BY Sizes, ListedUes DEF TypeInv, CallTyped
<1>1. ASSUME ClaimFails PROVE Left' < Left \/ (Left' = Left /\ Steps' < Steps)
  <2>1. CASE goal = "bind"
    BY <1>1, <2>1 DEF ClaimFails, ResolvedNone, Left
  <2>2. CASE goal # "bind"
    <3>1. goal' = goal /\ pc' \in {"state", "done"} /\ pc \in {"before", "after"}
      BY <1>1, <2>2 DEF ClaimFails, ResolvedNone
    <3> QED
      BY <1>0, <3>1 DEF Left, Steps
  <2> QED
    BY <2>1, <2>2
<1>2. ASSUME Before PROVE Left' = Left /\ Steps' < Steps
  BY <1>0, <1>2 DEF Before, scene, Left, Steps
<1>3. ASSUME After PROVE Left' = Left /\ Steps' < Steps
  <2>1. pc = "after" /\ pc' = "clear" /\ goal' = goal /\ todo' = Listed
    BY <1>3 DEF After, scene
  <2>2. Cardinality(Listed) \in Nat /\ Cardinality(Listed) =< Cardinality(Rnti)
    BY <1>0, SceneAssumption, FS_Subset, FS_CardinalityType
  <2>3. Cardinality(todo') \in Nat /\ Cardinality(todo') =< Cardinality(Rnti)
    BY <2>1, <2>2
  <2> QED
    BY <1>0, <2>1, <2>3 DEF Left, Steps
<1>4. ASSUME NEW r \in Rnti, ClearRole(r) \/ ClearRoleFails(r) PROVE Left' = Left /\ Steps' < Steps
  <2>1. pc = "clear" /\ pc' = "clear" /\ goal' = goal /\ r \in todo /\ todo' = todo \ {r}
    BY <1>4 DEF ClearRole, ClearRoleFails, scene
  <2>2. Cardinality(todo \ {r}) = Cardinality(todo) - 1
    BY <1>0, <2>1, FS_RemoveElement
  <2>3. Cardinality(todo') = Cardinality(todo) - 1
    BY <2>1, <2>2
  <2> QED
    BY <1>0, <2>1, <2>3 DEF Left, Steps
<1>5. ASSUME Crown \/ CrownFails PROVE Left' = Left /\ Steps' < Steps
  BY <1>0, <1>5 DEF Crown, CrownFails, scene, Left, Steps
<1>6. ASSUME Rival PROVE Left' = Left /\ Steps' < Steps
  BY <1>6 DEF Rival, scene, Left, Steps
<1>7. ASSUME ClaimEnds PROVE Left' = Left /\ Steps' < Steps
  BY <1>7 DEF ClaimEnds, scene, Left, Steps, TypeInv, CallTyped
<1> QED
  BY <1>1, <1>2, <1>3, <1>4, <1>5, <1>6, <1>7 DEF Claiming

LEMMA ToolNearer ==
  ASSUME TypeInv, Tool
  PROVE  Left' < Left \/ (Left' = Left /\ Steps' < Steps)
<1>0. Cardinality(Rnti) \in Nat /\ CallTyped
  BY Sizes DEF TypeInv
<1>1. ASSUME Found PROVE Left' = Left /\ Steps' < Steps
  <2>1. goal \in {"state", "bind", "posture"}
    BY <1>0, <1>1 DEF Found, CallTyped
  <2> QED
    BY <1>0, <1>1, <2>1 DEF Found, Left, Steps
<1>2. ASSUME ClaimFirst PROVE Left' = Left /\ Steps' < Steps
  BY <1>0, <1>2 DEF ClaimFirst, Left, Steps
<1>3. ASSUME NotFound PROVE Left' < Left \/ (Left' = Left /\ Steps' < Steps)
  <2>1. CASE goal = "bind"
    BY <1>3, <2>1 DEF NotFound, ResolvedNone, Left
  <2>2. CASE goal # "bind"
    <3>1. goal' = goal /\ pc' \in {"state", "done"} /\ pc = "resolve"
      BY <1>3, <2>2 DEF NotFound, ResolvedNone
    <3> QED
      BY <1>0, <3>1 DEF Left, Steps
  <2> QED
    BY <2>1, <2>2
<1>4. ASSUME GetState PROVE Left' < Left
  BY <1>0, <1>4 DEF GetState, CallTyped, Left
<1>5. ASSUME SetMode \/ SetModeUnacked \/ SetModeTimesOut PROVE Left' < Left
  BY <1>0, <1>5 DEF SetMode, SetModeUnacked, SetModeTimesOut, ToPosture, CallTyped, Left
<1>6. ASSUME SetPosture PROVE Left' = Left /\ Steps' < Steps
  BY <1>6 DEF SetPosture, scene, Left, Steps
<1>7. ASSUME Reply PROVE Left' < Left \/ (Left' = Left /\ Steps' < Steps)
  BY <1>0, <1>7 DEF Reply, CallTyped, Left, Steps
<1> QED
  BY <1>1, <1>2, <1>3, <1>4, <1>5, <1>6, <1>7, ClaimingNearer DEF Tool

\* However many UEs there are, a tool call makes as many steps as its distance
\* from the end at most: every one of them brings it nearer.
THEOREM SceneToolsConclude == Spec => ToolsConclude
<1>1. ASSUME TypeInv, [Next]_vars PROVE [Tool => Distance' \in Nat /\ Distance' < Distance]_vars
  BY <1>1, StepTypes, ToolNearer, Nearer
<1> QED
  BY <1>1, InitTypes, StepTypes, PTL DEF Spec, ToolsConclude
=============================================================================
