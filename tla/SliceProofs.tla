---------------------------- MODULE SliceProofs ----------------------------
(***************************************************************************)
(* Proofs about SliceControl for any number of threads, nodes, UEs and     *)
(* requests, and whatever calls time out or raise.                         *)
(***************************************************************************)
EXTENDS SliceControl, FiniteSetTheorems, TLAPS

USE SliceAssumption DEF None

Busy(t) == pc[t] # "idle"

(***************************************************************************)
(* A thread that is not idle serves a request, with an id of its own; a    *)
(* request that binds names a UE and a binding; a thread is at the         *)
(* registry only for a binding that was acknowledged.                      *)
(***************************************************************************)
Serves ==
  /\ \A t \in Thread : IF Busy(t) THEN req[t] \in Request ELSE req[t] = Idle /\ ~acked[t]
  /\ \A t \in Thread : Busy(t) => req[t].id =< requests
  /\ \A t, u \in Thread : Busy(t) /\ Busy(u) /\ req[t].id = req[u].id => t = u
  /\ \A t \in Thread : Busy(t) /\ req[t].cmd \in BindCmd => req[t].rnti \in Rnti /\ req[t].bind \in Bind
  /\ \A t \in Thread : pc[t] \in {"touch", "profile", "state"} => req[t].cmd \in BindCmd /\ acked[t]

\* Calls have the id of a request of the past or the present.
CallIds ==
  \A c \in calls : /\ c.id =< requests
                   /\ c.cmd \in BindCmd => c.rnti \in Rnti /\ c.bind \in Bind

TypeInv == TypeOK /\ Serves /\ CallIds

\* A request that is served.
LEMMA BusyRequest ==
  ASSUME TypeInv, NEW t \in Thread, pc[t] # "idle"
  PROVE  /\ req[t] \in Request
         /\ req[t].id \in 1 .. MaxRequests /\ req[t].cmd \in Cmd
         /\ req[t].rnti \in Ue /\ req[t].bind \in Slot
         /\ req[t].cmd \in BindCmd => req[t].rnti \in Rnti /\ req[t].bind \in Bind
<1>1. req[t] \in Request
  BY DEF TypeInv, Serves, Busy
<1> QED
  BY <1>1 DEF TypeInv, Serves, Busy, Request

\* The answer to a request.
LEMMA AnswerType ==
  ASSUME TypeInv, NEW t \in Thread, pc[t] # "idle", NEW ok \in BOOLEAN, Answer(t, ok)
  PROVE  /\ reply' \in Reply \cup {NoReply}
         /\ req' \in [Thread -> Request \cup {Idle}]
         /\ acked' \in [Thread -> BOOLEAN]
         /\ pc' \in [Thread -> {"idle", "lock", "send", "wait", "touch", "profile", "state"}]
<1>1. reply' \in Reply
  BY BusyRequest DEF Answer, Reply
<1> QED
  BY <1>1 DEF Answer, TypeInv, TypeOK

\* An answer leaves the other threads alone.
LEMMA AnswerServes ==
  ASSUME TypeInv, NEW t \in Thread, NEW ok, Answer(t, ok), requests' = requests
  PROVE  Serves'
<1>1. /\ pc' = [pc EXCEPT ![t] = "idle"] /\ req' = [req EXCEPT ![t] = Idle]
      /\ acked' = [acked EXCEPT ![t] = FALSE]
  BY DEF Answer
<1>2. /\ pc'[t] = "idle" /\ req'[t] = Idle /\ acked'[t] = FALSE
      /\ \A u \in Thread : u # t => pc'[u] = pc[u] /\ req'[u] = req[u] /\ acked'[u] = acked[u]
  BY <1>1 DEF TypeInv, TypeOK
<1> QED
  BY <1>2 DEF TypeInv, Serves, Busy

\* A thread goes on with its request.
LEMMA GoesOnServes ==
  ASSUME TypeInv, NEW t \in Thread, pc[t] # "idle", NEW stage, stage # "idle",
         pc' = [pc EXCEPT ![t] = stage], req' = req, requests' = requests,
         acked' = acked \/ \E ack : acked' = [acked EXCEPT ![t] = @ \/ ack],
         stage \in {"touch", "profile", "state"} => req[t].cmd \in BindCmd /\ acked'[t]
  PROVE  Serves'
<1>1. /\ pc'[t] = stage
      /\ \A u \in Thread : u # t => pc'[u] = pc[u] /\ acked'[u] = acked[u]
  BY DEF TypeInv, TypeOK
<1>2. \A u \in Thread : Busy(u)' <=> Busy(u)
  BY <1>1 DEF Busy
<1>3. \A u \in Thread : ~Busy(u) => u # t
  BY DEF Busy
<1> QED
  BY <1>1, <1>2, <1>3 DEF TypeInv, Serves, Busy

LEMMA InitTypeInv == Init => TypeInv
<1> SUFFICES ASSUME Init PROVE TypeInv
  OBVIOUS
<1>1. TypeOK
  <2>1. turn \in [Thread -> 1 .. NumNodes + 1]
    BY DEF Init
  <2>2. /\ keepalive \in [{"assoc", "slices"} -> 0 .. MaxRequests]
        /\ requests \in 0 .. MaxRequests
    BY DEF Init
  <2>3. /\ registry \in [Rnti -> [bind : Slot, profile : Slot]]
        /\ assoc \in [Node -> [Rnti -> Slot]] /\ activeMode \in Slot
    BY DEF Init, Slot
  <2>4. /\ pc \in [Thread -> {"idle", "lock", "send", "wait", "touch", "profile", "state"}]
        /\ req \in [Thread -> Request \cup {Idle}] /\ acked \in [Thread -> BOOLEAN]
    BY DEF Init
  <2>5. /\ lock \in Thread \cup {None} /\ calls \subseteq Call
        /\ applied \subseteq Node \X Rnti \X Bind /\ reply \in Reply \cup {NoReply}
        /\ heard \in [Rnti -> Slot] /\ faults \in BOOLEAN
    BY DEF Init, Slot
  <2> QED
    BY <2>1, <2>2, <2>3, <2>4, <2>5 DEF TypeOK
<1>2. Serves
  BY DEF Init, Serves, Busy
<1>3. CallIds
  BY DEF Init, CallIds
<1> QED
  BY <1>1, <1>2, <1>3 DEF TypeInv

\* A new request.
LEMMA BeginType ==
  ASSUME TypeInv, NEW t \in Thread, NEW cmd \in Cmd, NEW r \in Ue, NEW b \in Slot,
         cmd \in BindCmd => r \in Rnti /\ b \in Bind, Begin(t, cmd, r, b)
  PROVE  TypeInv'
<1> DEFINE new == [id |-> requests', cmd |-> cmd, rnti |-> r, bind |-> b]
<1>1. /\ requests \in Nat /\ requests' = requests + 1 /\ requests' \in 1 .. MaxRequests
      /\ pc[t] = "idle"
  BY DEF TypeInv, TypeOK, Begin
<1>2. new \in Request
  BY <1>1 DEF Request
<1>3. /\ req' = [req EXCEPT ![t] = new] /\ pc' = [pc EXCEPT ![t] = "lock"]
      /\ new.id = requests + 1 /\ new.cmd = cmd /\ new.rnti = r /\ new.bind = b
      /\ acked' = acked /\ calls' = calls
  BY <1>1 DEF Begin
<1> HIDE DEF new
<1>4. TypeOK'
  <2>2. keepalive' \in [{"assoc", "slices"} -> 0 .. MaxRequests]
    <3>1. requests' \in 0 .. MaxRequests
      BY <1>1
    <3> QED
      BY <3>1 DEF TypeInv, TypeOK, Begin
  <2>3. req' \in [Thread -> Request \cup {Idle}]
    BY <1>2, <1>3 DEF TypeInv, TypeOK
  <2>4. pc' \in [Thread -> {"idle", "lock", "send", "wait", "touch", "profile", "state"}]
    BY <1>3 DEF TypeInv, TypeOK
  <2>5. requests' \in 0 .. MaxRequests
    BY <1>1
  <2> QED
    BY <2>2, <2>3, <2>4, <2>5 DEF TypeInv, TypeOK, Begin, shown
<1>5. /\ pc'[t] = "lock" /\ req'[t] = new
      /\ \A u \in Thread : u # t => pc'[u] = pc[u] /\ req'[u] = req[u]
  BY <1>3 DEF TypeInv, TypeOK
<1>6. \A u \in Thread : u # t => (Busy(u)' <=> Busy(u))
  BY <1>5 DEF Busy
<1>7. \A u \in Thread : Busy(u) => req[u].id =< requests /\ req[u].id \in Nat /\ u # t
  BY <1>1, BusyRequest DEF TypeInv, Serves, Busy
<1>8. Serves'
  <2>1. \A u \in Thread : IF Busy(u)' THEN req'[u] \in Request ELSE req'[u] = Idle /\ ~acked'[u]
    BY <1>2, <1>3, <1>5, <1>6 DEF TypeInv, Serves, Busy
  <2>2. \A u \in Thread : Busy(u)' => req'[u].id =< requests'
    BY <1>1, <1>3, <1>5, <1>6, <1>7
  <2>3. \A u, v \in Thread : Busy(u)' /\ Busy(v)' /\ req'[u].id = req'[v].id => u = v
    <3>1. \A u \in Thread : u # t /\ Busy(u)' => req'[u].id # requests + 1
      BY <1>1, <1>5, <1>6, <1>7
    <3>2. req'[t].id = requests + 1
      BY <1>3, <1>5
    <3>3. \A u, v \in Thread : Busy(u) /\ Busy(v) /\ req[u].id = req[v].id => u = v
      BY DEF TypeInv, Serves
    <3> QED
      BY <1>5, <1>6, <3>1, <3>2, <3>3
  <2>4. \A u \in Thread : Busy(u)' /\ req'[u].cmd \in BindCmd =>
          req'[u].rnti \in Rnti /\ req'[u].bind \in Bind
    BY <1>3, <1>5, <1>6 DEF TypeInv, Serves
  <2>5. \A u \in Thread : pc'[u] \in {"touch", "profile", "state"} =>
          req'[u].cmd \in BindCmd /\ acked'[u]
    BY <1>3, <1>5 DEF TypeInv, Serves
  <2> QED
    BY <2>1, <2>2, <2>3, <2>4, <2>5 DEF Serves
<1>9. CallIds'
  <2>1. \A c \in calls : c.id \in Nat /\ c.id =< requests
    BY DEF TypeInv, TypeOK, CallIds, Call
  <2>2. \A c \in calls : c.id =< requests'
    BY <1>1, <2>1
  <2> QED
    BY <1>3, <2>2 DEF TypeInv, CallIds
<1> QED
  BY <1>4, <1>8, <1>9 DEF TypeInv

\* The call to the next node.
NewCall(t) ==
  [id |-> req[t].id, node |-> turn[t], cmd |-> req[t].cmd, rnti |-> req[t].rnti,
   bind |-> req[t].bind, stage |-> "started", awaited |-> TRUE]

LEMMA SendType ==
  ASSUME TypeInv, NEW t \in Thread, Send(t)
  PROVE  TypeInv'
<1>1. NewCall(t) \in Call
  BY BusyRequest DEF NewCall, Call, Stage, Send
<1>2. calls' = calls \cup {NewCall(t)}
  BY DEF Send, NewCall
<1>3. turn' \in [Thread -> 1 .. NumNodes + 1]
  BY DEF TypeInv, TypeOK, Send, Node
<1>4. TypeOK'
  BY <1>1, <1>2, <1>3 DEF TypeInv, TypeOK, Send, server, shown
<1>5. Serves'
  BY GoesOnServes DEF Send, server
<1>6. CallIds'
  <2>1. NewCall(t).id =< requests
    BY DEF NewCall, TypeInv, Serves, Busy, Send
  <2>2. NewCall(t).cmd \in BindCmd => NewCall(t).rnti \in Rnti /\ NewCall(t).bind \in Bind
    BY BusyRequest DEF NewCall, Send
  <2>3. requests' = requests
    BY DEF Send, server
  <2> QED
    BY <1>2, <2>1, <2>2, <2>3 DEF TypeInv, CallIds
<1> QED
  BY <1>4, <1>5, <1>6 DEF TypeInv

\* What an awaited call turns into when its thread is done with the node.
LEMMA ProceedType ==
  ASSUME TypeInv, NEW t \in Thread, pc[t] = "wait", NEW ack \in BOOLEAN, Proceed(t, ack),
         NEW c \in calls, faults' \in BOOLEAN,
         \/ calls' = calls \ {c}
         \/ calls' = (calls \ {c}) \cup {[c EXCEPT !.awaited = FALSE]}
  PROVE  TypeInv'
<1>1. c \in Call
  BY DEF TypeInv, TypeOK
<1> DEFINE left == [c EXCEPT !.awaited = FALSE]
<1>2. left \in Call /\ left.id = c.id /\ left.cmd = c.cmd /\ left.rnti = c.rnti /\ left.bind = c.bind
  BY <1>1 DEF Call
<1> HIDE DEF left
<1>3. \A d \in calls' : d \in calls \/ d = left
  BY DEF left
<1>4. TypeOK'
  <2>1. calls' \subseteq Call
    BY <1>2, <1>3 DEF TypeInv, TypeOK
  <2>2. acked' \in [Thread -> BOOLEAN]
    BY DEF TypeInv, TypeOK, Proceed
  <2> QED
    BY <2>1, <2>2 DEF TypeInv, TypeOK, Proceed, shown
<1>5. Serves'
  BY GoesOnServes DEF Proceed
<1>6. CallIds'
  <2>1. requests' = requests
    BY DEF Proceed
  <2> QED
    BY <1>2, <1>3, <2>1 DEF TypeInv, CallIds
<1> QED
  BY <1>4, <1>5, <1>6 DEF TypeInv

LEMMA AwaitedType ==
  ASSUME TypeInv, NEW t \in Thread, Return(t) \/ Raise(t) \/ TimeOut(t)
  PROVE  TypeInv'
<1>1. CASE Return(t)
  <2>1. PICK c \in calls : Awaits(t, c) /\ calls' = calls \ {c} /\ Proceed(t, TRUE) /\ UNCHANGED faults
    BY <1>1 DEF Return
  <2> QED
    BY <2>1, ProceedType DEF Awaits, TypeInv, TypeOK
<1>2. CASE Raise(t)
  <2>1. PICK c \in calls :
          /\ Awaits(t, c) /\ Proceed(t, FALSE) /\ faults' = TRUE
          /\ \/ calls' = calls \ {c}
             \/ calls' = (calls \ {c}) \cup {[c EXCEPT !.awaited = FALSE]}
    BY <1>2 DEF Raise
  <2> QED
    BY <2>1, ProceedType DEF Awaits
<1>3. CASE TimeOut(t)
  <2>1. PICK c \in calls :
          /\ Awaits(t, c) /\ Proceed(t, FALSE) /\ faults' = TRUE
          /\ calls' = (calls \ {c}) \cup
               IF c.stage = "applied" THEN {} ELSE {[c EXCEPT !.awaited = FALSE]}
    BY <1>3 DEF TimeOut
  <2>2. \/ calls' = calls \ {c}
        \/ calls' = (calls \ {c}) \cup {[c EXCEPT !.awaited = FALSE]}
    BY <2>1
  <2> QED
    BY <2>1, <2>2, ProceedType DEF Awaits
<1> QED
  BY <1>1, <1>2, <1>3

\* The steps after the last node.
LEMMA RecordType ==
  ASSUME TypeInv, NEW t \in Thread,
         Acquire(t) \/ Failed(t) \/ Bound(t) \/ Touch(t) \/ TouchProfile(t) \/ SetActiveMode(t)
  PROVE  TypeInv'
<1>1. /\ pc[t] # "idle" /\ calls' = calls /\ requests' = requests
  BY DEF Acquire, Failed, Bound, Touch, TouchProfile, SetActiveMode, server
<1>2. CallIds'
  BY <1>1 DEF TypeInv, CallIds
<1>3. pc[t] \in {"touch", "profile", "state"} => req[t].rnti \in Rnti /\ req[t].bind \in Bind
  BY <1>1, BusyRequest DEF TypeInv, Serves
<1>4. CASE Acquire(t)
  <2>1. TypeOK'
    BY <1>4 DEF TypeInv, TypeOK, Acquire, server, shown
  <2>2. Serves'
    BY <1>1, <1>4, GoesOnServes DEF Acquire, server
  <2> QED
    BY <1>2, <2>1, <2>2 DEF TypeInv
<1>5. CASE Failed(t)
  <2>1. PICK ok \in BOOLEAN : Answer(t, ok)
    <3>1. Answer(t, req[t].cmd \in {"set_profile", "set_mode"})
      BY <1>5 DEF Failed
    <3>2. (req[t].cmd \in {"set_profile", "set_mode"}) \in BOOLEAN
      OBVIOUS
    <3> QED
      BY <3>1, <3>2
  <2>2. turn' \in [Thread -> 1 .. NumNodes + 1]
    BY <1>5 DEF TypeInv, TypeOK, Failed
  <2>3. TypeOK'
    BY <1>1, <1>5, <2>1, <2>2, AnswerType DEF TypeInv, TypeOK, Failed, shown
  <2>4. Serves'
    BY <1>1, <2>1, AnswerServes
  <2> QED
    BY <1>2, <2>3, <2>4 DEF TypeInv
<1>6. CASE Bound(t)
  <2>1. turn' \in [Thread -> 1 .. NumNodes + 1]
    BY <1>6 DEF TypeInv, TypeOK, Bound
  <2>2. CASE Answer(t, TRUE)
    <3>1. TypeOK'
      BY <1>1, <1>6, <2>1, <2>2, AnswerType DEF TypeInv, TypeOK, Bound, shown
    <3> QED
      BY <1>1, <1>2, <2>2, <3>1, AnswerServes DEF TypeInv
  <2>3. CASE /\ req[t].cmd \in BindCmd /\ acked[t]
             /\ pc' = [pc EXCEPT ![t] = "touch"]
             /\ UNCHANGED <<req, acked, reply>>
    <3>1. TypeOK'
      BY <1>6, <2>1, <2>3 DEF TypeInv, TypeOK, Bound, shown
    <3> QED
      BY <1>1, <1>2, <2>3, <3>1, GoesOnServes DEF TypeInv
  <2> QED
    BY <1>6, <2>2, <2>3 DEF Bound
<1>7. CASE Touch(t)
  <2>1. registry' \in [Rnti -> [bind : Slot, profile : Slot]]
    <3>1. registry \in [Rnti -> [bind : Slot, profile : Slot]]
      BY DEF TypeInv, TypeOK
    <3>2. req[t].rnti \in Rnti /\ req[t].bind \in Slot
      BY <1>3, <1>7 DEF Touch, Slot
    <3>3. registry[req[t].rnti] \in [bind : Slot, profile : Slot]
      BY <3>1, <3>2
    <3>4. [registry[req[t].rnti] EXCEPT !.bind = req[t].bind] \in [bind : Slot, profile : Slot]
      BY <3>2, <3>3
    <3>5. registry' = [registry EXCEPT ![req[t].rnti] =
                         [registry[req[t].rnti] EXCEPT !.bind = req[t].bind]]
      BY <1>7 DEF Touch
    <3> QED
      BY <3>1, <3>4, <3>5
  <2>2. CASE Answer(t, TRUE)
    <3>1. TypeOK'
      BY <1>1, <1>7, <2>1, <2>2, AnswerType DEF TypeInv, TypeOK, Touch
    <3> QED
      BY <1>1, <1>2, <2>2, <3>1, AnswerServes DEF TypeInv
  <2>3. CASE pc' = [pc EXCEPT ![t] = "profile"] /\ UNCHANGED <<req, acked, reply>>
    <3>1. TypeOK'
      BY <1>7, <2>1, <2>3 DEF TypeInv, TypeOK, Touch
    <3>2. req[t].cmd \in BindCmd /\ acked[t]
      BY <1>7 DEF Touch, TypeInv, Serves
    <3> QED
      BY <1>1, <1>2, <2>3, <3>1, <3>2, GoesOnServes DEF TypeInv
  <2> QED
    BY <1>7, <2>2, <2>3 DEF Touch
<1>8. CASE TouchProfile(t)
  <2>1. registry' \in [Rnti -> [bind : Slot, profile : Slot]]
    BY <1>3, <1>8 DEF TypeInv, TypeOK, TouchProfile, Slot
  <2>2. CASE Answer(t, TRUE)
    <3>1. TypeOK'
      BY <1>1, <1>8, <2>1, <2>2, AnswerType DEF TypeInv, TypeOK, TouchProfile
    <3> QED
      BY <1>1, <1>2, <2>2, <3>1, AnswerServes DEF TypeInv
  <2>3. CASE pc' = [pc EXCEPT ![t] = "state"] /\ UNCHANGED <<req, acked, reply>>
    <3>1. TypeOK'
      BY <1>8, <2>1, <2>3 DEF TypeInv, TypeOK, TouchProfile
    <3>2. req[t].cmd \in BindCmd /\ acked[t]
      BY <1>8 DEF TouchProfile, TypeInv, Serves
    <3> QED
      BY <1>1, <1>2, <2>3, <3>1, <3>2, GoesOnServes DEF TypeInv
  <2> QED
    BY <1>8, <2>2, <2>3 DEF TouchProfile
<1>9. CASE SetActiveMode(t)
  <2>1. Answer(t, TRUE)
    BY <1>9 DEF SetActiveMode
  <2>2. activeMode' \in Slot
    BY <1>3, <1>9 DEF SetActiveMode, Slot
  <2>3. TypeOK'
    BY <1>1, <1>9, <2>1, <2>2, AnswerType DEF TypeInv, TypeOK, SetActiveMode
  <2> QED
    BY <1>1, <1>2, <2>1, <2>3, AnswerServes DEF TypeInv
<1> QED
  BY <1>4, <1>5, <1>6, <1>7, <1>8, <1>9

\* What a step of a call leaves in its place.
LEMMA CallStepLeaves ==
  ASSUME TypeInv, NEW c \in calls, CallStep(c)
  PROVE  \E d \in Call :
           /\ d.id = c.id /\ d.cmd = c.cmd /\ d.node = c.node /\ d.awaited = c.awaited
           /\ d.cmd \in BindCmd => d.rnti \in Rnti /\ d.bind \in Bind
           /\ InCalls(c, {d}) \/ InCalls(c, {})
           /\ (d.rnti = c.rnti /\ d.bind = c.bind) \/ EncodeFreed(c)
           /\ d.stage \in {"started", "dangling", "sent", "applied"}
           /\ d.stage = "dangling" => Collect(c)
           /\ d.stage = "applied" => Deliver(c) /\ c.awaited
<1>1. /\ c \in Call
      /\ c.cmd \in BindCmd => c.rnti \in Rnti /\ c.bind \in Bind
  BY DEF TypeInv, TypeOK, CallIds
<1>2. CASE Encode(c)
  <2> DEFINE d == [c EXCEPT !.stage = "sent"]
  <2>1. d \in Call /\ d.stage = "sent"
    BY <1>1 DEF Call, Stage
  <2>2. InCalls(c, {d})
    BY <1>2 DEF Encode
  <2> QED
    BY <1>1, <2>1, <2>2 DEF Call
<1>3. CASE Collect(c)
  <2> DEFINE d == [c EXCEPT !.stage = "dangling"]
  <2>1. d \in Call /\ d.stage = "dangling"
    BY <1>1 DEF Call, Stage
  <2>2. InCalls(c, {d})
    BY <1>3 DEF Collect
  <2> QED
    BY <1>1, <1>3, <2>1, <2>2 DEF Call
<1>4. CASE EncodeFreed(c)
  <2>1. CASE c.cmd \in BindCmd
    <3>1. PICK r \in Rnti, b \in Bind :
            InCalls(c, {[c EXCEPT !.stage = "sent", !.rnti = r, !.bind = b]})
      BY <1>4, <2>1 DEF EncodeFreed
    <3> DEFINE d == [c EXCEPT !.stage = "sent", !.rnti = r, !.bind = b]
    <3>2. d \in Call /\ d.stage = "sent" /\ d.rnti = r /\ d.bind = b
      BY <1>1 DEF Call, Stage, Ue, Slot
    <3> QED
      BY <1>1, <1>4, <3>1, <3>2 DEF Call
  <2>2. CASE c.cmd \notin BindCmd
    <3> DEFINE d == [c EXCEPT !.stage = "sent"]
    <3>1. d \in Call /\ d.stage = "sent"
      BY <1>1 DEF Call, Stage
    <3>2. InCalls(c, {d})
      BY <1>4, <2>2 DEF EncodeFreed
    <3> QED
      BY <1>1, <2>2, <3>1, <3>2 DEF Call
  <2> QED
    BY <2>1, <2>2
<1>5. CASE Deliver(c)
  <2>1. CASE c.awaited
    <3> DEFINE d == [c EXCEPT !.stage = "applied"]
    <3>1. d \in Call /\ d.stage = "applied"
      BY <1>1 DEF Call, Stage
    <3>2. InCalls(c, {d})
      BY <1>5, <2>1 DEF Deliver
    <3> QED
      BY <1>1, <1>5, <2>1, <3>1, <3>2 DEF Call
  <2>2. CASE ~c.awaited
    <3>1. InCalls(c, {}) /\ c.stage = "sent"
      BY <1>5, <2>2 DEF Deliver
    <3> QED
      BY <1>1, <3>1
  <2> QED
    BY <2>1, <2>2
<1>6. CASE Lose(c)
  <2> DEFINE d == [c EXCEPT !.stage = "sent"]
  <2>1. d \in Call /\ d.stage = "sent"
    BY <1>1 DEF Call, Stage
  <2>2. InCalls(c, {})
    BY <1>6 DEF Lose
  <2> QED
    BY <1>1, <2>1, <2>2 DEF Call
<1> QED
  BY <1>2, <1>3, <1>4, <1>5, <1>6 DEF CallStep

LEMMA CallStepType ==
  ASSUME TypeInv, NEW c \in calls, CallStep(c)
  PROVE  TypeInv'
<1>1. PICK d \in Call :
        /\ d.id = c.id
        /\ d.cmd \in BindCmd => d.rnti \in Rnti /\ d.bind \in Bind
        /\ InCalls(c, {d}) \/ InCalls(c, {})
  BY CallStepLeaves
<1>2. /\ calls' \subseteq calls \cup {d}
      /\ UNCHANGED <<pc, server, turn, lock, shown, heard, reply, faults>>
  BY <1>1 DEF InCalls
<1>3. /\ assoc' \in [Node -> [Rnti -> Slot]] /\ applied' \subseteq Node \X Rnti \X Bind
      /\ applied \subseteq applied'
  <2>1. assoc \in [Node -> [Rnti -> Slot]] /\ applied \subseteq Node \X Rnti \X Bind
    BY DEF TypeInv, TypeOK
  <2>2. CASE UNCHANGED <<assoc, applied>>
    BY <2>1, <2>2
  <2>3. CASE /\ Deliver(c) /\ c.cmd \in BindCmd
             /\ assoc' = [assoc EXCEPT ![c.node][c.rnti] = c.bind]
             /\ applied' = applied \cup {<<c.node, c.rnti, c.bind>>}
    <3>1. c.node \in Node /\ c.rnti \in Rnti /\ c.bind \in Bind /\ c.bind \in Slot
      BY <2>3 DEF TypeInv, TypeOK, CallIds, Call, Slot
    <3>2. [assoc[c.node] EXCEPT ![c.rnti] = c.bind] \in [Rnti -> Slot]
      BY <2>1, <3>1
    <3>3. assoc' = [assoc EXCEPT ![c.node] = [assoc[c.node] EXCEPT ![c.rnti] = c.bind]]
      BY <2>3
    <3>4. assoc' \in [Node -> [Rnti -> Slot]]
      BY <2>1, <3>2, <3>3
    <3> QED
      BY <2>1, <2>3, <3>1, <3>4
  <2> QED
    BY <2>2, <2>3 DEF CallStep, Encode, Collect, EncodeFreed, Deliver, Lose
<1>4. TypeOK'
  <2>1. calls' \subseteq Call
    BY <1>2 DEF TypeInv, TypeOK
  <2> QED
    BY <1>2, <1>3, <2>1 DEF TypeInv, TypeOK, server, shown
<1>5. Serves'
  BY <1>2 DEF TypeInv, Serves, Busy, server
<1>6. CallIds'
  <2>1. requests' = requests /\ d.id =< requests
    BY <1>1, <1>2 DEF TypeInv, CallIds, server
  <2> QED
    BY <1>1, <1>2, <2>1 DEF TypeInv, CallIds
<1> QED
  BY <1>4, <1>5, <1>6 DEF TypeInv

\* A step of the watcher, of pruning or of a reset, and one of nobody, is seen
\* in UE_REGISTRY and in the cache of the watcher only.
Aside == UNCHANGED <<pc, req, acked, keepalive, requests, turn, lock, calls, activeMode, assoc,
                     applied, reply, faults>>

LEMMA WatchAside ==
  ASSUME Watch \/ UNCHANGED vars
  PROVE  Aside
BY DEF Aside, Watch, Hear, UpdateSchedulerRnti, PruneUes, ResetUes, Forget, vars, server, shown

\* What the watcher reads and what it, pruning or a reset writes.
LEMMA WatchWrites ==
  ASSUME TypeOK, Watch
  PROVE  /\ \A r \in Rnti : heard'[r] \in {heard[r], assoc[Watched][r]}
         /\ \A r \in Rnti : registry'[r].bind \in {registry[r].bind, heard[r], None}
         /\ heard' \in [Rnti -> Slot]
         /\ registry' \in [Rnti -> [bind : Slot, profile : Slot]]
<1>1. /\ assoc[Watched] \in [Rnti -> Slot] /\ heard \in [Rnti -> Slot] /\ None \in Slot
      /\ registry \in [Rnti -> [bind : Slot, profile : Slot]]
  BY DEF TypeOK, Slot
<1>2. ASSUME NEW r \in Rnti, Hear(r)
      PROVE  /\ registry' = registry /\ heard' \in [Rnti -> Slot]
             /\ \A s \in Rnti : heard'[s] \in {heard[s], assoc[Watched][s]}
  BY <1>1, <1>2 DEF Hear, shown
<1>3. ASSUME NEW r \in Rnti, UpdateSchedulerRnti(r)
      PROVE  /\ heard' = heard /\ registry' \in [Rnti -> [bind : Slot, profile : Slot]]
             /\ \A s \in Rnti : registry'[s].bind \in {registry[s].bind, heard[s]}
  <2> DEFINE entry == [registry[r] EXCEPT !.bind = heard[r]]
  <2>1. registry[r] \in [bind : Slot, profile : Slot] /\ heard[r] \in Slot
    BY <1>1
  <2>2. entry \in [bind : Slot, profile : Slot] /\ entry.bind = heard[r]
    BY <2>1
  <2>3. registry' = [registry EXCEPT ![r] = entry] /\ heard' = heard
    BY <1>3 DEF UpdateSchedulerRnti
  <2> HIDE DEF entry
  <2>4. /\ registry' \in [Rnti -> [bind : Slot, profile : Slot]]
        /\ registry'[r] = entry /\ \A s \in Rnti : s # r => registry'[s] = registry[s]
    BY <1>1, <2>2, <2>3
  <2> QED
    BY <2>2, <2>3, <2>4
<1>4. ASSUME NEW S \in SUBSET Rnti, Forget(S)
      PROVE  /\ heard' = heard /\ registry' \in [Rnti -> [bind : Slot, profile : Slot]]
             /\ \A s \in Rnti : registry'[s].bind \in {registry[s].bind, None}
  BY <1>1, <1>4 DEF Forget
<1> QED
  BY <1>1, <1>2, <1>3, <1>4 DEF Watch, PruneUes, ResetUes

LEMMA StepTypeInv ==
  ASSUME TypeInv, [Next]_vars
  PROVE  TypeInv'
<1>1. ASSUME NEW t \in Thread, NEW cmd \in Cmds \cap BindCmd, NEW r \in Rnti, NEW b \in Bind,
             Begin(t, cmd, r, b)
      PROVE  TypeInv'
  BY <1>1, BeginType DEF Ue, Slot
<1>2. ASSUME NEW t \in Thread, NEW cmd \in Cmds \ BindCmd, Begin(t, cmd, None, None)
      PROVE  TypeInv'
  BY <1>2, BeginType DEF Ue, Slot
<1>3. ASSUME NEW t \in Thread, Acquire(t) \/ Handle(t)
      PROVE  TypeInv'
  BY <1>3, SendType, AwaitedType, RecordType DEF Handle
<1>4. ASSUME NEW c \in calls, CallStep(c) PROVE TypeInv'
  BY <1>4, CallStepType
<1>5. ASSUME Watch \/ UNCHANGED vars PROVE TypeInv'
  <2>1. Aside
    BY <1>5, WatchAside
  <2>2. heard' \in [Rnti -> Slot] /\ registry' \in [Rnti -> [bind : Slot, profile : Slot]]
    BY <1>5, WatchWrites DEF TypeInv, TypeOK, vars, shown
  <2>3. TypeOK'
    BY <2>1, <2>2 DEF TypeInv, TypeOK, Aside
  <2>4. Serves' /\ CallIds'
    BY <2>1 DEF TypeInv, Serves, CallIds, Busy, Aside
  <2> QED
    BY <2>3, <2>4 DEF TypeInv
<1> QED
  BY <1>1, <1>2, <1>3, <1>4, <1>5 DEF Next

\* Every variable keeps its type.
THEOREM SliceTypeOK == Spec => []TypeOK
<1>1. TypeInv /\ [Next]_vars => TypeInv'
  BY StepTypeInv
<1>2. TypeInv => TypeOK
  BY DEF TypeInv
<1> QED
  BY <1>1, <1>2, InitTypeInv, PTL DEF Spec

(***************************************************************************)
(* What is shown was applied.  The array of a call that is awaited is not  *)
(* freed, so the node carries out what its thread asked for; and a table   *)
(* with room for every UE drops no association.                            *)
(***************************************************************************)

\* An awaited call carries the request of its thread.
CallsMatch ==
  \A c \in calls, t \in Thread :
    c.awaited /\ Busy(t) /\ c.id = req[t].id =>
      /\ c.cmd = req[t].cmd /\ c.rnti = req[t].rnti /\ c.bind = req[t].bind
      /\ c.stage # "dangling"
      /\ c.stage = "applied" /\ c.cmd \in BindCmd => <<c.node, c.rnti, c.bind>> \in applied

\* A thread has an acknowledgement for what a node carried out.
AckedApplied ==
  \A t \in Thread :
    acked[t] /\ Busy(t) /\ req[t].cmd \in BindCmd =>
      \E n \in Node : <<n, req[t].rnti, req[t].bind>> \in applied

\* What a node has bound was applied, and so was what the watcher read.
BoundApplied ==
  /\ \A n \in Node, r \in Rnti : assoc[n][r] # None => <<n, r, assoc[n][r]>> \in applied
  /\ \A r \in Rnti : heard[r] # None => <<Watched, r, heard[r]>> \in applied

ShownInv == TypeInv /\ CallsMatch /\ AckedApplied /\ ShownWasApplied /\ BoundApplied

\* What was applied stays so.
LEMMA AppliedGrows ==
  ASSUME [Next]_vars
  PROVE  applied \subseteq applied'
<1>1. CASE Watch \/ UNCHANGED vars
  BY <1>1, WatchAside DEF Aside
<1>2. CASE \E c \in calls : CallStep(c)
  BY <1>2 DEF CallStep, Encode, Collect, EncodeFreed, Deliver, Lose
<1> QED
  BY <1>1, <1>2 DEF Next, Begin, Acquire, Handle, Send, Return, Raise, TimeOut, Proceed, Failed,
       Bound, Touch, TouchProfile, SetActiveMode

\* What is bound comes from a call that is carried out, what is read from what
\* is bound.
LEMMA BoundAppliedStep ==
  ASSUME TypeInv, BoundApplied, [Next]_vars
  PROVE  BoundApplied'
<1>1. CASE Watch \/ UNCHANGED vars
  <2>1. assoc' = assoc /\ applied' = applied
    BY <1>1, WatchAside DEF Aside
  <2>2. \A r \in Rnti : heard'[r] \in {heard[r], assoc[Watched][r]}
    BY <1>1, WatchWrites DEF TypeInv, vars
  <2> QED
    BY <2>1, <2>2 DEF BoundApplied
<1>2. CASE \E c \in calls : CallStep(c)
  <2>1. PICK c \in calls : CallStep(c)
    BY <1>2
  <2>2. heard' = heard
    BY <2>1 DEF CallStep, Encode, Collect, EncodeFreed, Deliver, Lose, InCalls
  <2>3. CASE UNCHANGED <<assoc, applied>>
    BY <2>2, <2>3 DEF BoundApplied
  <2>4. CASE /\ Deliver(c) /\ c.cmd \in BindCmd
             /\ assoc' = [assoc EXCEPT ![c.node][c.rnti] = c.bind]
             /\ applied' = applied \cup {<<c.node, c.rnti, c.bind>>}
    <3>1. assoc \in [Node -> [Rnti -> Slot]]
      BY DEF TypeInv, TypeOK
    <3>2. \A n \in Node, r \in Rnti :
            assoc'[n][r] = IF n = c.node /\ r = c.rnti THEN c.bind ELSE assoc[n][r]
      BY <2>4, <3>1
    <3> QED
      BY <2>2, <2>4, <3>2 DEF BoundApplied
  <2> QED
    BY <2>1, <2>3, <2>4 DEF CallStep, Encode, Collect, EncodeFreed, Deliver, Lose
<1>3. ASSUME NEW t \in Thread,
             Acquire(t) \/ Handle(t) \/ \E cmd, r, b : Begin(t, cmd, r, b)
      PROVE  UNCHANGED <<assoc, applied, heard>>
  BY <1>3 DEF Begin, Acquire, Handle, Send, Return, Raise, TimeOut, Proceed, Failed, Bound,
              Touch, TouchProfile, SetActiveMode
<1> QED
  BY <1>1, <1>2, <1>3 DEF Next, BoundApplied

\* A node with room for every UE carries out the association it is sent.
LEMMA DeliverApplies ==
  ASSUME IsFiniteSet(Rnti), Cardinality(Rnti) =< AssocMax,
         TypeInv, NEW c \in calls, Deliver(c), c.cmd \in BindCmd
  PROVE  <<c.node, c.rnti, c.bind>> \in applied'
<1>1. c.node \in Node /\ c.rnti \in Rnti
  BY DEF TypeInv, TypeOK, CallIds, Call
<1>2. ASSUME assoc[c.node][c.rnti] = None PROVE ~Full(c.node)
  <2> DEFINE S == {r \in Rnti : assoc[c.node][r] # None}
  <2>1. S \subseteq Rnti /\ S # Rnti
    BY <1>1, <1>2
  <2>2. Cardinality(S) < Cardinality(Rnti) /\ Cardinality(S) \in Nat /\ Cardinality(Rnti) \in Nat
    BY <2>1, FS_Subset, FS_CardinalityType
  <2>3. ~(Cardinality(S) >= AssocMax)
    BY <2>2
  <2> QED
    BY <2>3 DEF Full
<1> QED
  BY <1>2 DEF Deliver

\* Steps that make no awaited call and begin no request.
LEMMA QuietMatch ==
  ASSUME CallsMatch, applied \subseteq applied',
         \A c \in calls' : c \in calls \/ ~c.awaited,
         \A t \in Thread : Busy(t)' => Busy(t) /\ req'[t] = req[t]
  PROVE  CallsMatch'
<1> SUFFICES ASSUME NEW c \in calls', NEW t \in Thread,
                    c.awaited, Busy(t)', c.id = req'[t].id
             PROVE  /\ c.cmd = req'[t].cmd /\ c.rnti = req'[t].rnti /\ c.bind = req'[t].bind
                    /\ c.stage # "dangling"
                    /\ c.stage = "applied" /\ c.cmd \in BindCmd
                         => <<c.node, c.rnti, c.bind>> \in applied'
  BY DEF CallsMatch
<1>1. c \in calls /\ Busy(t) /\ req'[t] = req[t]
  OBVIOUS
<1> QED
  BY <1>1 DEF CallsMatch

\* Steps that acknowledge nothing.
LEMMA QuietAcked ==
  ASSUME AckedApplied, applied \subseteq applied',
         \A t \in Thread : acked'[t] /\ Busy(t)' => acked[t] /\ Busy(t) /\ req'[t] = req[t]
  PROVE  AckedApplied'
<1> SUFFICES ASSUME NEW t \in Thread, acked'[t], Busy(t)', req'[t].cmd \in BindCmd
             PROVE  \E n \in Node : <<n, req'[t].rnti, req'[t].bind>> \in applied'
  BY DEF AckedApplied
<1>1. acked[t] /\ Busy(t) /\ req'[t] = req[t]
  OBVIOUS
<1> QED
  BY <1>1 DEF AckedApplied

\* Steps that show and answer nothing.
LEMMA QuietShown ==
  ASSUME ShownWasApplied, applied \subseteq applied', UNCHANGED <<shown, reply>>
  PROVE  ShownWasApplied'
<1>1. registry' = registry /\ activeMode' = activeMode /\ reply' = reply
  BY DEF shown
<1>2. ASSUME NEW r \in Rnti, registry[r].bind # None
      PROVE  \E n \in Node : <<n, r, registry[r].bind>> \in applied'
  BY <1>2 DEF ShownWasApplied
<1>3. activeMode # None => \E n \in Node, r \in Rnti : <<n, r, activeMode>> \in applied'
  BY DEF ShownWasApplied
<1>4. reply.ok /\ reply.cmd = "ue_slice_assoc" =>
        \E n \in Node : <<n, reply.rnti, reply.bind>> \in applied'
  BY DEF ShownWasApplied
<1> QED
  BY <1>1, <1>2, <1>3, <1>4 DEF ShownWasApplied

\* A new request has an id that no call has, and no acknowledgement.
LEMMA BeginShown ==
  ASSUME ShownInv, NEW t \in Thread, NEW cmd \in Cmd, NEW r, NEW b, Begin(t, cmd, r, b)
  PROVE  CallsMatch' /\ AckedApplied' /\ ShownWasApplied'
<1>1. /\ ~acked[t] /\ pc[t] = "idle"
      /\ acked' = acked /\ calls' = calls /\ applied' = applied
      /\ requests \in Nat /\ requests' = requests + 1
  BY DEF ShownInv, TypeInv, TypeOK, Serves, Busy, Begin
<1>2. /\ req'[t].id = requests + 1
      /\ \A u \in Thread : u # t => pc'[u] = pc[u] /\ req'[u] = req[u]
  <2>1. req \in [Thread -> Request \cup {Idle}]
    BY DEF ShownInv, TypeInv, TypeOK
  <2>2. req'[t] = [id |-> requests', cmd |-> cmd, rnti |-> r, bind |-> b]
    BY <2>1 DEF Begin
  <2>3. \A u \in Thread : u # t => pc'[u] = pc[u] /\ req'[u] = req[u]
    BY DEF Begin, ShownInv, TypeInv, TypeOK
  <2> QED
    BY <1>1, <2>2, <2>3
<1>3. \A u \in Thread : u # t /\ Busy(u)' => Busy(u)
  BY <1>2 DEF Busy
<1>4. CallsMatch'
  <2> SUFFICES ASSUME NEW c \in calls, NEW u \in Thread,
                      c.awaited, Busy(u)', c.id = req'[u].id
               PROVE  /\ c.cmd = req'[u].cmd /\ c.rnti = req'[u].rnti /\ c.bind = req'[u].bind
                      /\ c.stage # "dangling"
                      /\ c.stage = "applied" /\ c.cmd \in BindCmd
                           => <<c.node, c.rnti, c.bind>> \in applied
    BY <1>1 DEF CallsMatch
  <2>1. c.id \in Nat /\ c.id =< requests
    BY DEF ShownInv, TypeInv, TypeOK, CallIds, Call
  <2>2. u # t
    BY <1>1, <1>2, <2>1
  <2> QED
    BY <1>2, <1>3, <2>2 DEF ShownInv, CallsMatch
<1>5. AckedApplied'
  BY <1>1, <1>2, <1>3, QuietAcked DEF ShownInv
<1>6. ShownWasApplied'
  BY <1>1, QuietShown DEF ShownInv, Begin
<1> QED
  BY <1>4, <1>5, <1>6

\* The new call is that of its thread, and of no other.
LEMMA SendShown ==
  ASSUME ShownInv, NEW t \in Thread, Send(t)
  PROVE  CallsMatch' /\ AckedApplied' /\ ShownWasApplied'
<1>1. /\ req' = req /\ acked' = acked /\ applied' = applied
      /\ calls' = calls \cup {NewCall(t)} /\ pc[t] = "send"
      /\ pc' = [pc EXCEPT ![t] = "wait"]
  BY DEF Send, server, NewCall
<1>2. \A u \in Thread : Busy(u)' <=> Busy(u)
  BY <1>1 DEF Busy, ShownInv, TypeInv, TypeOK
<1>3. CallsMatch'
  <2> SUFFICES ASSUME NEW c \in calls', NEW u \in Thread,
                      c.awaited, Busy(u), c.id = req[u].id
               PROVE  /\ c.cmd = req[u].cmd /\ c.rnti = req[u].rnti /\ c.bind = req[u].bind
                      /\ c.stage # "dangling"
                      /\ c.stage = "applied" /\ c.cmd \in BindCmd
                           => <<c.node, c.rnti, c.bind>> \in applied
    BY <1>1, <1>2 DEF CallsMatch
  <2>1. CASE c \in calls
    BY <2>1 DEF ShownInv, CallsMatch
  <2>2. CASE c = NewCall(t)
    <3>1. c.id = req[t].id /\ Busy(t)
      BY <1>1, <2>2 DEF NewCall, Busy
    <3>2. u = t
      BY <3>1 DEF ShownInv, TypeInv, Serves
    <3> QED
      BY <2>2, <3>2 DEF NewCall
  <2> QED
    BY <1>1, <2>1, <2>2
<1>4. AckedApplied'
  BY <1>1, <1>2, QuietAcked DEF ShownInv
<1>5. ShownWasApplied'
  BY <1>1, QuietShown DEF ShownInv, Send
<1> QED
  BY <1>3, <1>4, <1>5

\* A node that acknowledged in time carried the request out.
LEMMA AwaitedShown ==
  ASSUME ShownInv, NEW t \in Thread, Return(t) \/ Raise(t) \/ TimeOut(t)
  PROVE  CallsMatch' /\ AckedApplied' /\ ShownWasApplied'
<1>1. /\ pc[t] = "wait" /\ pc' = [pc EXCEPT ![t] = "send"]
      /\ req' = req /\ applied' = applied /\ UNCHANGED <<shown, reply>>
      /\ \A c \in calls' : c \in calls \/ ~c.awaited
      /\ \/ acked' = [acked EXCEPT ![t] = @ \/ FALSE]
         \/ /\ acked' = [acked EXCEPT ![t] = @ \/ TRUE]
            /\ Return(t)
  <2>1. \A c \in calls : [c EXCEPT !.awaited = FALSE].awaited = FALSE
    BY DEF ShownInv, TypeInv, TypeOK, Call
  <2> QED
    BY <2>1 DEF Return, Raise, TimeOut, Awaits, Proceed
<1>2. \A u \in Thread : Busy(u)' <=> Busy(u)
  BY <1>1 DEF Busy, ShownInv, TypeInv, TypeOK
<1>3. CallsMatch'
  BY <1>1, <1>2, QuietMatch DEF ShownInv
<1>4. \A u \in Thread : u # t => acked'[u] = acked[u]
  BY <1>1 DEF ShownInv, TypeInv, TypeOK
<1>5. AckedApplied'
  <2>1. CASE acked' = [acked EXCEPT ![t] = @ \/ FALSE]
    <3>1. \A u \in Thread : acked'[u] = acked[u]
      BY <2>1 DEF ShownInv, TypeInv, TypeOK
    <3> QED
      BY <1>1, <1>2, <3>1, QuietAcked DEF ShownInv
  <2>2. CASE Return(t)
    <3>1. PICK c \in calls : c.awaited /\ c.id = req[t].id /\ c.stage = "applied"
      BY <2>2 DEF Return, Awaits
    <3>2. /\ c.cmd = req[t].cmd /\ c.rnti = req[t].rnti /\ c.bind = req[t].bind
          /\ c.cmd \in BindCmd => <<c.node, c.rnti, c.bind>> \in applied
          /\ c.node \in Node
      BY <1>1, <3>1 DEF ShownInv, CallsMatch, Busy, TypeInv, TypeOK, Call
    <3>3. req[t].cmd \in BindCmd =>
            \E n \in Node : <<n, req[t].rnti, req[t].bind>> \in applied
      BY <3>2
    <3> QED
      BY <1>1, <1>2, <1>4, <3>3 DEF ShownInv, AckedApplied
  <2> QED
    BY <1>1, <2>1, <2>2
<1>6. ShownWasApplied'
  BY <1>1, QuietShown DEF ShownInv
<1> QED
  BY <1>3, <1>5, <1>6

\* What a thread records and answers was acknowledged.
LEMMA RecordShown ==
  ASSUME ShownInv, NEW t \in Thread,
         Acquire(t) \/ Failed(t) \/ Bound(t) \/ Touch(t) \/ TouchProfile(t) \/ SetActiveMode(t)
  PROVE  CallsMatch' /\ AckedApplied' /\ ShownWasApplied'
<1>1. /\ calls' = calls /\ applied' = applied /\ pc[t] # "idle"
      /\ \/ \E ok : Answer(t, ok)
         \/ \E stage : pc' = [pc EXCEPT ![t] = stage] /\ req' = req /\ acked' = acked
  BY DEF Acquire, Failed, Bound, Touch, TouchProfile, SetActiveMode, server
<1>2. \A u \in Thread : Busy(u)' => Busy(u) /\ req'[u] = req[u] /\ acked'[u] = acked[u]
  BY <1>1 DEF Busy, Answer, ShownInv, TypeInv, TypeOK
<1>3. CallsMatch'
  BY <1>1, <1>2, QuietMatch DEF ShownInv
<1>4. AckedApplied'
  BY <1>1, <1>2, QuietAcked DEF ShownInv
<1>5. /\ \A r \in Rnti : registry[r].bind # None =>
           \E n \in Node : <<n, r, registry[r].bind>> \in applied
      /\ activeMode # None => \E n \in Node, r \in Rnti : <<n, r, activeMode>> \in applied
      /\ reply.ok /\ reply.cmd = "ue_slice_assoc" =>
           \E n \in Node : <<n, reply.rnti, reply.bind>> \in applied
  BY DEF ShownInv, ShownWasApplied
<1>6. pc[t] \in {"touch", "profile", "state"} =>
        /\ req[t].rnti \in Rnti /\ req[t].bind \in Bind
        /\ \E n \in Node : <<n, req[t].rnti, req[t].bind>> \in applied
  BY <1>1 DEF ShownInv, TypeInv, Serves, AckedApplied, Busy
<1>7. /\ \A r \in Rnti : registry'[r].bind # None =>
           \E n \in Node : <<n, r, registry'[r].bind>> \in applied
  <2>1. CASE registry' = registry
    BY <1>5, <2>1
  <2>2. CASE Touch(t) \/ TouchProfile(t)
    <3>1. registry \in [Rnti -> [bind : Slot, profile : Slot]]
      BY DEF ShownInv, TypeInv, TypeOK
    <3>2. req[t].rnti \in Rnti
      BY <1>6, <2>2 DEF Touch, TouchProfile
    <3>3. registry'[req[t].rnti].bind = req[t].bind
      <4>1. registry[req[t].rnti] \in [bind : Slot, profile : Slot]
        BY <3>1, <3>2
      <4>2. [registry[req[t].rnti] EXCEPT !.bind = req[t].bind].bind = req[t].bind
        BY <4>1
      <4>3. CASE Touch(t)
        <5>1. registry' = [registry EXCEPT ![req[t].rnti] =
                             [registry[req[t].rnti] EXCEPT !.bind = req[t].bind]]
          BY <4>3 DEF Touch
        <5>2. registry'[req[t].rnti] = [registry[req[t].rnti] EXCEPT !.bind = req[t].bind]
          BY <3>1, <3>2, <5>1
        <5> QED
          BY <4>2, <5>2
      <4>4. CASE TouchProfile(t)
        BY <3>1, <3>2, <4>4 DEF TouchProfile
      <4> QED
        BY <2>2, <4>3, <4>4
    <3>4. \A r \in Rnti : r # req[t].rnti => registry'[r] = registry[r]
      BY <2>2, <3>1, <3>2 DEF Touch, TouchProfile
    <3>5. \E n \in Node : <<n, req[t].rnti, req[t].bind>> \in applied
      BY <1>6, <2>2 DEF Touch, TouchProfile
    <3> QED
      BY <1>5, <3>3, <3>4, <3>5
  <2> QED
    BY <2>1, <2>2 DEF Acquire, Failed, Bound, SetActiveMode, shown
<1>8. activeMode' # None => \E n \in Node, r \in Rnti : <<n, r, activeMode'>> \in applied
  <2>1. CASE activeMode' = activeMode
    BY <1>5, <2>1
  <2>2. CASE SetActiveMode(t)
    BY <1>6, <2>2 DEF SetActiveMode
  <2> QED
    BY <2>1, <2>2 DEF Acquire, Failed, Bound, Touch, TouchProfile, shown
<1>9. reply'.ok /\ reply'.cmd = "ue_slice_assoc" =>
        \E n \in Node : <<n, reply'.rnti, reply'.bind>> \in applied
  <2>1. CASE reply' = reply
    BY <1>5, <2>1
  <2>2. CASE Failed(t)
    <3>1. reply'.ok = (req[t].cmd \in {"set_profile", "set_mode"}) /\ reply'.cmd = req[t].cmd
      BY <2>2 DEF Failed, Answer
    <3> QED
      BY <3>1
  <2>3. CASE Answer(t, TRUE) /\ req[t].cmd \notin BindCmd
    <3>1. reply'.cmd = req[t].cmd
      BY <2>3 DEF Answer
    <3> QED
      BY <2>3, <3>1 DEF BindCmd
  <2>4. CASE Answer(t, TRUE) /\ pc[t] \in {"touch", "profile", "state"}
    <3>1. reply'.rnti = req[t].rnti /\ reply'.bind = req[t].bind
      BY <2>4 DEF Answer
    <3> QED
      BY <1>6, <2>4, <3>1
  <2> QED
    BY <2>1, <2>2, <2>3, <2>4 DEF Acquire, Bound, Touch, TouchProfile, SetActiveMode
<1>10. ShownWasApplied'
  BY <1>1, <1>7, <1>8, <1>9 DEF ShownWasApplied
<1> QED
  BY <1>3, <1>4, <1>10

\* A call that is awaited is not freed, and is carried out as it was asked for.
LEMMA CallStepShown ==
  ASSUME IsFiniteSet(Rnti), Cardinality(Rnti) =< AssocMax,
         ShownInv, NEW c \in calls, CallStep(c)
  PROVE  CallsMatch' /\ AckedApplied' /\ ShownWasApplied'
<1>1. PICK d \in Call :
        /\ d.id = c.id /\ d.cmd = c.cmd /\ d.node = c.node /\ d.awaited = c.awaited
        /\ InCalls(c, {d}) \/ InCalls(c, {})
        /\ (d.rnti = c.rnti /\ d.bind = c.bind) \/ EncodeFreed(c)
        /\ d.stage = "dangling" => Collect(c)
        /\ d.stage = "applied" => Deliver(c) /\ c.awaited
  BY CallStepLeaves DEF ShownInv
<1>2. /\ \A e \in calls' : e \in calls \/ e = d
      /\ pc' = pc /\ req' = req /\ acked' = acked /\ UNCHANGED <<shown, reply>>
  BY <1>1 DEF InCalls, server
<1>3. applied \subseteq applied'
  BY DEF CallStep, Encode, Collect, EncodeFreed, Deliver, Lose
<1>4. CallsMatch'
  <2> SUFFICES ASSUME NEW e \in calls', NEW t \in Thread,
                      e.awaited, Busy(t), e.id = req[t].id
               PROVE  /\ e.cmd = req[t].cmd /\ e.rnti = req[t].rnti /\ e.bind = req[t].bind
                      /\ e.stage # "dangling"
                      /\ e.stage = "applied" /\ e.cmd \in BindCmd
                           => <<e.node, e.rnti, e.bind>> \in applied'
    BY <1>2 DEF CallsMatch, Busy
  <2>1. CASE e \in calls
    BY <1>3, <2>1 DEF ShownInv, CallsMatch
  <2>2. CASE e = d
    <3>1. /\ c.cmd = req[t].cmd /\ c.rnti = req[t].rnti /\ c.bind = req[t].bind
          /\ c.stage # "dangling"
      BY <1>1, <2>2 DEF ShownInv, CallsMatch
    <3>2. ~EncodeFreed(c) /\ ~Collect(c)
      BY <1>1, <2>2, <3>1 DEF EncodeFreed, Collect
    <3>3. Deliver(c) /\ c.cmd \in BindCmd => <<c.node, c.rnti, c.bind>> \in applied'
      BY DeliverApplies DEF ShownInv
    <3> QED
      BY <1>1, <2>2, <3>1, <3>2, <3>3
  <2> QED
    BY <1>2, <2>1, <2>2
<1>5. AckedApplied'
  BY <1>2, <1>3, QuietAcked DEF ShownInv, Busy
<1>6. ShownWasApplied'
  BY <1>2, <1>3, QuietShown DEF ShownInv
<1> QED
  BY <1>4, <1>5, <1>6

\* Where the association tables have room for every UE, what ue_list shows, the
\* active mode and every ue_slice_assoc that is answered ok stand for bindings
\* some node carried out, whatever calls fail, hang or arrive late.
THEOREM SliceShownWasApplied ==
  ASSUME IsFiniteSet(Rnti), Cardinality(Rnti) =< AssocMax
  PROVE  Spec => []ShownWasApplied
<1>1. Init => ShownInv
  <2> SUFFICES ASSUME Init PROVE ShownInv
    OBVIOUS
  <2>1. CallsMatch /\ AckedApplied
    BY DEF Init, CallsMatch, AckedApplied, Busy
  <2>2. \A r \in Rnti : registry[r].bind = None
    BY DEF Init
  <2>3. activeMode = None /\ ~reply.ok
    BY DEF Init, NoReply
  <2>4. BoundApplied
    BY DEF Init, BoundApplied
  <2> QED
    BY <2>1, <2>2, <2>3, <2>4, InitTypeInv DEF ShownInv, ShownWasApplied
<1>2. ASSUME ShownInv, [Next]_vars PROVE ShownInv'
  <2>1. TypeInv'
    BY <1>2, StepTypeInv DEF ShownInv
  <2>2. ASSUME NEW t \in Thread, NEW cmd \in Cmd, NEW r, NEW b, Begin(t, cmd, r, b)
        PROVE  CallsMatch' /\ AckedApplied' /\ ShownWasApplied'
    BY <1>2, <2>2, BeginShown
  <2>3. ASSUME NEW t \in Thread, Acquire(t) \/ Handle(t)
        PROVE  CallsMatch' /\ AckedApplied' /\ ShownWasApplied'
    BY <1>2, <2>3, SendShown, AwaitedShown, RecordShown DEF Handle
  <2>4. ASSUME NEW c \in calls, CallStep(c)
        PROVE  CallsMatch' /\ AckedApplied' /\ ShownWasApplied'
    BY <1>2, <2>4, CallStepShown
  <2>5. ASSUME Watch \/ UNCHANGED vars
        PROVE  CallsMatch' /\ AckedApplied' /\ ShownWasApplied'
    <3>1. Aside
      BY <2>5, WatchAside
    <3>2. \A t \in Thread : Busy(t)' <=> Busy(t)
      BY <3>1 DEF Aside, Busy
    <3>3. CallsMatch'
      BY <1>2, <3>1, <3>2, QuietMatch DEF ShownInv, Aside
    <3>4. AckedApplied'
      BY <1>2, <3>1, <3>2, QuietAcked DEF ShownInv, Aside
    <3>5. \A r \in Rnti : registry'[r].bind \in {registry[r].bind, heard[r], None}
      BY <1>2, <2>5, WatchWrites DEF ShownInv, TypeInv, vars, shown
    <3>6. ASSUME NEW r \in Rnti, registry'[r].bind # None
          PROVE  \E n \in Node : <<n, r, registry'[r].bind>> \in applied
      BY <1>2, <3>5, <3>6 DEF ShownInv, ShownWasApplied, BoundApplied
    <3>7. ShownWasApplied'
      BY <1>2, <3>1, <3>6 DEF ShownInv, ShownWasApplied, Aside
    <3> QED
      BY <3>3, <3>4, <3>7
  <2>6. BoundApplied'
    BY <1>2, BoundAppliedStep DEF ShownInv
  <2> QED
    BY <1>2, <2>1, <2>2, <2>3, <2>4, <2>5, <2>6 DEF Next, ShownInv
<1>3. ShownInv => ShownWasApplied
  BY DEF ShownInv
<1> QED
  BY <1>1, <1>2, <1>3, PTL DEF Spec

(***************************************************************************)
(* Agreement.  The lock makes broadcasts follow each other.  While nothing *)
(* fails there is one call at most, the awaited one of the thread that     *)
(* holds the lock, and the nodes that were reached have the association    *)
(* the request asks for, the others all that was there before.             *)
(***************************************************************************)

Locked ==
  /\ \A t \in Thread : pc[t] \in {"send", "wait"} <=> lock = t
  /\ \A t \in Thread : lock # t => turn[t] = 1

OneCall ==
  /\ \A c, d \in calls : c = d
  /\ \A c \in calls :
       /\ lock \in Thread /\ pc[lock] = "wait" /\ c.awaited
       /\ c.id = req[lock].id /\ c.node = turn[lock] - 1
       /\ c.cmd = req[lock].cmd /\ c.rnti = req[lock].rnti /\ c.bind = req[lock].bind
       /\ c.stage # "dangling"

\* The broadcast has carried out its request at node n.
Reached(t, n) == n < turn[t] /\ \A c \in calls : c.node = n => c.stage = "applied"

\* The associations f of a node after request q.
RoomIn(f) == ~(Cardinality({r \in Rnti : f[r] # None}) >= AssocMax)
Updated(f, q) ==
  IF q.cmd \in BindCmd /\ (f[q.rnti] # None \/ RoomIn(f))
  THEN [f EXCEPT ![q.rnti] = q.bind]
  ELSE f

InStep(f, t) ==
  \A n \in Node : assoc[n] = IF Reached(t, n) THEN Updated(f, req[t]) ELSE f

Agreeing ==
  IF lock = None THEN \A m, n \in Node : assoc[m] = assoc[n]
  ELSE \E f \in [Rnti -> Slot] : InStep(f, lock)

OrderInv == TypeInv /\ Locked /\ (~faults => OneCall /\ Agreeing)

LEMMA LockedStep ==
  ASSUME TypeInv, Locked, [Next]_vars
  PROVE  Locked'
<1>1. /\ pc \in [Thread -> {"idle", "lock", "send", "wait", "touch", "profile", "state"}]
      /\ turn \in [Thread -> 1 .. NumNodes + 1]
  BY DEF TypeInv, TypeOK
<1> USE <1>1
<1>2. ASSUME NEW t \in Thread, NEW cmd, NEW r, NEW b, Begin(t, cmd, r, b) PROVE Locked'
  BY <1>2 DEF Locked, Begin
<1>3. ASSUME NEW t \in Thread, Acquire(t) PROVE Locked'
  <2>1. /\ pc[t] = "lock" /\ lock = None /\ lock' = t /\ turn' = turn
        /\ pc' = [pc EXCEPT ![t] = "send"]
    BY <1>3 DEF Acquire
  <2> QED
    BY <2>1 DEF Locked
<1>4. ASSUME NEW t \in Thread, Send(t) PROVE Locked'
  BY <1>4 DEF Locked, Send
<1>5. ASSUME NEW t \in Thread, Return(t) \/ Raise(t) \/ TimeOut(t) PROVE Locked'
  <2>1. pc[t] = "wait" /\ pc' = [pc EXCEPT ![t] = "send"] /\ turn' = turn /\ lock' = lock
    BY <1>5 DEF Return, Raise, TimeOut, Awaits, Proceed
  <2> QED
    BY <2>1 DEF Locked
<1>6. ASSUME NEW t \in Thread, Failed(t) \/ Bound(t) PROVE Locked'
  <2>1. /\ pc[t] = "send" /\ lock' = None /\ turn' = [turn EXCEPT ![t] = 1]
        /\ pc' = [pc EXCEPT ![t] = "idle"] \/ pc' = [pc EXCEPT ![t] = "touch"]
    BY <1>6 DEF Failed, Bound, Answer
  <2>2. \A u \in Thread : pc'[u] \notin {"send", "wait"}
    BY <2>1 DEF Locked
  <2> QED
    BY <2>1, <2>2 DEF Locked
<1>7. ASSUME NEW t \in Thread, Touch(t) \/ TouchProfile(t) \/ SetActiveMode(t) PROVE Locked'
  <2>1. /\ pc[t] \in {"touch", "profile", "state"} /\ lock' = lock /\ turn' = turn
        /\ \E stage \in {"idle", "profile", "state"} : pc' = [pc EXCEPT ![t] = stage]
    BY <1>7 DEF Touch, TouchProfile, SetActiveMode, Answer
  <2> QED
    BY <2>1 DEF Locked
<1>8. ASSUME NEW c \in calls, CallStep(c) PROVE Locked'
  <2>1. pc' = pc /\ turn' = turn /\ lock' = lock
    BY <1>8 DEF CallStep, Encode, Collect, EncodeFreed, Deliver, Lose, InCalls
  <2> QED
    BY <2>1 DEF Locked
<1>9. ASSUME Watch \/ UNCHANGED vars PROVE Locked'
  BY <1>9, WatchAside DEF Locked, Aside
<1> QED
  BY <1>2, <1>3, <1>4, <1>5, <1>6, <1>7, <1>8, <1>9 DEF Next, Handle

\* Steps of threads that do not hold the lock and make no call.
LEMMA AsideOrder ==
  ASSUME OneCall, Agreeing,
         calls' = calls, assoc' = assoc, turn' = turn, lock' = lock,
         lock \in Thread => pc'[lock] = pc[lock] /\ req'[lock] = req[lock],
         lock \in Thread \cup {None}
  PROVE  OneCall' /\ Agreeing'
<1>1. OneCall'
  BY DEF OneCall
<1>2. CASE lock = None
  BY <1>1, <1>2 DEF Agreeing
<1>3. CASE lock \in Thread
  <2>1. PICK f \in [Rnti -> Slot] : InStep(f, lock)
    BY <1>3 DEF Agreeing
  <2>2. \A n \in Node : Reached(lock, n)' <=> Reached(lock, n)
    BY <1>3 DEF Reached
  <2>3. Updated(f, req[lock])' = Updated(f, req[lock])
    BY <1>3 DEF Updated, RoomIn
  <2>4. InStep(f, lock)'
    BY <1>3, <2>1, <2>2, <2>3 DEF InStep
  <2> QED
    BY <1>1, <1>3, <2>4 DEF Agreeing
<1> QED
  BY <1>2, <1>3

\* A broadcast begins: no node is reached yet.
LEMMA AcquireOrder ==
  ASSUME OrderInv, OneCall, Agreeing, NEW t \in Thread, Acquire(t)
  PROVE  OneCall' /\ Agreeing'
<1>1. /\ lock = None /\ lock' = t /\ turn' = turn /\ turn[t] = 1 /\ 1 \in Node
      /\ UNCHANGED <<req, calls, assoc>>
  BY DEF OrderInv, Locked, Acquire, server, Node
<1>2. calls = {}
  BY <1>1 DEF OneCall
<1>3. assoc[1] \in [Rnti -> Slot]
  BY <1>1 DEF OrderInv, TypeInv, TypeOK
<1>4. \A n \in Node : ~Reached(t, n)'
  BY <1>1 DEF Reached, Node
<1>5. \A n \in Node : assoc'[n] = assoc[1]
  BY <1>1 DEF Agreeing
<1>6. InStep(assoc[1], t)'
  <2>1. \A n \in Node : assoc'[n] = IF Reached(t, n)' THEN Updated(assoc[1], req[t])' ELSE assoc[1]
    BY <1>4, <1>5
  <2>2. Updated(assoc[1], req[t])' = Updated(assoc[1], req[t])
    BY <1>1 DEF Updated, RoomIn
  <2> QED
    BY <1>1, <2>1, <2>2 DEF InStep
<1>7. lock' # None
  BY <1>1
<1>8. Agreeing'
  BY <1>1, <1>3, <1>6, <1>7 DEF Agreeing
<1> QED
  BY <1>1, <1>2, <1>8 DEF OneCall

\* The thread that holds the lock sends or is answered: no node is reached
\* that was not.
LEMMA HolderOrder ==
  ASSUME OrderInv, Agreeing, NEW t \in Thread, lock = t, lock' = t,
         UNCHANGED <<req, assoc>>, OneCall',
         \A n \in Node : Reached(t, n)' <=> Reached(t, n)
  PROVE  Agreeing'
<1>1. PICK f \in [Rnti -> Slot] : InStep(f, t)
  BY DEF Agreeing
<1>2. Updated(f, req[t])' = Updated(f, req[t])
  BY DEF Updated, RoomIn
<1>3. InStep(f, t)'
  BY <1>1, <1>2 DEF InStep
<1> QED
  BY <1>3 DEF Agreeing

LEMMA SendOrder ==
  ASSUME OrderInv, OneCall, Agreeing, NEW t \in Thread, Send(t)
  PROVE  OneCall' /\ Agreeing'
<1>1. /\ pc[t] = "send" /\ turn[t] \in Node /\ lock = t /\ lock' = lock
      /\ UNCHANGED <<req, assoc>>
      /\ calls' = calls \cup {NewCall(t)}
  BY DEF OrderInv, Locked, Send, NewCall, server
<1>2. calls = {}
  BY <1>1 DEF OneCall
<1>3. turn'[t] = turn[t] + 1 /\ pc'[t] = "wait" /\ turn[t] \in Nat
  BY <1>1 DEF OrderInv, TypeInv, TypeOK, Send, Node
<1>4. OneCall'
  <2>1. NewCall(t).node = turn'[t] - 1
    BY <1>3 DEF NewCall
  <2> QED
    BY <1>1, <1>2, <1>3, <2>1 DEF OneCall, NewCall
<1>5. \A n \in Node : Reached(t, n)' <=> Reached(t, n)
  <2>1. calls' = {NewCall(t)} /\ NewCall(t).node = turn[t] /\ NewCall(t).stage = "started"
    BY <1>1, <1>2 DEF NewCall
  <2>2. \A n \in Node : n \in Nat
    BY DEF Node
  <2> QED
    BY <1>2, <1>3, <2>1, <2>2 DEF Reached
<1> QED
  BY <1>1, <1>4, <1>5, HolderOrder

LEMMA ReturnOrder ==
  ASSUME OrderInv, OneCall, Agreeing, NEW t \in Thread, Return(t)
  PROVE  OneCall' /\ Agreeing'
<1>1. PICK c \in calls : /\ Awaits(t, c) /\ c.stage = "applied" /\ calls' = calls \ {c}
                         /\ Proceed(t, TRUE)
  BY DEF Return
<1>2. /\ lock = t /\ lock' = lock /\ turn' = turn
      /\ UNCHANGED <<req, assoc>>
  BY <1>1 DEF OrderInv, Locked, Awaits, Proceed
<1>3. calls = {c} /\ calls' = {}
  BY <1>1 DEF OneCall
<1>4. OneCall'
  BY <1>3 DEF OneCall
<1>5. \A n \in Node : Reached(t, n)' <=> Reached(t, n)
  BY <1>1, <1>2, <1>3 DEF Reached
<1> QED
  BY <1>2, <1>4, <1>5, HolderOrder

\* A broadcast ends: every node is reached.
LEMMA ReleaseOrder ==
  ASSUME OrderInv, OneCall, Agreeing, NEW t \in Thread, Failed(t) \/ Bound(t)
  PROVE  OneCall' /\ Agreeing'
<1>1. /\ pc[t] = "send" /\ turn[t] \notin Node /\ lock = t /\ lock' = None
      /\ calls' = calls /\ assoc' = assoc
  BY DEF OrderInv, Locked, Failed, Bound
<1>2. calls = {}
  BY <1>1 DEF OneCall
<1>3. turn[t] = NumNodes + 1
  BY <1>1 DEF OrderInv, TypeInv, TypeOK, Node
<1>4. \A n \in Node : Reached(t, n)
  BY <1>2, <1>3 DEF Reached, Node
<1>5. PICK f \in [Rnti -> Slot] : InStep(f, t)
  BY <1>1 DEF Agreeing
<1>6. \A n \in Node : assoc[n] = Updated(f, req[t])
  BY <1>4, <1>5 DEF InStep
<1> QED
  BY <1>1, <1>2, <1>6 DEF OneCall, Agreeing

\* The call reaches its node.
LEMMA CallOrder ==
  ASSUME OrderInv, OneCall, Agreeing, NEW c \in calls, CallStep(c)
  PROVE  OneCall' /\ Agreeing'
<1>0. PICK t \in Thread : lock = t
  BY DEF OneCall
<1>1. /\ lock = t /\ pc[t] = "wait" /\ c.awaited /\ c.node = turn[t] - 1
      /\ c.id = req[t].id
      /\ c.cmd = req[t].cmd /\ c.rnti = req[t].rnti /\ c.bind = req[t].bind
      /\ c.stage # "dangling" /\ calls = {c} /\ t # None
  BY <1>0 DEF OneCall
<1>2. c \in Call /\ c.node \in Node /\ c.node < turn[t]
  BY <1>1 DEF OrderInv, TypeInv, TypeOK, Call, Node
<1>3. ~Collect(c) /\ ~EncodeFreed(c) /\ ~Lose(c)
  BY <1>1 DEF Collect, EncodeFreed, Lose
<1>4. PICK f \in [Rnti -> Slot] : InStep(f, t)
  BY <1>1 DEF Agreeing
<1>5. ASSUME NEW stage \in {"sent", "applied"}, InCalls(c, {[c EXCEPT !.stage = stage]})
      PROVE  /\ OneCall' /\ lock' = t /\ turn' = turn /\ req' = req
             /\ \A n \in Node : Reached(t, n)' <=>
                  n < turn[t] /\ (n = c.node => stage = "applied")
  <2> DEFINE d == [c EXCEPT !.stage = stage]
  <2>1. /\ d.stage = stage /\ d.id = c.id /\ d.node = c.node /\ d.cmd = c.cmd
        /\ d.rnti = c.rnti /\ d.bind = c.bind /\ d.awaited = c.awaited
    BY <1>2 DEF Call
  <2>2. calls' = {d} /\ lock' = t /\ turn' = turn /\ req' = req /\ pc' = pc
    BY <1>1, <1>5 DEF InCalls, server
  <2> HIDE DEF d
  <2>3. OneCall'
    BY <1>1, <2>1, <2>2 DEF OneCall
  <2>4. \A n \in Node : Reached(t, n)' <=> n < turn[t] /\ (n = c.node => stage = "applied")
    BY <2>1, <2>2 DEF Reached
  <2> QED
    BY <2>2, <2>3, <2>4
<1>6. \A n \in Node : Reached(t, n) <=> n < turn[t] /\ (n = c.node => c.stage = "applied")
  BY <1>1 DEF Reached
<1>7. CASE Encode(c)
  <2>1. InCalls(c, {[c EXCEPT !.stage = "sent"]}) /\ c.stage = "started" /\ assoc' = assoc
    BY <1>7 DEF Encode
  <2>2. \A n \in Node : Reached(t, n)' <=> Reached(t, n)
    BY <1>5, <1>6, <2>1
  <2>3. OneCall' /\ lock' = t /\ req' = req
    BY <1>5, <2>1
  <2> QED
    BY <1>1, <2>1, <2>2, <2>3, HolderOrder
<1>8. CASE Deliver(c)
  <2>1. InCalls(c, {[c EXCEPT !.stage = "applied"]}) /\ c.stage = "sent"
    BY <1>1, <1>8 DEF Deliver
  <2>2. OneCall' /\ lock' = t /\ req' = req
    BY <1>5, <2>1
  <2>3. \A n \in Node : Reached(t, n)' <=> Reached(t, n) \/ n = c.node
    BY <1>2, <1>5, <1>6, <2>1
  <2>4. assoc[c.node] = f
    BY <1>2, <1>4, <1>6, <2>1 DEF InStep
  <2>5. \A n \in Node : assoc'[n] = IF n = c.node THEN Updated(f, req[t]) ELSE assoc[n]
    <3>1. assoc \in [Node -> [Rnti -> Slot]]
      BY DEF OrderInv, TypeInv, TypeOK
    <3>2. Full(c.node) <=> ~RoomIn(f)
      BY <2>4 DEF Full, RoomIn
    <3>3. CASE c.cmd \in BindCmd /\ (f[c.rnti] # None \/ RoomIn(f))
      <4>1. assoc' = [assoc EXCEPT ![c.node] = [assoc[c.node] EXCEPT ![c.rnti] = c.bind]]
        BY <1>8, <2>4, <3>2, <3>3 DEF Deliver
      <4>2. Updated(f, req[t]) = [f EXCEPT ![c.rnti] = c.bind]
        BY <1>1, <3>3 DEF Updated
      <4> QED
        BY <1>2, <2>4, <3>1, <4>1, <4>2
    <3>4. CASE ~(c.cmd \in BindCmd /\ (f[c.rnti] # None \/ RoomIn(f)))
      <4>1. assoc' = assoc
        BY <1>8, <2>4, <3>2, <3>4 DEF Deliver
      <4>2. Updated(f, req[t]) = f
        BY <1>1, <3>4 DEF Updated
      <4> QED
        BY <2>4, <4>1, <4>2
    <3> QED
      BY <3>3, <3>4
  <2>6. Updated(f, req[t])' = Updated(f, req[t])
    BY <2>2 DEF Updated, RoomIn
  <2>7. InStep(f, t)'
    BY <1>4, <2>3, <2>5, <2>6 DEF InStep
  <2> QED
    BY <1>1, <1>4, <2>2, <2>7 DEF Agreeing
<1> QED
  BY <1>3, <1>7, <1>8 DEF CallStep

LEMMA StepOrder ==
  ASSUME OrderInv, [Next]_vars
  PROVE  OrderInv'
<1>1. TypeInv' /\ Locked'
  BY StepTypeInv, LockedStep DEF OrderInv
<1> SUFFICES ASSUME ~faults' PROVE OneCall' /\ Agreeing'
  BY <1>1 DEF OrderInv
<1>2. ~faults
  BY WatchAside DEF Next, Aside, Begin, Acquire, Handle, Send, Return, Raise, TimeOut, Failed, Bound, Touch,
         TouchProfile, SetActiveMode, CallStep, Encode, Collect, EncodeFreed, Deliver, Lose,
         InCalls, vars
<1>3. OneCall /\ Agreeing /\ TypeOK /\ lock \in Thread \cup {None}
  BY <1>2 DEF OrderInv, TypeInv, TypeOK
<1>4. ASSUME NEW t \in Thread, NEW cmd, NEW r, NEW b, Begin(t, cmd, r, b)
      PROVE  OneCall' /\ Agreeing'
  <2>1. lock # t /\ \A u \in Thread : u # t => pc'[u] = pc[u] /\ req'[u] = req[u]
    BY <1>3, <1>4 DEF OrderInv, Locked, Begin, TypeOK
  <2>2. calls' = calls /\ assoc' = assoc /\ turn' = turn /\ lock' = lock
    BY <1>4 DEF Begin
  <2> QED
    BY <1>3, <2>1, <2>2, AsideOrder
<1>5. ASSUME NEW t \in Thread, Touch(t) \/ TouchProfile(t) \/ SetActiveMode(t)
      PROVE  OneCall' /\ Agreeing'
  <2>1. /\ pc[t] \in {"touch", "profile", "state"}
        /\ calls' = calls /\ assoc' = assoc /\ turn' = turn /\ lock' = lock
        /\ \/ Answer(t, TRUE)
           \/ req' = req /\ \E stage : pc' = [pc EXCEPT ![t] = stage]
    BY <1>5 DEF Touch, TouchProfile, SetActiveMode
  <2>2. lock # t /\ \A u \in Thread : u # t => pc'[u] = pc[u] /\ req'[u] = req[u]
    BY <1>3, <2>1 DEF OrderInv, Locked, Answer, TypeOK
  <2> QED
    BY <1>3, <2>1, <2>2, AsideOrder
<1>6. ASSUME NEW t \in Thread, Acquire(t) \/ Send(t) \/ Return(t) \/ Failed(t) \/ Bound(t)
      PROVE  OneCall' /\ Agreeing'
  BY <1>3, <1>6, AcquireOrder, SendOrder, ReturnOrder, ReleaseOrder
<1>7. ASSUME NEW t \in Thread, Raise(t) \/ TimeOut(t) PROVE FALSE
  BY <1>7 DEF Raise, TimeOut
<1>8. ASSUME NEW c \in calls, CallStep(c) PROVE OneCall' /\ Agreeing'
  BY <1>3, <1>8, CallOrder
<1>9. ASSUME Watch \/ UNCHANGED vars PROVE OneCall' /\ Agreeing'
  <2>1. UNCHANGED <<calls, assoc, turn, lock, pc, req>>
    BY <1>9, WatchAside DEF Aside
  <2> QED
    BY <1>3, <2>1, AsideOrder
<1> QED
  BY <1>4, <1>5, <1>6, <1>7, <1>8, <1>9 DEF Next, Handle

LEMMA InitOrder == Init => OrderInv
<1> SUFFICES ASSUME Init PROVE OrderInv
  OBVIOUS
<1>1. Locked
  BY DEF Init, Locked
<1>2. OneCall
  BY DEF Init, OneCall
<1>3. Agreeing
  BY DEF Init, Agreeing
<1> QED
  BY <1>1, <1>2, <1>3, InitTypeInv DEF OrderInv

\* While nothing fails, concurrent broadcasts leave all nodes with the same
\* associations.
THEOREM SliceNodesAgree == Spec => []NodesAgree
<1>1. OrderInv /\ [Next]_vars => OrderInv'
  BY StepOrder
<1>2. OrderInv => NodesAgree
  <2> SUFFICES ASSUME OrderInv, Quiet, ~faults PROVE \A m, n \in Node : assoc[m] = assoc[n]
    BY DEF NodesAgree
  <2>1. \A t \in Thread : lock # t
    BY DEF OrderInv, Locked, Quiet
  <2>2. lock = None
    BY <2>1 DEF OrderInv, TypeInv, TypeOK
  <2> QED
    BY <2>2 DEF OrderInv, Agreeing
<1> QED
  BY <1>1, <1>2, InitOrder, PTL DEF Spec

(***************************************************************************)
(* The list.  A UE is at rest when no request that binds it is served and  *)
(* no call may reach it.  What the list shows of it then only comes nearer *)
(* to what the watched node applies, however many requests for other UEs   *)
(* are served, however stale what the watcher has cached and whatever is   *)
(* pruned: one line of the log and one push later it shows that, or nothing *)
(* until the next push.                                                    *)
(***************************************************************************)

Binding(t, r) == Busy(t) /\ req[t].cmd \in BindCmd /\ req[t].rnti = r

AtRest(r) ==
  /\ \A t \in Thread : ~Binding(t, r)
  /\ \A c \in calls : c.cmd \in BindCmd => c.rnti # r

\* how far what is shown of a UE is from what the watched node applies
Behind(r) ==
  IF heard[r] # assoc[Watched][r] THEN 2
  ELSE IF registry[r].bind \notin {heard[r], None} THEN 1
  ELSE 0

\* a step after which the UE may be at rest no longer
Disturbs(r) ==
  \/ \E t \in Thread, cmd \in BindCmd, b \in Bind : Begin(t, cmd, r, b)
  \/ \E c \in calls : EncodeFreed(c)

ComesNearer(r) ==
  /\ AtRest(r)'
  /\ Behind(r)' =< Behind(r)
  /\ Hear(r) => Behind(r)' =< 1
  /\ UpdateSchedulerRnti(r) /\ Behind(r) =< 1 => registry'[r].bind = assoc'[Watched][r]

ListSettles == [][\A r \in Rnti : AtRest(r) => ComesNearer(r) \/ Disturbs(r)]_vars

\* The steps of a request thread that does not serve the UE, or has nothing of
\* it to record.
LEMMA ThreadAtRest ==
  ASSUME TypeInv, NEW t \in Thread, Acquire(t) \/ Handle(t), NEW r \in Rnti, AtRest(r)
  PROVE  AtRest(r)' /\ heard' = heard /\ assoc' = assoc /\ registry'[r] = registry[r]
<1>1. \A u \in Thread : ~Binding(u, r)
  BY DEF AtRest
<1>2. \A c \in calls : c.cmd \in BindCmd => c.rnti # r
  BY DEF AtRest
<1>3. heard' = heard /\ assoc' = assoc
  BY DEF Acquire, Handle, Send, Return, Raise, TimeOut, Proceed, Failed, Bound, Touch,
         TouchProfile, SetActiveMode
<1>4. /\ pc[t] # "idle"
      /\ \/ req' = req /\ \E stage : pc' = [pc EXCEPT ![t] = stage]
         \/ \E ok : Answer(t, ok)
  BY DEF Acquire, Handle, Send, Return, Raise, TimeOut, Awaits, Proceed, Failed, Bound, Touch,
         TouchProfile, SetActiveMode, server
<1>5. \A u \in Thread : Busy(u)' => Busy(u) /\ req'[u] = req[u]
  BY <1>4 DEF TypeInv, TypeOK, Busy, Answer
<1>6. \A u \in Thread : ~Binding(u, r)'
  BY <1>1, <1>5 DEF Binding
<1>7. \A c \in calls' : c.cmd \in BindCmd => c.rnti # r
  <2>1. CASE Send(t)
    <3>1. calls' = calls \cup {NewCall(t)}
      BY <2>1 DEF Send, NewCall
    <3>2. NewCall(t).cmd = req[t].cmd /\ NewCall(t).rnti = req[t].rnti
      BY DEF NewCall
    <3> QED
      BY <1>1, <1>2, <1>4, <3>1, <3>2 DEF Binding, Busy
  <2>2. CASE Return(t) \/ Raise(t) \/ TimeOut(t)
    <3>1. PICK c \in calls :
            \/ calls' = calls \ {c}
            \/ calls' = (calls \ {c}) \cup {[c EXCEPT !.awaited = FALSE]}
      BY <2>2 DEF Return, Raise, TimeOut
    <3>2. [c EXCEPT !.awaited = FALSE].cmd = c.cmd /\ [c EXCEPT !.awaited = FALSE].rnti = c.rnti
      BY DEF TypeInv, TypeOK, Call
    <3> QED
      BY <1>2, <3>1, <3>2
  <2>3. CASE Acquire(t) \/ Failed(t) \/ Bound(t) \/ Touch(t) \/ TouchProfile(t) \/ SetActiveMode(t)
    BY <1>2, <2>3 DEF Acquire, Failed, Bound, Touch, TouchProfile, SetActiveMode
  <2> QED
    BY <2>1, <2>2, <2>3 DEF Handle
<1>8. registry'[r] = registry[r]
  <2>1. CASE Touch(t) \/ TouchProfile(t)
    <3>1. req[t].rnti # r
      BY <1>1, <2>1 DEF Touch, TouchProfile, TypeInv, Serves, Binding, Busy
    <3>2. registry \in [Rnti -> [bind : Slot, profile : Slot]]
      BY DEF TypeInv, TypeOK
    <3> QED
      BY <2>1, <3>1, <3>2 DEF Touch, TouchProfile
  <2>2. CASE ~(Touch(t) \/ TouchProfile(t))
    BY <2>2 DEF Acquire, Handle, Send, Return, Raise, TimeOut, Proceed, Failed, Bound,
                SetActiveMode, shown
  <2> QED
    BY <2>1, <2>2
<1> QED
  BY <1>3, <1>6, <1>7, <1>8 DEF AtRest

\* A call for another UE, which reads no freed array.
LEMMA CallAtRest ==
  ASSUME TypeInv, NEW c \in calls, CallStep(c), ~EncodeFreed(c), NEW r \in Rnti, AtRest(r)
  PROVE  /\ AtRest(r)' /\ heard' = heard /\ registry' = registry
         /\ assoc'[Watched][r] = assoc[Watched][r]
<1>1. PICK d \in Call :
        /\ d.cmd = c.cmd /\ d.rnti = c.rnti
        /\ InCalls(c, {d}) \/ InCalls(c, {})
  BY CallStepLeaves
<1>2. UNCHANGED <<pc, req, heard, registry>>
  BY <1>1 DEF InCalls, server, shown
<1>3. AtRest(r)'
  BY <1>1, <1>2 DEF AtRest, Binding, Busy, InCalls
<1>4. assoc'[Watched][r] = assoc[Watched][r]
  <2>1. CASE assoc' = assoc
    BY <2>1
  <2>2. CASE Deliver(c) /\ c.cmd \in BindCmd /\ assoc' = [assoc EXCEPT ![c.node][c.rnti] = c.bind]
    <3>1. c.rnti # r
      BY <2>2 DEF AtRest
    <3>2. assoc \in [Node -> [Rnti -> Slot]]
      BY DEF TypeInv, TypeOK
    <3> QED
      BY <2>2, <3>1, <3>2
  <2> QED
    BY <2>1, <2>2 DEF CallStep, Encode, Collect, Deliver, Lose
<1> QED
  BY <1>2, <1>3, <1>4

\* A request for another UE begins.
LEMMA BeginAtRest ==
  ASSUME TypeInv, NEW t \in Thread, NEW cmd \in Cmd, NEW s, NEW b, Begin(t, cmd, s, b),
         NEW r \in Rnti, AtRest(r), cmd \notin BindCmd \/ s # r
  PROVE  AtRest(r)' /\ heard' = heard /\ assoc' = assoc /\ registry' = registry
<1>1. /\ UNCHANGED <<heard, assoc, registry, calls>>
      /\ req'[t].cmd = cmd /\ req'[t].rnti = s
      /\ \A u \in Thread : u # t => req'[u] = req[u] /\ pc'[u] = pc[u]
  <2>1. /\ UNCHANGED <<heard, assoc, registry, calls>>
        /\ pc' = [pc EXCEPT ![t] = "lock"]
        /\ req' = [req EXCEPT ![t] = [id |-> requests', cmd |-> cmd, rnti |-> s, bind |-> b]]
    BY DEF Begin, shown
  <2> QED
    BY <2>1 DEF TypeInv, TypeOK
<1> QED
  BY <1>1 DEF AtRest, Binding, Busy

\* What the list shows of a UE at rest only comes nearer to what the watched
\* node applies, until a request binds the UE or a call reads a freed array; a
\* line read in the log and one push bring it there, wherever it was: what
\* UeListConverges promises once no more requests come, UE by UE and however
\* many requests are served for the others.
THEOREM SliceListSettles == Spec => ListSettles
<1>1. ASSUME TypeInv, [Next]_vars, NEW r \in Rnti, AtRest(r), ~Disturbs(r)
      PROVE  ComesNearer(r)
  <2>1. TypeOK
    BY <1>1 DEF TypeInv
  <2>2. /\ AtRest(r)'
        /\ assoc'[Watched][r] = assoc[Watched][r]
        /\ heard'[r] \in {heard[r], assoc[Watched][r]}
        /\ registry'[r].bind \in {registry[r].bind, heard[r], None}
    <3>1. CASE Watch \/ UNCHANGED vars
      <4>1. Aside
        BY <3>1, WatchAside
      <4>2. AtRest(r)'
        BY <1>1, <4>1 DEF AtRest, Binding, Busy, Aside
      <4>3. /\ heard'[r] \in {heard[r], assoc[Watched][r]}
            /\ registry'[r].bind \in {registry[r].bind, heard[r], None}
        BY <2>1, <3>1, WatchWrites DEF vars, shown
      <4> QED
        BY <4>1, <4>2, <4>3 DEF Aside
    <3>2. CASE \E t \in Thread : Acquire(t) \/ Handle(t)
      BY <1>1, <3>2, ThreadAtRest
    <3>3. CASE \E c \in calls : CallStep(c)
      BY <1>1, <3>3, CallAtRest DEF Disturbs
    <3>4. ASSUME NEW t \in Thread, NEW cmd \in Cmds \cap BindCmd, NEW s \in Rnti, NEW b \in Bind,
                 Begin(t, cmd, s, b)
          PROVE  AtRest(r)' /\ heard' = heard /\ assoc' = assoc /\ registry' = registry
      <4>1. cmd \in Cmd /\ s # r
        BY <1>1, <3>4 DEF Disturbs, Cmd
      <4> QED
        BY <1>1, <3>4, <4>1, BeginAtRest
    <3>5. ASSUME NEW t \in Thread, NEW cmd \in Cmds \ BindCmd, Begin(t, cmd, None, None)
          PROVE  AtRest(r)' /\ heard' = heard /\ assoc' = assoc /\ registry' = registry
      BY <1>1, <3>5, BeginAtRest
    <3> QED
      BY <1>1, <3>1, <3>2, <3>3, <3>4, <3>5 DEF Next
  <2>3. Behind(r)' =< Behind(r)
    BY <2>2 DEF Behind
  <2>4. Hear(r) => Behind(r)' =< 1
    BY <2>1 DEF Hear, TypeOK, Behind
  <2>5. UpdateSchedulerRnti(r) /\ Behind(r) =< 1 => registry'[r].bind = assoc'[Watched][r]
    <3> SUFFICES ASSUME UpdateSchedulerRnti(r), Behind(r) =< 1
                 PROVE  registry'[r].bind = assoc'[Watched][r]
      OBVIOUS
    <3>1. heard[r] = assoc[Watched][r] /\ assoc' = assoc
      BY DEF Behind, UpdateSchedulerRnti
    <3>2. registry[r] \in [bind : Slot, profile : Slot]
      BY <2>1 DEF TypeOK
    <3>3. registry'[r] = [registry[r] EXCEPT !.bind = heard[r]]
      BY <2>1 DEF UpdateSchedulerRnti, TypeOK
    <3> QED
      BY <3>1, <3>2, <3>3
  <2> QED
    BY <2>2, <2>3, <2>4, <2>5 DEF ComesNearer
<1>2. TypeInv /\ [Next]_vars =>
        [\A r \in Rnti : AtRest(r) => ComesNearer(r) \/ Disturbs(r)]_vars
  BY <1>1
<1>3. TypeInv /\ [Next]_vars => TypeInv'
  BY StepTypeInv
<1> QED
  BY <1>2, <1>3, InitTypeInv, PTL DEF Spec, ListSettles

(***************************************************************************)
(* One call is awaited at a time, also when calls fail or hang: the one of *)
(* the thread that holds the lock, for its own request, and its array is   *)
(* still there.                                                            *)
(***************************************************************************)
Own(t, c) ==
  /\ pc[t] = "wait" /\ lock = t
  /\ c.id = req[t].id /\ c.node = turn[t] - 1
  /\ c.cmd = req[t].cmd /\ c.rnti = req[t].rnti /\ c.bind = req[t].bind
  /\ c.stage # "dangling"

OneAwaited ==
  /\ \A c \in calls : c.awaited => \E t \in Thread : Own(t, c)
  /\ \A c, d \in calls : c.awaited /\ d.awaited => c = d
  /\ \A t \in Thread : pc[t] = "wait" => \E c \in calls : c.awaited /\ Own(t, c)

BroadcastInv == TypeInv /\ Locked /\ OneAwaited

\* Nobody waits, so no call is awaited.
LEMMA NoneAwaited ==
  ASSUME BroadcastInv, \A t \in Thread : pc[t] # "wait"
  PROVE  \A c \in calls : ~c.awaited
BY DEF BroadcastInv, OneAwaited, Own

\* Steps of threads that do not broadcast.
LEMMA AsideAwaited ==
  ASSUME BroadcastInv, calls' = calls, turn' = turn,
         \A u \in Thread : pc[u] = "wait" => pc'[u] = "wait" /\ req'[u] = req[u] /\ lock' = lock,
         \A u \in Thread : pc'[u] = "wait" => pc[u] = "wait"
  PROVE  OneAwaited'
<1>1. \A t \in Thread, c \in calls : Own(t, c) => Own(t, c)'
  BY DEF Own
<1> QED
  BY <1>1 DEF BroadcastInv, OneAwaited

LEMMA SendAwaited ==
  ASSUME BroadcastInv, NEW t \in Thread, Send(t)
  PROVE  OneAwaited'
<1>1. lock = t /\ \A u \in Thread : pc[u] # "wait"
  BY DEF BroadcastInv, Locked, Send
<1>2. \A c \in calls : ~c.awaited
  BY <1>1, NoneAwaited
<1>3. PICK c : c = NewCall(t)
  OBVIOUS
<1>4. /\ pc'[t] = "wait" /\ lock' = lock /\ req' = req /\ turn'[t] = turn[t] + 1
      /\ turn[t] \in Int
      /\ \A u \in Thread : u # t => pc'[u] # "wait"
      /\ calls' = calls \cup {c}
  BY <1>1, <1>3 DEF BroadcastInv, TypeInv, TypeOK, Send, NewCall, server
<1>5. c.awaited /\ Own(t, c)'
  BY <1>1, <1>3, <1>4 DEF NewCall, Own
<1> QED
  BY <1>2, <1>3, <1>4, <1>5 DEF OneAwaited

\* The call is not awaited any more, whatever becomes of it.
LEMMA ProceedAwaited ==
  ASSUME BroadcastInv, NEW t \in Thread, Return(t) \/ Raise(t) \/ TimeOut(t)
  PROVE  OneAwaited'
<1>1. PICK c \in calls :
        /\ Awaits(t, c)
        /\ \/ calls' = calls \ {c}
           \/ calls' = (calls \ {c}) \cup {[c EXCEPT !.awaited = FALSE]}
  BY DEF Return, Raise, TimeOut
<1>2. c \in Call
  BY DEF BroadcastInv, TypeInv, TypeOK
<1>3. [c EXCEPT !.awaited = FALSE].awaited = FALSE
  BY <1>2 DEF Call
<1>4. \A d \in calls' : ~d.awaited
  BY <1>1, <1>3 DEF Awaits, BroadcastInv, OneAwaited
<1>5. pc[t] = "wait" /\ pc' = [pc EXCEPT ![t] = "send"]
  BY DEF Return, Raise, TimeOut, Awaits, Proceed
<1>6. \A u \in Thread : pc'[u] # "wait"
  BY <1>5 DEF BroadcastInv, Locked, TypeInv, TypeOK
<1> QED
  BY <1>4, <1>6 DEF OneAwaited

\* The call goes on: its array is read, or its message delivered.
LEMMA CallAwaited ==
  ASSUME BroadcastInv, NEW c \in calls, CallStep(c)
  PROVE  OneAwaited'
<1>0. UNCHANGED <<pc, req, turn, lock>>
  BY DEF CallStep, Encode, Collect, EncodeFreed, Deliver, Lose, InCalls, server
<1>1. CASE ~c.awaited
  <2>1. PICK d \in Call : d.awaited = c.awaited /\ (InCalls(c, {d}) \/ InCalls(c, {}))
    BY CallStepLeaves DEF BroadcastInv
  <2>2. \A e \in calls' : e.awaited => e \in calls
    BY <1>1, <2>1 DEF InCalls
  <2>3. \A e \in calls : e.awaited => e \in calls'
    BY <1>1, <2>1 DEF InCalls
  <2>4. \A t \in Thread, e \in calls : Own(t, e) => Own(t, e)'
    BY <1>0 DEF Own
  <2> QED
    BY <1>0, <2>2, <2>3, <2>4 DEF BroadcastInv, OneAwaited
<1>2. CASE c.awaited
  <2>1. PICK t \in Thread : Own(t, c)
    BY <1>2 DEF BroadcastInv, OneAwaited
  <2>2. Encode(c) \/ Deliver(c)
    BY <1>2, <2>1 DEF CallStep, Collect, EncodeFreed, Lose, Own
  <2>3. c \in Call
    BY DEF BroadcastInv, TypeInv, TypeOK
  <2>4. \E stage \in {"sent", "applied"} : calls' = (calls \ {c}) \cup {[c EXCEPT !.stage = stage]}
    BY <1>2, <2>2 DEF Encode, Deliver, InCalls
  <2>5. PICK stage \in {"sent", "applied"} : calls' = (calls \ {c}) \cup {[c EXCEPT !.stage = stage]}
    BY <2>4
  <2> DEFINE d == [c EXCEPT !.stage = stage]
  <2>6. /\ d.id = c.id /\ d.node = c.node /\ d.cmd = c.cmd /\ d.rnti = c.rnti
        /\ d.bind = c.bind /\ d.awaited = c.awaited /\ d.stage = stage
    BY <2>3 DEF Call
  <2>7. calls' = (calls \ {c}) \cup {d}
    BY <2>5
  <2> HIDE DEF d
  <2>8. Own(t, d)' /\ d.awaited
    BY <1>0, <1>2, <2>1, <2>6 DEF Own
  <2>9. \A e \in calls' : e.awaited => e = d
    BY <1>2, <2>7 DEF BroadcastInv, OneAwaited
  <2>10. \A u \in Thread : pc'[u] = "wait" => u = t
    BY <1>0, <2>1 DEF BroadcastInv, Locked, Own
  <2> QED
    BY <2>7, <2>8, <2>9, <2>10 DEF OneAwaited
<1> QED
  BY <1>1, <1>2

LEMMA BroadcastStep == BroadcastInv /\ [Next]_vars => BroadcastInv'
<1> SUFFICES ASSUME BroadcastInv, [Next]_vars PROVE OneAwaited'
  BY StepTypeInv, LockedStep DEF BroadcastInv
<1>1. ASSUME NEW t \in Thread, NEW cmd, NEW r, NEW b, Begin(t, cmd, r, b) PROVE OneAwaited'
  <2>1. /\ pc[t] = "idle" /\ calls' = calls /\ turn' = turn /\ lock' = lock /\ pc'[t] = "lock"
        /\ \A u \in Thread : u # t => pc'[u] = pc[u] /\ req'[u] = req[u]
    BY <1>1 DEF Begin, BroadcastInv, TypeInv, TypeOK
  <2> QED
    BY <2>1, AsideAwaited
<1>2. ASSUME NEW t \in Thread, Acquire(t) PROVE OneAwaited'
  <2>1. /\ lock = None /\ calls' = calls /\ turn' = turn /\ pc' = [pc EXCEPT ![t] = "send"]
    BY <1>2 DEF Acquire
  <2>2. \A u \in Thread : pc[u] # "wait" /\ pc'[u] # "wait"
    BY <2>1 DEF BroadcastInv, Locked, TypeInv, TypeOK, SliceAssumption
  <2> QED
    BY <2>1, <2>2, AsideAwaited
<1>3. ASSUME NEW t \in Thread, Failed(t) \/ Bound(t) PROVE OneAwaited'
  <2>1. /\ pc[t] = "send" /\ calls' = calls
        /\ pc' = [pc EXCEPT ![t] = "idle"] \/ pc' = [pc EXCEPT ![t] = "touch"]
    BY <1>3 DEF Failed, Bound, Answer
  <2>2. \A u \in Thread : pc[u] # "wait" /\ pc'[u] # "wait"
    BY <2>1 DEF BroadcastInv, Locked, TypeInv, TypeOK
  <2>3. \A c \in calls' : ~c.awaited
    BY <2>1, <2>2, NoneAwaited
  <2> QED
    BY <2>2, <2>3 DEF OneAwaited
<1>4. ASSUME NEW t \in Thread, Touch(t) \/ TouchProfile(t) \/ SetActiveMode(t) PROVE OneAwaited'
  <2>1. /\ pc[t] \in {"touch", "profile", "state"} /\ calls' = calls /\ turn' = turn /\ lock' = lock
        /\ \E stage \in {"idle", "profile", "state"} : pc' = [pc EXCEPT ![t] = stage]
        /\ req' = req \/ req' = [req EXCEPT ![t] = Idle]
    BY <1>4 DEF Touch, TouchProfile, SetActiveMode, Answer
  <2>2. /\ pc'[t] # "wait"
        /\ \A u \in Thread : u # t => pc'[u] = pc[u] /\ req'[u] = req[u]
    BY <2>1 DEF BroadcastInv, TypeInv, TypeOK
  <2> QED
    BY <2>1, <2>2, AsideAwaited
<1>5. ASSUME Watch \/ UNCHANGED vars PROVE OneAwaited'
  <2>1. UNCHANGED <<pc, req, turn, lock, calls>>
    BY <1>5, WatchAside DEF Aside
  <2> QED
    BY <2>1, AsideAwaited
<1> QED
  BY <1>1, <1>2, <1>3, <1>4, <1>5, SendAwaited, ProceedAwaited, CallAwaited DEF Next, Handle

LEMMA BroadcastInvariance == Spec => []BroadcastInv
<1>1. Init => BroadcastInv
  <2> SUFFICES ASSUME Init PROVE BroadcastInv
    OBVIOUS
  <2>1. OneAwaited
    BY DEF Init, OneAwaited
  <2> QED
    BY <2>1, InitOrder DEF BroadcastInv, OrderInv
<1> QED
  BY <1>1, BroadcastStep, PTL DEF Spec

\* Whatever calls raise, hang or come back late, at most one is awaited, by the
\* thread that holds the lock, for its own request; and the array of a message
\* is freed under a call only when nobody waits for this call any more, so that
\* no acknowledgement ever is for what was read from a freed array.
THEOREM SliceOneAwaited == Spec => []OneAwaited
<1>1. BroadcastInv => OneAwaited
  BY DEF BroadcastInv
<1> QED
  BY <1>1, BroadcastInvariance, PTL

(***************************************************************************)
(* A request is answered after a bounded number of steps of its thread,    *)
(* and no thread that serves one is ever without a step it could take,     *)
(* unless it waits for a lock whose holder has one.                        *)
(***************************************************************************)

\* how many steps of its own the thread is from its answer, at most
Left(t) ==
  IF pc[t] = "idle" THEN 0
  ELSE IF pc[t] = "state" THEN 1
  ELSE IF pc[t] = "profile" THEN 2
  ELSE IF pc[t] = "touch" THEN 3
  ELSE IF pc[t] = "send" THEN 4 + 2 * (NumNodes + 1 - turn[t])
  ELSE 5 + 2 * (NumNodes + 1 - turn[t])

GoesOn(t) ==
  /\ Acquire(t) \/ Handle(t) => Left(t)' < Left(t)
  /\ pc[t] # "idle" => Left(t)' < Left(t) \/ UNCHANGED <<pc[t], turn[t], req[t]>>

\* the stage of a request that has a profile to record
Profiled == \A t \in Thread : pc[t] = "profile" => req[t].cmd \in {"set_profile", "set_mode"}

\* what each stage waits for is there: an awaited call may be given up at any
\* time, and who holds the lock is at a stage that does not wait for a lock
NobodyStuck ==
  \A t \in Thread :
    /\ pc[t] = "wait" => \E c \in calls : Awaits(t, c)
    /\ pc[t] = "lock" => lock = None \/ \E u \in Thread : lock = u /\ pc[u] \in {"send", "wait"}
    /\ pc[t] = "profile" => req[t].cmd \in {"set_profile", "set_mode"}

\* Steps of other threads and of calls.
LEMMA OthersLeave ==
  ASSUME TypeInv, [Next]_vars, NEW t \in Thread, pc[t] # "idle", ~Acquire(t), ~Handle(t)
  PROVE  UNCHANGED <<pc[t], turn[t], req[t]>>
<1>0. TypeOK
  BY DEF TypeInv
<1>1. ASSUME NEW u \in Thread, NEW cmd, NEW r, NEW b, Begin(u, cmd, r, b)
      PROVE  UNCHANGED <<pc[t], turn[t], req[t]>>
  BY <1>0, <1>1 DEF Begin, TypeOK
<1>2. ASSUME NEW u \in Thread, u # t, Acquire(u) PROVE UNCHANGED <<pc[t], turn[t], req[t]>>
  BY <1>0, <1>2 DEF Acquire, TypeOK, server
<1>3. ASSUME NEW u \in Thread, u # t, Handle(u) PROVE UNCHANGED <<pc[t], turn[t], req[t]>>
  <2>1. CASE Send(u)
    BY <1>0, <1>3, <2>1 DEF Send, TypeOK, server
  <2>2. CASE Return(u) \/ Raise(u) \/ TimeOut(u)
    BY <1>0, <1>3, <2>2 DEF Return, Raise, TimeOut, Proceed, TypeOK
  <2>3. CASE Failed(u) \/ Bound(u)
    BY <1>0, <1>3, <2>3 DEF Failed, Bound, Answer, TypeOK
  <2>4. CASE Touch(u) \/ TouchProfile(u) \/ SetActiveMode(u)
    BY <1>0, <1>3, <2>4 DEF Touch, TouchProfile, SetActiveMode, Answer, TypeOK
  <2> QED
    BY <1>3, <2>1, <2>2, <2>3, <2>4 DEF Handle
<1>4. ASSUME NEW c \in calls, CallStep(c) PROVE UNCHANGED <<pc[t], turn[t], req[t]>>
  BY <1>4 DEF CallStep, Encode, Collect, EncodeFreed, Deliver, Lose, InCalls, server
<1>5. ASSUME Watch \/ UNCHANGED vars PROVE UNCHANGED <<pc[t], turn[t], req[t]>>
  BY <1>5, WatchAside DEF Aside
<1> QED
  BY <1>1, <1>2, <1>3, <1>4, <1>5 DEF Next

\* A thread's own step brings it nearer to its answer.
LEMMA OwnStepGoesOn ==
  ASSUME TypeInv, NEW t \in Thread, Acquire(t) \/ Handle(t)
  PROVE  Left(t)' < Left(t)
<1>0. /\ pc \in [Thread -> {"idle", "lock", "send", "wait", "touch", "profile", "state"}]
      /\ turn \in [Thread -> 1 .. NumNodes + 1] /\ NumNodes \in Nat \ {0}
  BY SliceAssumption DEF TypeInv, TypeOK, SliceAssumption
<1>1. CASE Acquire(t)
  <2>1. pc[t] = "lock" /\ pc'[t] = "send" /\ turn' = turn
    BY <1>0, <1>1 DEF Acquire
  <2> QED
    BY <1>0, <2>1 DEF Left
<1>2. CASE Send(t)
  <2>1. pc[t] = "send" /\ pc'[t] = "wait" /\ turn'[t] = turn[t] + 1
    BY <1>0, <1>2 DEF Send
  <2> QED
    BY <1>0, <2>1 DEF Left
<1>3. CASE Return(t) \/ Raise(t) \/ TimeOut(t)
  <2>1. pc[t] = "wait" /\ pc'[t] = "send" /\ turn' = turn
    BY <1>0, <1>3 DEF Return, Raise, TimeOut, Proceed, Awaits
  <2> QED
    BY <1>0, <2>1 DEF Left
<1>4. CASE Failed(t) \/ Bound(t)
  <2>1. pc[t] = "send" /\ pc'[t] \in {"idle", "touch"}
    BY <1>0, <1>4 DEF Failed, Bound, Answer
  <2> QED
    BY <1>0, <2>1 DEF Left
<1>5. CASE Touch(t) \/ TouchProfile(t) \/ SetActiveMode(t)
  <2>1. \/ pc[t] = "touch" /\ pc'[t] \in {"idle", "profile"}
        \/ pc[t] = "profile" /\ pc'[t] \in {"idle", "state"}
        \/ pc[t] = "state" /\ pc'[t] = "idle"
    BY <1>0, <1>5 DEF Touch, TouchProfile, SetActiveMode, Answer
  <2> QED
    BY <2>1 DEF Left
<1> QED
  BY <1>1, <1>2, <1>3, <1>4, <1>5 DEF Handle

LEMMA ProfiledStep ==
  ASSUME TypeInv, Profiled, [Next]_vars
  PROVE  Profiled'
<1> SUFFICES ASSUME NEW t \in Thread, pc'[t] = "profile"
             PROVE  req'[t].cmd \in {"set_profile", "set_mode"}
  BY DEF Profiled
<1>0. TypeOK
  BY DEF TypeInv
<1>1. CASE pc[t] # "idle" /\ ~Acquire(t) /\ ~Handle(t)
  <2>1. UNCHANGED <<pc[t], turn[t], req[t]>>
    BY <1>1, OthersLeave
  <2> QED
    BY <2>1 DEF Profiled
<1>2. CASE Acquire(t) \/ Handle(t)
  <2>1. Touch(t)
    BY <1>0, <1>2 DEF Acquire, Handle, Send, Return, Raise, TimeOut, Proceed, Failed, Bound,
                      TouchProfile, SetActiveMode, Answer, TypeOK
  <2>2. req[t].cmd # "ue_slice_assoc" /\ req' = req
    BY <1>0, <2>1 DEF Touch, Answer, TypeOK
  <2>3. req[t].cmd \in BindCmd
    BY <2>1 DEF Touch, TypeInv, Serves
  <2> QED
    BY <2>2, <2>3 DEF BindCmd
<1>3. CASE pc[t] = "idle" /\ ~Acquire(t) /\ ~Handle(t)
  <2>1. pc'[t] \in {"idle", "lock"}
    <3>1. ASSUME NEW u \in Thread, NEW cmd, NEW r, NEW b, Begin(u, cmd, r, b)
          PROVE  pc'[t] \in {"idle", "lock"}
      BY <1>0, <1>3, <3>1 DEF Begin, TypeOK
    <3>2. ASSUME NEW u \in Thread, u # t, Acquire(u) \/ Handle(u) PROVE pc'[t] = pc[t]
      BY <1>0, <3>2 DEF Acquire, Handle, Send, Return, Raise, TimeOut, Proceed, Failed, Bound,
                        Touch, TouchProfile, SetActiveMode, Answer, TypeOK
    <3>3. ASSUME (\E c \in calls : CallStep(c)) \/ Watch \/ UNCHANGED vars PROVE pc' = pc
      BY <3>3, WatchAside DEF CallStep, Encode, Collect, EncodeFreed, Deliver, Lose, InCalls, Aside
    <3> QED
      BY <1>3, <3>1, <3>2, <3>3 DEF Next
  <2> QED
    BY <2>1
<1> QED
  BY <1>1, <1>2, <1>3

\* Every request is answered within 2 * NumNodes + 5 steps of its own thread,
\* each of which it can take as soon as it has the lock: a node that never
\* answers costs the others one time limit, a broadcast at most NumNodes.
THEOREM SliceRequestsEnd ==
  Spec => /\ [](\A t \in Thread : Left(t) \in 0 .. 2 * NumNodes + 5
                                  /\ (Left(t) = 0 <=> pc[t] = "idle"))
          /\ []NobodyStuck
          /\ [][\A t \in Thread : GoesOn(t)]_vars
<1>1. Init => Profiled
  BY DEF Init, Profiled
<1>2. BroadcastInv /\ Profiled /\ [Next]_vars => Profiled'
  BY ProfiledStep DEF BroadcastInv
<1>3. BroadcastInv => \A t \in Thread : Left(t) \in 0 .. 2 * NumNodes + 5
                                        /\ (Left(t) = 0 <=> pc[t] = "idle")
  <2> SUFFICES ASSUME BroadcastInv, NEW t \in Thread
               PROVE  Left(t) \in 0 .. 2 * NumNodes + 5 /\ (Left(t) = 0 <=> pc[t] = "idle")
    OBVIOUS
  <2>1. /\ turn[t] \in 1 .. NumNodes + 1 /\ NumNodes \in Nat
        /\ pc[t] \in {"idle", "lock", "send", "wait", "touch", "profile", "state"}
    BY SliceAssumption DEF BroadcastInv, TypeInv, TypeOK, SliceAssumption
  <2> QED
    BY <2>1 DEF Left
<1>4. BroadcastInv /\ Profiled => NobodyStuck
  <2> SUFFICES ASSUME BroadcastInv, Profiled, NEW t \in Thread
               PROVE  /\ pc[t] = "wait" => \E c \in calls : Awaits(t, c)
                      /\ pc[t] = "lock" =>
                           lock = None \/ \E u \in Thread : lock = u /\ pc[u] \in {"send", "wait"}
    BY DEF NobodyStuck, Profiled
  <2>1. pc[t] = "wait" => \E c \in calls : Awaits(t, c)
    BY DEF BroadcastInv, OneAwaited, Own, Awaits
  <2>2. lock = None \/ \E u \in Thread : lock = u /\ pc[u] \in {"send", "wait"}
    BY DEF BroadcastInv, Locked, TypeInv, TypeOK
  <2> QED
    BY <2>1, <2>2
<1>5. BroadcastInv /\ [Next]_vars => [\A t \in Thread : GoesOn(t)]_vars
  <2> SUFFICES ASSUME BroadcastInv, [Next]_vars, NEW t \in Thread PROVE GoesOn(t)
    OBVIOUS
  <2>1. Acquire(t) \/ Handle(t) => Left(t)' < Left(t)
    BY OwnStepGoesOn DEF BroadcastInv
  <2>2. pc[t] # "idle" /\ ~Acquire(t) /\ ~Handle(t) => UNCHANGED <<pc[t], turn[t], req[t]>>
    BY OthersLeave DEF BroadcastInv
  <2> QED
    BY <2>1, <2>2 DEF GoesOn
<1> QED
  BY <1>1, <1>2, <1>3, <1>4, <1>5, BroadcastInvariance, PTL DEF Spec
=============================================================================
