------------------------- MODULE RolloutLinkProofs -------------------------
(***************************************************************************)
(* Proofs about the manager node and the policy node together: a version   *)
(* of a rollout names one prompt, a new policy episode does not move on an *)
(* old prompt, every variable keeps its type, and a head read counts once  *)
(* in a rollout in which no PolicyState overtook one with an older read.   *)
(***************************************************************************)
EXTENDS RolloutLink, SequenceTheorems, TLAPS

View == [seq : Nat, st : TaskStates, left : Nat, t0 : Nat]

ViewOK == rollout \in Nat /\ view \in View

\* What a TaskState of the current rollout says is what the manager said at
\* that version, and the manager has gone forward since.
Agrees(t) ==
  /\ t.ro \in Nat /\ t.ro <= rollout /\ t.seq \in Nat
  /\ t.ro = rollout /\ t.ro > 0 =>
       /\ t.seq <= view.seq
       /\ t.seq = view.seq => t.st = view.st /\ t.left = view.left

LinkInv == ViewOK /\ Agrees(prompt) /\ Agrees(wire)

\* The view of this rollout is the same or one version later.
Forward == view' \in View /\ (view' = view \/ view'.seq = view.seq + 1)

(* _bump keeps the view or raises its version by one. *)
LEMMA BumpForward ==
  ASSUME NEW v \in View, NEW st \in TaskStates, NEW l \in Nat, NEW t \in Nat
  PROVE  /\ Bumped(v, st, l, t) \in View
         /\ Bumped(v, st, l, t) = v \/ Bumped(v, st, l, t).seq = v.seq + 1
BY DEF Bumped, View

(* A bumped view is a step forward. *)
LEMMA BumpedForward ==
  ASSUME ViewOK, NEW st \in TaskStates, NEW l \in Nat, NEW t \in Nat, view' = Bumped(view, st, l, t)
  PROVE  Forward
<1>1. view \in View
  BY DEF ViewOK
<1>2. /\ Bumped(view, st, l, t) \in View
      /\ Bumped(view, st, l, t) = view \/ Bumped(view, st, l, t).seq = view.seq + 1
  BY <1>1, BumpForward
<1> QED BY <1>2 DEF Forward

(* The constants are natural numbers. *)
LEMMA StagesNat == Stages \in Nat /\ HeldStages \in Nat
BY ConstantsAssumption

(* stop() and abort() move the view forward. *)
LEMMA EndedForward ==
  ASSUME ViewOK, NEW how, NEW st \in TaskStates, Ended(how, st)
  PROVE  Forward
<1>1. view.left \in Nat /\ view.t0 \in Nat
  BY DEF ViewOK, View
<1>2. CASE view' = Bumped(view, st, view.left, view.t0)
  BY <1>1, <1>2, BumpedForward
<1>3. CASE view' = view
  BY <1>3 DEF Forward, ViewOK
<1> QED BY <1>2, <1>3 DEF Ended

(* Applying a head read moves the view forward. *)
LEMMA HeadForward ==
  ASSUME ViewOK, NEW m, OnHead(m)
  PROVE  Forward
<1>1. view.left \in Nat /\ view.t0 \in Nat /\ view \in View
  BY DEF ViewOK, View
<1>2. "active" \in TaskStates /\ "done" \in TaskStates /\ "blocked" \in TaskStates
  BY DEF TaskStates
<1>a. view.t0 + 1 \in Nat
  BY <1>1
<1>3. ASSUME Seen(m.read) PROVE Forward
  <2>1. CASE view' = view
    BY <2>1, <1>1 DEF Forward
  <2>2. CASE view.left > 1 /\ view' = Bumped(view, "active", view.left - 1, view.t0 + 1)
    <3>1. view.left - 1 \in Nat
      BY <2>2, <1>1
    <3> QED BY <2>2, <3>1, <1>a, <1>2, BumpedForward
  <2>3. CASE view' = Bumped(view, "done", view.left, view.t0)
    BY <2>3, <1>1, <1>2, BumpedForward
  <2> QED BY <1>3, <2>1, <2>2, <2>3 DEF Seen
<1>4. ASSUME Stalled PROVE Forward
  <2>1. ASSUME NEW l \in view.left..Stages, view' = Bumped(view, "active", l, view.t0 + 1)
        PROVE  Forward
    <3>1. l \in Nat
      BY <1>1, StagesNat
    <3> QED BY <2>1, <3>1, <1>a, <1>2, BumpedForward
  <2>2. CASE view' = Bumped(view, "blocked", view.left, view.t0)
    BY <2>2, <1>1, <1>2, BumpedForward
  <2> QED BY <1>4, <2>1, <2>2 DEF Stalled
<1>5. ASSUME view' = Planned(view, m.grip) PROVE Forward
  <2>1. CASE m.grip
    BY <1>5, <2>1, <1>2, StagesNat, BumpedForward DEF Planned
  <2>2. CASE ~m.grip
    BY <1>5, <2>2, <1>2, StagesNat, BumpedForward DEF Planned
  <2> QED BY <2>1, <2>2
<1>6. ASSUME view' = view PROVE Forward
  BY <1>6, <1>1 DEF Forward
<1> QED BY <1>3, <1>4, <1>5, <1>6 DEF OnHead, Observe

(* When the view moves forward, TaskStates that were said keep agreeing. *)
LEMMA ForwardAgrees ==
  ASSUME ViewOK, Forward, rollout' = rollout, NEW t, Agrees(t)
  PROVE  /\ ViewOK'
         /\ t.ro \in Nat /\ t.ro <= rollout' /\ t.seq \in Nat
         /\ t.ro = rollout' /\ t.ro > 0 =>
              /\ t.seq <= view'.seq
              /\ t.seq = view'.seq => t.st = view'.st /\ t.left = view'.left
BY DEF ViewOK, Forward, Agrees, View

(* What is published agrees: it is the current view, or nothing. *)
LEMMA PublishAgrees ==
  ASSUME ViewOK, Agrees(wire), rollout' = rollout, view' = view,
         Publish(rollout, view) \/ PublishForced(rollout, view)
  PROVE  Agrees(wire)'
BY DEF ViewOK, Agrees, Publish, PublishForced, Task, View

(* The initial state agrees. *)
LEMMA InitLink == Init => LinkInv
BY DEF Init, LinkInv, ViewOK, View, Agrees, NoView, NoTask, Await, TaskStates

(* Every step keeps the invariant. *)
LEMMA NextLink == LinkInv /\ [Next]_vars => LinkInv'
<1> SUFFICES ASSUME LinkInv, [Next]_vars PROVE LinkInv'
  OBVIOUS
<1> USE DEF LinkInv
<1>a. {"blocked", "idle", "probing", "active"} \subseteq TaskStates
  BY DEF TaskStates
\* Steps that leave the manager and the TaskStates alone.
<1>b. ASSUME UNCHANGED <<rollout, view, prompt, wire>> PROVE LinkInv'
  BY <1>b DEF ViewOK, Agrees
\* Steps that move only the view.
<1>c. ASSUME Forward, UNCHANGED <<rollout, prompt, wire>> PROVE LinkInv'
  BY <1>c, ForwardAgrees DEF Agrees
\* Steps that publish the view they find.
<1>d. ASSUME Publish(rollout, view) \/ PublishForced(rollout, view),
             UNCHANGED <<rollout, view, prompt>>
      PROVE  LinkInv'
  <2>1. Agrees(wire)'
    BY <1>d, PublishAgrees
  <2> QED BY <1>d, <2>1 DEF ViewOK, Agrees
<1>1. ASSUME Begin PROVE LinkInv'
  <2>1. NoView \in View /\ rollout \in Nat
    BY DEF NoView, View, TaskStates, ViewOK
  <2>2. view' \in View
    <3>1. CASE view' = Bumped(NoView, "probing", 0, 0)
      BY <3>1, <2>1, <1>a, BumpForward
    <3>2. CASE view' = Planned(NoView, FirstPolicy.grip)
      BY <3>2, <2>1, <1>a, StagesNat, BumpForward DEF Planned
    <3> QED BY <1>1, <3>1, <3>2 DEF Begin
  <2>3. rollout' = rollout + 1 /\ prompt' = prompt
    BY <1>1 DEF Begin, polVars
  <2>4. wire' = wire \/ wire' = Task(rollout + 1, view')
    BY <1>1 DEF Begin, Publish
  <2>5. ViewOK'
    BY <2>1, <2>2, <2>3 DEF ViewOK
  <2>6. Agrees(prompt)'
    BY <2>1, <2>3 DEF Agrees
  <2>7. Agrees(wire)'
    BY <2>1, <2>2, <2>3, <2>4 DEF Agrees, Task, View
  <2> QED BY <2>5, <2>6, <2>7
<1>2. ASSUME BeginFails PROVE LinkInv'
  BY <1>2 DEF BeginFails, ViewOK, Agrees, NoView, View, TaskStates, polVars
<1>3. ASSUME SendGoal \/ GoalAccepted PROVE LinkInv'
  BY <1>3, <1>b DEF SendGoal, GoalAccepted, polVars
<1>4. ASSUME GoalRefused \/ LoopCancel PROVE LinkInv'
  <2>1. Forward
    BY <1>4, <1>a, EndedForward DEF GoalRefused, LoopCancel
  <2> QED BY <1>4, <2>1, <1>c DEF GoalRefused, LoopCancel, polVars
<1>5. ASSUME PumpMessage PROVE LinkInv'
  <2>1. Forward
    <3>1. CASE NewRead(Head(pq))
      BY <1>5, <3>1, HeadForward DEF PumpMessage
    <3>2. CASE ~NewRead(Head(pq))
      BY <1>5, <3>2 DEF PumpMessage, Forward, ViewOK
    <3> QED BY <3>1, <3>2
  <2> QED BY <1>5, <2>1, <1>c DEF PumpMessage, polVars
<1>6. ASSUME LoopPass PROVE LinkInv'
  <2>1. CASE ~PolicyEnded
    BY <1>6, <2>1, <1>d DEF LoopPass, polVars
  <2>2. CASE PolicyEnded
    <3>1. Forward /\ rollout' = rollout /\ prompt' = prompt
      BY <1>6, <2>2, <1>a, EndedForward DEF LoopPass, polVars
    <3>2. wire' = wire \/ wire' = Task(rollout, view)
      BY <1>6, <2>2 DEF LoopPass, Publish
    <3>3. Agrees(Task(rollout, view))
      BY DEF Agrees, Task, ViewOK, View
    <3>4. ViewOK' /\ Agrees(prompt)'
      BY <3>1, ForwardAgrees DEF Agrees
    <3>5. Agrees(wire)'
      BY <3>1, <3>2, <3>3, ForwardAgrees DEF Agrees
    <3> QED BY <3>4, <3>5
  <2> QED BY <2>1, <2>2
<1>7. ASSUME Finish PROVE LinkInv'
  BY <1>7, <1>d DEF Finish, polVars
<1>8. ASSUME Crash PROVE LinkInv'
  <2>1. Forward /\ rollout' = rollout /\ prompt' = prompt
    BY <1>8, <1>a, EndedForward DEF Crash, polVars
  <2>2. wire' = Task(rollout, view')
    BY <1>8 DEF Crash, PublishForced
  <2>3. ViewOK' /\ Agrees(prompt)'
    BY <2>1, ForwardAgrees DEF Agrees
  <2>4. Agrees(wire)'
    BY <2>1, <2>2, <2>3 DEF Agrees, Task, ViewOK, View
  <2> QED BY <2>3, <2>4
<1>9. ASSUME HandOver PROVE LinkInv'
  BY <1>9, <1>b DEF HandOver, mgrVars, polVars
<1>10. ASSUME TickInactive \/ TickActive \/ ObservationChange PROVE LinkInv'
  BY <1>10, <1>b DEF TickInactive, TickActive, ObservationChange, mgrVars, polVars
<1>11. ASSUME TakeTask PROVE LinkInv'
  BY <1>11 DEF TakeTask, mgrVars, ViewOK, Agrees, NoTask
<1>12. ASSUME NEW r \in Rollouts, PolicyGoal(r) PROVE LinkInv'
  <2>1. ASSUME RunPrompt(r) PROVE LinkInv'
    BY <2>1 DEF RunPrompt, mgrVars, ViewOK, Agrees, Await
  <2>2. ASSUME AcceptGoal(r) \/ SetupFails(r) \/ RunBegin(r) \/ RunEnd(r) PROVE LinkInv'
    BY <2>2, <1>b DEF AcceptGoal, SetupFails, RunBegin, RunEnd, mgrVars, polVars
  <2> QED BY <1>12, <2>1, <2>2 DEF PolicyGoal
<1>13. CASE UNCHANGED vars
  BY <1>13, <1>b DEF vars, mgrVars, polVars
<1> QED BY <1>1, <1>2, <1>3, <1>4, <1>5, <1>6, <1>7, <1>8, <1>9, <1>10, <1>11, <1>12, <1>13
        DEF Next, Manager, Policy

(* A version names one prompt: a prompt of this rollout with the manager's
   version is the manager's current subtask. *)
THEOREM VersionsAgree == Spec => []VersionNamesPrompt
<1>1. LinkInv => VersionNamesPrompt
  BY DEF LinkInv, Agrees, VersionNamesPrompt
<1> QED BY <1>1, InitLink, NextLink, PTL DEF Spec

-----------------------------------------------------------------------------
(* A new policy episode does not run an old prompt.                        *)

\* What is on its way was published in this rollout, and a goal is never
\* sent before its rollout begins.
PromptInv ==
  /\ rollout \in Nat /\ DOMAIN pgoal = Rollouts
  /\ wire # NoTask => wire.ro = rollout
  /\ \A r \in Rollouts : pgoal[r] # "none" => r <= rollout
  /\ NoOldPrompt

(* Initially no goal was sent and nothing is on its way. *)
LEMMA InitPrompt == Init => PromptInv
BY DEF Init, PromptInv, NoOldPrompt

(* Every step keeps the invariant. *)
LEMMA NextPrompt == PromptInv /\ [Next]_vars => PromptInv'
<1> SUFFICES ASSUME PromptInv, [Next]_vars PROVE PromptInv'
  OBVIOUS
\* Steps of the manager that at most publish a TaskState of this rollout.
<1>a. ASSUME UNCHANGED <<rollout, pgoal, prompt>>, wire' = wire \/ wire'.ro = rollout
      PROVE  PromptInv'
  BY <1>a DEF PromptInv, NoOldPrompt
\* Steps that take a goal of the policy on.
<1>b. ASSUME NEW r \in Rollouts, NEW g, pgoal' = [pgoal EXCEPT ![r] = g],
             pgoal[r] # "none", UNCHANGED <<rollout, wire>>,
             \/ prompt' = Await
             \/ /\ prompt' = prompt
                /\ g \in {"prompted", "running"} => pgoal[r] \in {"prompted", "running"}
      PROVE  PromptInv'
  <2>1. \A q \in Rollouts : pgoal'[q] = IF q = r THEN g ELSE pgoal[q]
    BY <1>b DEF PromptInv
  <2>2. DOMAIN pgoal' = Rollouts
    BY <1>b DEF PromptInv
  <2>3. NoOldPrompt'
    BY <1>b, <2>1 DEF PromptInv, NoOldPrompt, Await
  <2> QED BY <1>b, <2>1, <2>2, <2>3 DEF PromptInv
<1>1. ASSUME Begin \/ BeginFails PROVE PromptInv'
  <2>1. wire = NoTask /\ rollout' = rollout + 1 /\ UNCHANGED <<pgoal, prompt>>
    BY <1>1 DEF Begin, BeginFails, Requested, goalVars, polVars
  <2>2. wire' = wire \/ wire'.ro = rollout'
    BY <1>1, <2>1 DEF Begin, BeginFails, Publish, Task
  <2>3. \A r \in Rollouts : r \in Nat
    BY DEF Rollouts
  <2> QED BY <2>1, <2>2, <2>3 DEF PromptInv, NoOldPrompt
<1>2. ASSUME SendGoal PROVE PromptInv'
  <2>1. /\ pgoal' = [pgoal EXCEPT ![rollout] = "sent"]
        /\ UNCHANGED <<rollout, wire, prompt>>
    BY <1>2 DEF SendGoal, polVars
  <2>2. \A r \in Rollouts : pgoal'[r] = IF r = rollout THEN "sent" ELSE pgoal[r]
    BY <2>1 DEF PromptInv
  <2> QED BY <2>1, <2>2 DEF PromptInv, NoOldPrompt
<1>3. ASSUME GoalAccepted \/ GoalRefused \/ PumpMessage \/ LoopCancel \/ HandOver PROVE PromptInv'
  BY <1>3, <1>a DEF GoalAccepted, GoalRefused, PumpMessage, LoopCancel, HandOver,
     mgrVars, goalVars, polVars
<1>4. ASSUME LoopPass \/ Finish \/ Crash PROVE PromptInv'
  BY <1>4, <1>a DEF LoopPass, Finish, Crash, Publish, PublishForced, Task, goalVars, polVars
<1>5. ASSUME TickInactive \/ TickActive \/ ObservationChange PROVE PromptInv'
  BY <1>5, <1>a DEF TickInactive, TickActive, ObservationChange, mgrVars, goalVars, polVars
<1>6. ASSUME TakeTask PROVE PromptInv'
  <2>1. UNCHANGED <<rollout, pgoal>> /\ wire' = NoTask
    BY <1>6 DEF TakeTask, mgrVars, goalVars
  <2>2. prompt' = prompt \/ prompt'.ro = rollout
    BY <1>6 DEF TakeTask, PromptInv
  <2>3. \A r \in Rollouts : pgoal[r] # "none" => rollout >= r
    BY DEF PromptInv, Rollouts
  <2>4. NoOldPrompt'
    BY <2>1, <2>2, <2>3 DEF PromptInv, NoOldPrompt
  <2> QED BY <2>1, <2>4 DEF PromptInv
<1>7. ASSUME NEW r \in Rollouts, PolicyGoal(r) PROVE PromptInv'
  <2>1. CASE AcceptGoal(r)
    BY <2>1, <1>b DEF AcceptGoal, mgrVars, polVars
  <2>2. CASE RunPrompt(r)
    BY <2>2, <1>b DEF RunPrompt, mgrVars
  <2>3. CASE SetupFails(r)
    BY <2>3, <1>b DEF SetupFails, mgrVars, polVars
  <2>4. CASE RunBegin(r)
    BY <2>4, <1>b DEF RunBegin, mgrVars
  <2>5. CASE RunEnd(r)
    BY <2>5, <1>b DEF RunEnd, mgrVars
  <2> QED BY <1>7, <2>1, <2>2, <2>3, <2>4, <2>5 DEF PolicyGoal
<1>8. CASE UNCHANGED vars
  BY <1>8, <1>a DEF vars, mgrVars, goalVars, polVars
<1> QED BY <1>1, <1>2, <1>3, <1>4, <1>5, <1>6, <1>7, <1>8 DEF Next, Manager, Policy

(* A new policy episode never moves on the prompt of an earlier rollout: what
   it runs was published since its own rollout began. *)
THEOREM PromptsFresh == Spec => []NoOldPrompt
<1>1. PromptInv => NoOldPrompt
  BY DEF PromptInv
<1> QED BY <1>1, InitPrompt, NextPrompt, PTL DEF Spec

-----------------------------------------------------------------------------
(* Every variable keeps its type.                                          *)

ViewT == [seq : Nat, st : TaskStates, left : 0..Stages, t0 : Nat]
TaskT == [ro : 0..MaxRollouts, seq : Nat, st : TaskStates \cup {"none"}, left : 0..Stages]
Msg   == [st : {"none", "idle", "starting", "running", "stopped", "aborted"},
          seq : Nat, hseq : 0..MaxReads, read : Read \cup {NoRead}, grip : BOOLEAN]

ManagerTyped ==
  MgrOK /\ headSeen \in 0..MaxReads /\ lastSeen \in Msg /\ (mpc # "ready" => rollout > 0)
PolicyTyped  == PolicyOK /\ prompt \in TaskT
QueueTyped   == pq \in Seq(Msg) /\ Len(pq) <= QueueCap
WireTyped    == wire \in TaskT
TypeInv == ManagerTyped /\ PolicyTyped /\ QueueTyped /\ WireTyped /\ grip \in BOOLEAN

(* A sequence without its last element. *)
LEMMA FrontLast ==
  ASSUME NEW S, NEW s \in Seq(S), s # <<>>
  PROVE  /\ Front(s) \in Seq(S) /\ Len(Front(s)) = Len(s) - 1
         /\ \A i \in 1..(Len(s) - 1) : Front(s)[i] = s[i]
         /\ Last(s) = s[Len(s)] /\ Last(s) \in S
<1>1. Len(s) \in Nat /\ Len(s) >= 1 /\ \A i \in 1..Len(s) : s[i] \in S
  OBVIOUS
<1>2. ASSUME NEW n \in Nat, n = Len(s)
      PROVE  /\ Front(s) \in Seq(S) /\ Len(Front(s)) = n - 1
             /\ \A i \in 1..(n - 1) : Front(s)[i] = s[i]
  <2>1. n >= 1 /\ n - 1 \in Int /\ \A i \in 1..(n - 1) : s[i] \in S
    BY <1>1, <1>2
  <2>2. /\ SubSeq(s, 1, n - 1) \in Seq(S)
        /\ Len(SubSeq(s, 1, n - 1)) = IF 1 <= n - 1 THEN n - 1 - 1 + 1 ELSE 0
        /\ \A i \in 1..(n - 1 - 1 + 1) : SubSeq(s, 1, n - 1)[i] = s[1 + i - 1]
    BY <2>1, SubSeqProperties
  <2> HIDE <1>2
  <2>3. Front(s) = SubSeq(s, 1, n - 1)
    BY <1>2 DEF Front
  <2>4. n - 1 - 1 + 1 = n - 1 /\ (1 <= n - 1 \/ n - 1 = 0)
    BY <2>1
  <2>5. \A i \in 1..(n - 1) : 1 + i - 1 = i
    OBVIOUS
  <2> QED BY <2>2, <2>3, <2>4, <2>5
<1> QED BY <1>1, <1>2 DEF Last

(* _bump keeps the type of the view. *)
LEMMA BumpTyped ==
  ASSUME NEW v \in ViewT, NEW st \in TaskStates, NEW l \in 0..Stages, NEW t \in Nat
  PROVE  Bumped(v, st, l, t) \in ViewT
BY DEF Bumped, ViewT

(* stop() and abort() keep the manager typed. *)
LEMMA EndedTyped ==
  ASSUME MgrOK, NEW how \in {"stopped", "aborted"}, NEW st \in TaskStates, Ended(how, st),
         mpc' \in {"ready", "loop"}, UNCHANGED <<rollout, retries, count, backing>>
  PROVE  MgrOK'
<1>1. view \in ViewT /\ view.left \in 0..Stages /\ view.t0 \in Nat
  BY DEF MgrOK, ViewT
<1>2. view' \in ViewT
  BY <1>1, BumpTyped DEF Ended
<1> QED BY <1>2 DEF MgrOK, Ended, ViewT

(* Applying a head read keeps the manager typed. *)
LEMMA HeadTyped ==
  ASSUME MgrOK, NEW m \in Msg, m.read # NoRead, OnHead(m), UNCHANGED <<mpc, rollout>>
  PROVE  MgrOK'
<1>1. /\ view \in ViewT /\ view.left \in 0..Stages /\ view.t0 \in Nat /\ view.t0 + 1 \in Nat
      /\ m.read \in Read /\ m.grip \in BOOLEAN
  BY DEF MgrOK, ViewT, Msg
<1>2. {"active", "done", "blocked"} \subseteq TaskStates
  BY DEF TaskStates
<1>3. Stages \in 0..Stages /\ HeldStages \in 0..Stages /\ Stages \in Nat
  BY ConstantsAssumption
<1>h. Hysteresis \in Nat \ {0} /\ Consecutive \in Nat \ {0} /\ MaxRetries \in Nat
  BY ConstantsAssumption
<1>4. ASSUME Seen(m.read) PROVE MgrOK'
  <2>1. view' \in ViewT
    <3>1. CASE view' = view
      BY <3>1, <1>1
    <3>2. CASE view.left > 1 /\ view' = Bumped(view, "active", view.left - 1, view.t0 + 1)
      <4>1. view.left - 1 \in 0..Stages
        BY <3>2, <1>1, <1>3
      <4> QED BY <3>2, <4>1, <1>1, <1>2, BumpTyped
    <3>3. CASE view' = Bumped(view, "done", view.left, view.t0)
      BY <3>3, <1>1, <1>2, BumpTyped
    <3> QED BY <1>4, <3>1, <3>2, <3>3 DEF Seen
  <2>2. backing' \in Seq(Read)
    BY <1>4, <1>1 DEF Seen, MgrOK
  <2>3. count' \in Nat /\ (count' < Hysteresis \/ count' < Consecutive)
    BY <1>4, <1>h DEF Seen, Needed, MgrOK
  <2>4. status' \in {status, "done"} /\ retries' = retries
    BY <1>4 DEF Seen
  <2> QED BY <2>1, <2>2, <2>3, <2>4 DEF MgrOK, ViewT
<1>5. ASSUME Stalled, count' = 0, backing' = <<>> PROVE MgrOK'
  <2>1. view' \in ViewT
    <3>1. ASSUME NEW l \in view.left..Stages, view' = Bumped(view, "active", l, view.t0 + 1)
          PROVE  view' \in ViewT
      <4>1. l \in 0..Stages
        BY <1>1, <1>3
      <4> QED BY <3>1, <4>1, <1>1, <1>2, BumpTyped
    <3>2. CASE view' = Bumped(view, "blocked", view.left, view.t0)
      BY <3>2, <1>1, <1>2, BumpTyped
    <3> QED BY <1>5, <3>1, <3>2 DEF Stalled
  <2>2. status' \in {status, "needs_operator"} /\ retries' \in 0..MaxRetries
    BY <1>5, <1>h DEF Stalled, MgrOK
  <2> QED BY <1>5, <2>1, <2>2, <1>h DEF MgrOK, ViewT
<1>6. ASSUME status' = "active", view' = Planned(view, m.grip), UNCHANGED <<retries, count, backing>>
      PROVE  MgrOK'
  <2>1. view' \in ViewT
    BY <1>6, <1>1, <1>2, <1>3, BumpTyped DEF Planned
  <2> QED BY <1>6, <2>1 DEF MgrOK, ViewT
<1>7. ASSUME UNCHANGED <<status, view, retries>>,
             (count' = count /\ backing' = backing) \/ (count' = 0 /\ backing' = <<>>)
      PROVE  MgrOK'
  <2>1. backing' \in Seq(Read)
    <3>1. <<>> \in Seq(Read)
      OBVIOUS
    <3> QED BY <1>7, <3>1 DEF MgrOK
  <2>2. count' \in Nat /\ (count' < Hysteresis \/ count' < Consecutive)
    BY <1>7, <1>h DEF MgrOK
  <2> QED BY <1>7, <2>1, <2>2 DEF MgrOK
<1>8. CASE status = "probing"
  BY <1>6, <1>8 DEF OnHead
<1>9. CASE status # "probing" /\ status = "active" /\ Current(m.seq)
  <2>1. Observe(m.read)
    BY <1>9 DEF OnHead
  <2> QED BY <2>1, <1>4, <1>5, <1>7 DEF Observe
<1>10. CASE status # "probing" /\ ~(status = "active" /\ Current(m.seq))
  <2>1. UNCHANGED <<status, view, retries, count, backing>>
    BY <1>10 DEF OnHead
  <2> QED BY <2>1, <1>h DEF MgrOK
<1> QED BY <1>8, <1>9, <1>10

(* Draining the queue keeps it typed. *)
LEMMA DrainedTyped ==
  ASSUME QueueTyped, Drained PROVE QueueTyped' /\ headSeen' = 0
<1>1. pq \in Seq(Msg) /\ Len(pq) \in Nat /\ Len(pq) <= QueueCap /\ QueueCap \in Nat
  BY ConstantsAssumption DEF QueueTyped
<1>2. CASE pq' = <<>>
  BY <1>1, <1>2 DEF QueueTyped, Drained
<1>3. ASSUME NEW n \in 2..Len(pq), pq' = SubSeq(pq, n, Len(pq)) PROVE QueueTyped'
  <2>1. \A i \in n..Len(pq) : pq[i] \in Msg
    BY <1>1
  <2>2. pq' \in Seq(Msg) /\ Len(pq') = IF n <= Len(pq) THEN Len(pq) - n + 1 ELSE 0
    BY <1>1, <1>3, <2>1, SubSeqProperties
  <2> QED BY <1>1, <2>2 DEF QueueTyped
<1> QED BY <1>2, <1>3 DEF Drained

(* What is published keeps its type. *)
LEMMA PublishTyped ==
  ASSUME WireTyped, NEW r \in 0..MaxRollouts, NEW v \in ViewT,
         Publish(r, v) \/ PublishForced(r, v) \/ wire' = wire
  PROVE  WireTyped'
BY DEF WireTyped, TaskT, ViewT, Publish, PublishForced, Task

(* A PolicyState that is published keeps the queue typed, also when it overtakes. *)
LEMMA PublishesTyped ==
  ASSUME QueueTyped, NEW m \in Msg, Publishes(m)
  PROVE  QueueTyped'
<1>1. CASE UNCHANGED pq
  BY <1>1 DEF QueueTyped
<1>2. CASE Len(pq) < QueueCap /\ pq' = Append(pq, m)
  BY <1>2, ConstantsAssumption DEF QueueTyped
<1>3. CASE Len(pq) < QueueCap /\ pq # <<>> /\ pq' = Append(Front(pq), m) \o <<Last(pq)>>
  <2>1. pq \in Seq(Msg) /\ Len(pq) \in Nat /\ QueueCap \in Nat
    BY ConstantsAssumption DEF QueueTyped
  <2>2. Front(pq) \in Seq(Msg) /\ Len(Front(pq)) = Len(pq) - 1 /\ Last(pq) \in Msg
    BY <1>3, <2>1, FrontLast
  <2>3. Append(Front(pq), m) \in Seq(Msg) /\ Len(Append(Front(pq), m)) = Len(pq)
    BY <2>1, <2>2
  <2>4. pq' \in Seq(Msg) /\ Len(pq') = Len(pq) + 1
    BY <1>3, <2>1, <2>2, <2>3
  <2> QED BY <1>3, <2>1, <2>4 DEF QueueTyped
<1> QED BY <1>1, <1>2, <1>3 DEF Publishes, queueVars

(* The first PolicyState in the queue, or the last one seen. *)
LEMMA FirstTyped ==
  ASSUME QueueTyped, lastSeen \in Msg
  PROVE  /\ FirstPolicy \in Msg
         /\ pq # <<>> => Head(pq) \in Msg /\ Tail(pq) \in Seq(Msg) /\ Len(Tail(pq)) = Len(pq) - 1
BY DEF QueueTyped, FirstPolicy

(* The initial state is typed. *)
LEMMA InitTyped == Init => TypeInv
<1> SUFFICES ASSUME Init PROVE TypeInv
  OBVIOUS
<1> USE ConstantsAssumption DEF Init
<1>1. ManagerTyped
  BY DEF ManagerTyped, MgrOK, NoView, NoMsg, NoRead, Msg, TaskStates
<1>2. PolicyTyped
  <2>1. prompt \in TaskT
    BY DEF TaskT, Await, TaskStates
  <2>2. PolicyOK
    <3>1. pgoal \in [Rollouts -> {"none", "sent", "rejected", "accepted", "prompted", "running", "over", "refused"}]
      OBVIOUS
    <3>2. {lastHead, job} \subseteq Read \cup {NoRead} /\ cancelled \subseteq Rollouts
      OBVIOUS
    <3>3. headSeq \in 0..MaxReads /\ reads \in 0..MaxReads
      OBVIOUS
    <3> QED BY <3>1, <3>2, <3>3 DEF PolicyOK
  <2> QED BY <2>1, <2>2 DEF PolicyTyped
<1>3. QueueTyped /\ WireTyped
  BY DEF QueueTyped, WireTyped, TaskT, NoTask
<1> QED BY <1>1, <1>2, <1>3 DEF TypeInv

(* The manager's steps keep the types. *)
LEMMA ManagerStepTyped ==
  ASSUME TypeInv, Manager PROVE TypeInv'
<1> USE DEF TypeInv
<1>a. {"blocked", "idle", "probing", "active"} \subseteq TaskStates
  BY DEF TaskStates
<1>b. /\ view \in ViewT /\ rollout \in 0..MaxRollouts /\ NoView \in ViewT
      /\ Stages \in 0..Stages /\ HeldStages \in 0..Stages /\ 0 \in 0..Stages
      /\ MaxRollouts \in Nat /\ MaxReads \in Nat /\ MaxRetries \in Nat /\ QueueCap \in Nat
      /\ Hysteresis \in Nat \ {0}
  BY ConstantsAssumption DEF ManagerTyped, MgrOK, ViewT, NoView, TaskStates
<1>1. ASSUME Begin PROVE TypeInv'
  <2>0. QueueTyped' /\ headSeen' = 0
    BY <1>1, DrainedTyped DEF Begin
  <2>1. FirstPolicy \in Msg /\ FirstPolicy.grip \in BOOLEAN
    BY FirstTyped DEF ManagerTyped, Msg
  <2>2. view' \in ViewT /\ status' \in {"probing", "active"}
    <3>1. Bumped(NoView, "probing", 0, 0) \in ViewT
      BY <1>a, <1>b, BumpTyped
    <3>2. Planned(NoView, FirstPolicy.grip) \in ViewT
      BY <1>a, <1>b, BumpTyped DEF Planned
    <3> QED BY <1>1, <3>1, <3>2 DEF Begin
  <2>3. rollout + 1 \in 0..MaxRollouts
    BY <1>1, <1>b DEF Begin, Requested
  <2>4. WireTyped'
    BY <1>1, <2>2, <2>3, PublishTyped DEF Begin
  <2>5. ManagerTyped'
    BY <1>1, <1>b, <2>0, <2>1, <2>2, <2>3 DEF Begin, ManagerTyped, MgrOK, ViewT
  <2> QED BY <1>1, <1>b, <2>0, <2>4, <2>5 DEF Begin, PolicyTyped, PolicyOK, goalVars, polVars, envVars
<1>2. ASSUME BeginFails PROVE TypeInv'
  <2>0. QueueTyped' /\ headSeen' = 0
    BY <1>2, DrainedTyped DEF BeginFails
  <2>1. FirstPolicy \in Msg
    BY FirstTyped DEF ManagerTyped
  <2>2. rollout + 1 \in 0..MaxRollouts
    BY <1>2, <1>b DEF BeginFails, Requested
  <2>3. ManagerTyped'
    BY <1>2, <1>b, <2>0, <2>1, <2>2 DEF BeginFails, ManagerTyped, MgrOK, ViewT
  <2> QED BY <1>2, <1>b, <2>0, <2>3
          DEF BeginFails, PolicyTyped, PolicyOK, goalVars, polVars, envVars, WireTyped
<1>3. ASSUME SendGoal \/ GoalAccepted PROVE TypeInv'
  BY SMTT(30), <1>3 DEF SendGoal, GoalAccepted, ManagerTyped, MgrOK, PolicyTyped, PolicyOK, QueueTyped,
     WireTyped, goalVars, polVars, queueVars, envVars
<1>4. ASSUME GoalRefused \/ LoopCancel PROVE TypeInv'
  <2>1. MgrOK'
    BY <1>4, <1>a, EndedTyped DEF GoalRefused, LoopCancel, ManagerTyped, MgrOK
  <2> QED BY <1>4, <2>1 DEF GoalRefused, LoopCancel, ManagerTyped, PolicyTyped, PolicyOK,
          QueueTyped, WireTyped, goalVars, polVars, queueVars, envVars
<1>5. ASSUME PumpMessage PROVE TypeInv'
  <2>1. Head(pq) \in Msg /\ QueueTyped'
    BY <1>5, <1>b, FirstTyped DEF PumpMessage, ManagerTyped, QueueTyped
  <2>2. Head(pq).hseq \in 0..MaxReads
    BY <2>1 DEF Msg
  <2>3. MgrOK'
    <3>1. CASE NewRead(Head(pq))
      BY <1>5, <2>1, <3>1, HeadTyped DEF PumpMessage, ManagerTyped, NewRead
    <3>2. CASE ~NewRead(Head(pq))
      BY <1>5, <3>2 DEF PumpMessage, ManagerTyped, MgrOK
    <3> QED BY <3>1, <3>2
  <2>4. ManagerTyped'
    BY <1>5, <2>1, <2>2, <2>3 DEF PumpMessage, ManagerTyped
  <2> QED BY <1>5, <2>1, <2>4 DEF PumpMessage, PolicyTyped, PolicyOK, WireTyped, goalVars, polVars, envVars
<1>6. ASSUME LoopPass PROVE TypeInv'
  <2>1. MgrOK'
    <3>1. CASE PolicyEnded
      BY <1>6, <3>1, <1>a, EndedTyped DEF LoopPass, ManagerTyped, MgrOK
    <3>2. CASE ~PolicyEnded
      BY <1>6, <3>2 DEF LoopPass, ManagerTyped, MgrOK
    <3> QED BY <3>1, <3>2
  <2>2. WireTyped'
    BY <1>6, <1>b, PublishTyped DEF LoopPass
  <2> QED BY <1>6, <2>1, <2>2 DEF LoopPass, ManagerTyped, PolicyTyped, PolicyOK, QueueTyped,
          goalVars, polVars, queueVars, envVars
<1>7. ASSUME Finish PROVE TypeInv'
  <2>1. WireTyped'
    BY <1>7, <1>b, PublishTyped DEF Finish
  <2>2. cancelled' \subseteq Rollouts
    BY <1>b, <1>7 DEF Finish, ManagerTyped, PolicyTyped, PolicyOK, Rollouts
  <2> QED BY <1>7, <2>1, <2>2 DEF Finish, ManagerTyped, MgrOK, PolicyTyped, PolicyOK, QueueTyped, polVars,
          queueVars, envVars
<1>8. ASSUME Crash PROVE TypeInv'
  <2>1. MgrOK'
    BY <1>8, <1>a, EndedTyped DEF Crash, ManagerTyped, MgrOK
  <2>2. view' \in ViewT
    BY <2>1 DEF MgrOK, ViewT
  <2>3. WireTyped'
    BY <1>8, <1>b, <2>2, PublishTyped DEF Crash
  <2>4. cancelled' \subseteq Rollouts
    BY <1>b, <1>8 DEF Crash, ManagerTyped, PolicyTyped, PolicyOK, Rollouts
  <2> QED BY <1>8, <2>1, <2>3, <2>4 DEF Crash, ManagerTyped, PolicyTyped, PolicyOK, QueueTyped, polVars,
          queueVars, envVars
<1> QED BY <1>1, <1>2, <1>3, <1>4, <1>5, <1>6, <1>7, <1>8 DEF Manager

(* The policy's steps keep the types. *)
LEMMA PolicyStepTyped ==
  ASSUME TypeInv, Policy PROVE TypeInv'
<1> USE DEF TypeInv
<1>m. ASSUME UNCHANGED mgrVars PROVE ManagerTyped'
  BY <1>m DEF mgrVars, ManagerTyped, MgrOK
<1>s. ASSUME PolicyTyped', NEW seq \in Nat PROVE State(seq) \in Msg
  BY <1>s DEF State, PolicyTyped, PolicyOK, Msg
<1>1. ASSUME TickInactive PROVE TypeInv'
  <2>1. PolicyTyped'
    BY <1>1 DEF TickInactive, PolicyTyped, PolicyOK, goalVars
  <2>2. QueueTyped'
    BY <1>1, <1>s, <2>1, PublishesTyped DEF TickInactive
  <2> QED BY <1>1, <1>m, <2>1, <2>2 DEF TickInactive, WireTyped, envVars
<1>2. ASSUME TickActive PROVE TypeInv'
  <2>1. headSeq' \in 0..MaxReads /\ lastHead' \in Read \cup {NoRead}
    BY <1>2, ConstantsAssumption DEF TickActive, PolicyTyped, PolicyOK
  <2>2. pstatus' \in {"idle", "starting", "running", "stopped", "aborted"}
    BY <1>2 DEF TickActive, StatusAfterTick, PolicyTyped, PolicyOK
  <2>3. prompt.ro \in 0..MaxRollouts /\ prompt.seq \in Nat /\ prompt' = prompt
    BY <1>2 DEF TickActive, PolicyTyped, TaskT
  <2>4. reads' \in 0..MaxReads /\ job' \in Read \cup {NoRead}
    <3>1. reads \in 0..MaxReads /\ job \in Read \cup {NoRead} /\ MaxReads \in Nat
      BY ConstantsAssumption DEF PolicyTyped, PolicyOK
    <3>2. CASE job' \in {job, NoRead} /\ reads' = reads
      BY <3>1, <3>2
    <3>3. CASE /\ reads < MaxReads /\ reads' = reads + 1
               /\ job' = [id |-> reads + 1, ro |-> prompt.ro, seq |-> prompt.seq]
      BY <2>3, <3>1, <3>3 DEF Read
    <3> QED BY <1>2, <3>2, <3>3 DEF TickActive
  <2>5. PolicyTyped'
    BY <1>2, <2>1, <2>2, <2>3, <2>4 DEF TickActive, PolicyTyped, PolicyOK, goalVars
  <2>6. QueueTyped'
    BY <1>2, <1>s, <2>3, <2>5, PublishesTyped DEF TickActive
  <2> QED BY <1>2, <1>m, <2>5, <2>6 DEF TickActive, WireTyped, envVars
<1>4. ASSUME TakeTask PROVE TypeInv'
  <2>1. WireTyped'
    BY <1>4, ConstantsAssumption DEF TakeTask, WireTyped, TaskT, NoTask
  <2> QED BY <1>4, <1>m, <2>1 DEF TakeTask, PolicyTyped, PolicyOK, QueueTyped, WireTyped, goalVars,
          queueVars, envVars
<1>5. ASSUME NEW r \in Rollouts, PolicyGoal(r) PROVE TypeInv'
  <2>0. Await \in TaskT
    BY ConstantsAssumption DEF Await, TaskT, TaskStates
  <2>1. CASE AcceptGoal(r) \/ SetupFails(r)
    BY <2>1, <1>m DEF AcceptGoal, SetupFails, PolicyTyped, PolicyOK, QueueTyped, WireTyped, polVars,
       queueVars, envVars
  <2>2. CASE RunPrompt(r)
    BY <2>0, <2>2, <1>m DEF RunPrompt, PolicyTyped, PolicyOK, QueueTyped, WireTyped, queueVars, envVars
  <2>3. CASE RunBegin(r)
    BY <2>3, <1>m, ConstantsAssumption DEF RunBegin, PolicyTyped, PolicyOK, QueueTyped, WireTyped, queueVars, envVars
  <2>4. CASE RunEnd(r)
    BY <2>4, <1>m DEF RunEnd, PolicyTyped, PolicyOK, QueueTyped, WireTyped, queueVars, envVars
  <2> QED BY <1>5, <2>1, <2>2, <2>3, <2>4 DEF PolicyGoal
<1> QED BY <1>1, <1>2, <1>4, <1>5 DEF Policy

(* Every step keeps the types. *)
LEMMA NextTyped == TypeInv /\ [Next]_vars => TypeInv'
<1>1. ASSUME TypeInv, UNCHANGED <<mgrVars, queueVars, wire, goalVars, polVars>>, grip' \in BOOLEAN
      PROVE  TypeInv'
  <2>1. ManagerTyped'
    BY <1>1 DEF mgrVars, TypeInv, ManagerTyped, MgrOK
  <2>2. PolicyTyped'
    BY <1>1 DEF goalVars, polVars, TypeInv, PolicyTyped, PolicyOK
  <2> QED BY <1>1, <2>1, <2>2 DEF TypeInv, QueueTyped, WireTyped, queueVars
<1>2. ASSUME TypeInv, HandOver \/ ObservationChange \/ UNCHANGED vars PROVE TypeInv'
  BY <1>1, <1>2 DEF HandOver, ObservationChange, vars, envVars, TypeInv
<1> QED BY <1>2, ManagerStepTyped, PolicyStepTyped DEF Next

\* The flags are Booleans.
FlagsTyped == overtaken \in BOOLEAN /\ blind \in BOOLEAN

(* Every step keeps the flags Booleans. *)
LEMMA NextFlags == FlagsTyped /\ [Next]_vars => FlagsTyped'
<1> SUFFICES ASSUME FlagsTyped, [Next]_vars PROVE FlagsTyped'
  OBVIOUS
<1> USE DEF FlagsTyped
<1>1. ASSUME Begin \/ BeginFails PROVE FlagsTyped'
  BY <1>1 DEF Begin, BeginFails, Drained, envVars
<1>2. ASSUME SendGoal \/ GoalAccepted \/ GoalRefused \/ LoopPass \/ LoopCancel \/ Finish \/ Crash
      PROVE  FlagsTyped'
  BY <1>2 DEF SendGoal, GoalAccepted, GoalRefused, LoopPass, LoopCancel, Finish, Crash,
     queueVars, envVars
<1>3. ASSUME PumpMessage \/ TakeTask \/ HandOver \/ ObservationChange \/ UNCHANGED vars
      PROVE  FlagsTyped'
  BY <1>3 DEF PumpMessage, TakeTask, HandOver, ObservationChange, vars, queueVars, envVars
<1>4. ASSUME TickInactive \/ TickActive PROVE FlagsTyped'
  BY <1>4 DEF TickInactive, TickActive, Publishes, queueVars, envVars
<1>5. ASSUME NEW r \in Rollouts, PolicyGoal(r) PROVE FlagsTyped'
  BY <1>5 DEF PolicyGoal, AcceptGoal, RunPrompt, SetupFails, RunBegin, RunEnd, queueVars, envVars
<1> QED BY <1>1, <1>2, <1>3, <1>4, <1>5 DEF Next, Manager, Policy

(* Type correctness: in particular the versions, the subtasks left and the
   count of reads stay in their ranges, and the queue within its bound. *)
THEOREM TypeCorrect == Spec => []TypeOK
<1>1. TypeInv /\ FlagsTyped => TypeOK
  BY DEF TypeInv, FlagsTyped, ManagerTyped, PolicyTyped, QueueTyped, TypeOK
<1>2. Init => FlagsTyped
  BY DEF Init, FlagsTyped
<1> QED BY <1>1, <1>2, InitTyped, NextTyped, NextFlags, PTL DEF Spec

-----------------------------------------------------------------------------
(* Every head read counts at most once, unless PolicyStates overtook each other. *)

\* A message about `read` carries a later read than the ones counted, or the
\* one that was applied last, under the number by which it is recognised.
Ahead(read, h) ==
  read.id > 0 =>
    \A k \in DOMAIN backing : backing[k].id < read.id \/ (backing[k].id = read.id /\ h = headSeen)

\* Message m was published no later than one with `read`, and the same read
\* has the same number in both.
NotAfter(m, read, h) ==
  read.id > 0 => m.read.id < read.id \/ (m.read.id = read.id /\ m.hseq = h)

\* Reads are computed one at a time, and the one being computed is the newest.
Older(read) == read.id <= reads /\ (job.id > 0 => read.id < job.id)

CountedInv ==
  /\ \A i, j \in DOMAIN backing : i < j => backing[i].id < backing[j].id
  /\ \A k \in DOMAIN backing : Older(backing[k])
QueuedInv ==
  /\ \A i \in DOMAIN pq : NotAfter(pq[i], lastHead, headSeq) /\ Older(pq[i].read)
  /\ \A i, j \in DOMAIN pq : i < j => NotAfter(pq[i], pq[j].read, pq[j].hseq)
AheadInv ==
  /\ Ahead(lastHead, headSeq)
  /\ \A i \in DOMAIN pq : Ahead(pq[i].read, pq[i].hseq)
ReadInv == CountedInv /\ QueuedInv /\ AheadInv /\ Older(lastHead) /\ job.id <= reads

\* All of it, until a PolicyState of this rollout overtakes one with an older read.
LastOlder == Older(lastHead) /\ job.id <= reads
OrderInv  == LastOlder /\ (overtaken \/ ReadInv)

(* The numbers of reads are natural numbers. *)
LEMMA ReadIds ==
  ASSUME TypeInv
  PROVE  /\ \A k \in DOMAIN backing : backing[k] \in Read /\ backing[k].id \in Nat
         /\ \A i \in DOMAIN pq : pq[i] \in Msg /\ pq[i].read.id \in Nat
         /\ lastHead.id \in Nat /\ job.id \in Nat /\ reads \in Nat /\ headSeq \in Nat
         /\ \A read \in Read \cup {NoRead} : read.id \in Nat /\ (read # NoRead => read.id > 0)
<1>0. MaxReads \in Nat
  BY ConstantsAssumption
<1>1. \A read \in Read \cup {NoRead} : read.id \in Nat /\ (read # NoRead => read.id > 0)
  BY <1>0 DEF Read, NoRead
<1>2. backing \in Seq(Read) /\ pq \in Seq(Msg)
  BY DEF TypeInv, ManagerTyped, MgrOK, QueueTyped
<1>3. \A k \in DOMAIN backing : backing[k] \in Read
  BY <1>2
<1>4. \A i \in DOMAIN pq : pq[i] \in Msg
  BY <1>2
<1>5. \A m \in Msg : m.read \in Read \cup {NoRead}
  BY DEF Msg
<1>6. {lastHead, job} \subseteq Read \cup {NoRead} /\ reads \in Nat /\ headSeq \in Nat
  BY <1>0 DEF TypeInv, PolicyTyped, PolicyOK
<1> QED BY <1>1, <1>3, <1>4, <1>5, <1>6

(* A head read that is applied is added to the ones counted, or they are
   forgotten, or kept. *)
LEMMA HeadBacking ==
  ASSUME NEW m, OnHead(m)
  PROVE  backing' \in {backing, <<>>, <<m.read>>, Append(backing, m.read)}
<1>1. CASE status = "probing"
  BY <1>1 DEF OnHead
<1>2. CASE status # "probing" /\ status = "active" /\ Current(m.seq)
  <2>1. Observe(m.read)
    BY <1>2 DEF OnHead
  <2> QED BY <2>1 DEF Observe, Seen
<1>3. CASE status # "probing" /\ ~(status = "active" /\ Current(m.seq))
  <2>1. UNCHANGED <<status, view, retries, count, backing>>
    BY <1>3 DEF OnHead
  <2> QED BY <2>1
<1> QED BY <1>1, <1>2, <1>3

(* The first message is taken: what it carries is newer than every read
   counted, or it is not counted again. *)
LEMMA PumpReads ==
  ASSUME TypeInv, ReadInv, PumpMessage
  PROVE  ReadInv'
<1> DEFINE m == Head(pq)
<1>0. UNCHANGED <<lastHead, headSeq, job, reads>>
  BY DEF PumpMessage, polVars
<1>1. /\ pq \in Seq(Msg) /\ pq # <<>> /\ m = pq[1] /\ 1 \in DOMAIN pq
      /\ \A i \in DOMAIN pq' : i \in Nat /\ i >= 1 /\ i + 1 \in DOMAIN pq /\ pq'[i] = pq[i + 1]
  BY DEF PumpMessage, TypeInv, QueueTyped
<1>2. m.read \in Read \cup {NoRead} /\ m.read.id \in Nat
  BY <1>1, ReadIds DEF Msg
<1>3. \A i \in DOMAIN pq' : NotAfter(m, pq'[i].read, pq'[i].hseq)
  BY <1>1 DEF ReadInv, QueuedInv
<1>4. NotAfter(m, lastHead, headSeq) /\ Older(m.read) /\ Ahead(m.read, m.hseq)
  BY <1>1 DEF ReadInv, QueuedInv, AheadInv
<1>5. QueuedInv'
  <2>1. \A i \in DOMAIN pq' : NotAfter(pq'[i], lastHead, headSeq) /\ Older(pq'[i].read)
    BY <1>1 DEF ReadInv, QueuedInv
  <2>2. \A i, j \in DOMAIN pq' : i < j => NotAfter(pq'[i], pq'[j].read, pq'[j].hseq)
    BY <1>1 DEF ReadInv, QueuedInv
  <2> QED BY <1>0, <2>1, <2>2 DEF QueuedInv, NotAfter, Older
<1>6. CASE ~NewRead(m)
  <2>1. UNCHANGED <<backing, headSeen>>
    BY <1>6 DEF PumpMessage
  <2>2. AheadInv'
    BY <1>0, <1>1, <2>1 DEF ReadInv, AheadInv, Ahead
  <2> QED BY <1>0, <1>5, <2>1, <2>2 DEF ReadInv, CountedInv, Older
<1>7. CASE NewRead(m)
  <2>1. headSeen' = m.hseq /\ m.read.id > 0
    BY <1>2, <1>7, ReadIds DEF PumpMessage, NewRead
  <2>2. \A k \in DOMAIN backing : backing[k].id < m.read.id
    BY <1>4, <1>7, <2>1 DEF Ahead, NewRead
  <2>3. backing' \in {backing, <<>>, <<m.read>>, Append(backing, m.read)}
    BY <1>7, HeadBacking DEF PumpMessage
  <2>4. backing \in Seq(Read) /\ m.read \in Read
    BY <1>2, <1>7 DEF NewRead, TypeInv, ManagerTyped, MgrOK
  <2>5. /\ \A i, j \in DOMAIN backing' : i < j => backing'[i].id < backing'[j].id
        /\ \A k \in DOMAIN backing' : backing'[k] = m.read \/ \E n \in DOMAIN backing : backing'[k] = backing[n]
    <3>1. CASE backing' = Append(backing, m.read)
      BY <2>2, <2>4, <3>1 DEF ReadInv, CountedInv
    <3>2. CASE backing' \in {backing, <<>>, <<m.read>>}
      BY <2>4, <3>2 DEF ReadInv, CountedInv
    <3> QED BY <2>3, <3>1, <3>2
  <2>6. \A k \in DOMAIN backing' : backing'[k].id \in Nat /\ backing'[k].id <= m.read.id
    BY <1>2, <2>2, <2>5, ReadIds
  <2>7. CountedInv'
    BY <1>0, <1>4, <2>5 DEF ReadInv, CountedInv, Older
  <2>8. ASSUME NEW read, NEW h, read.id \in Nat, NotAfter(m, read, h)
        PROVE  read.id > 0 =>
                 \A k \in DOMAIN backing' :
                   backing'[k].id < read.id \/ (backing'[k].id = read.id /\ h = headSeen')
    BY <1>2, <2>1, <2>6, <2>8 DEF NotAfter
  <2>9. AheadInv'
    <3>1. Ahead(lastHead, headSeq)'
      BY <1>0, <1>4, <2>8, ReadIds DEF Ahead
    <3>2. \A i \in DOMAIN pq' : pq'[i].read.id \in Nat
      BY <1>1, ReadIds
    <3>3. \A i \in DOMAIN pq' : Ahead(pq[i].read, pq[i].hseq)'
      BY <1>3, <2>8, <3>2 DEF Ahead
    <3> QED BY <3>1, <3>3 DEF AheadInv
  <2> QED BY <1>0, <1>4, <1>5, <2>7, <2>9 DEF ReadInv, Older
<1> QED BY <1>6, <1>7

(* Two elements put behind a sequence. *)
LEMMA TwoBehind ==
  ASSUME NEW S, NEW f \in Seq(S), NEW m \in S, NEW p \in S
  PROVE  /\ DOMAIN (Append(f, m) \o <<p>>) = 1..(Len(f) + 2)
         /\ \A i \in 1..Len(f) : (Append(f, m) \o <<p>>)[i] = f[i]
         /\ (Append(f, m) \o <<p>>)[Len(f) + 1] = m
         /\ (Append(f, m) \o <<p>>)[Len(f) + 2] = p
<1>1. Len(f) \in Nat
  OBVIOUS
<1>2. /\ Append(f, m) \in Seq(S) /\ Len(Append(f, m)) = Len(f) + 1
      /\ \A i \in 1..Len(f) : Append(f, m)[i] = f[i]
      /\ Append(f, m)[Len(f) + 1] = m
  OBVIOUS
<1>3. <<p>> \in Seq(S) /\ Len(<<p>>) = 1 /\ <<p>>[1] = p
  OBVIOUS
<1>4. ASSUME NEW g \in Seq(S), NEW h \in Seq(S)
      PROVE  /\ DOMAIN (g \o h) = 1..(Len(g) + Len(h))
             /\ \A i \in 1..Len(g) : (g \o h)[i] = g[i]
             /\ \A i \in 1..Len(h) : (g \o h)[Len(g) + i] = h[i]
  OBVIOUS
<1>5. PICK g \in Seq(S) : g = Append(f, m)
  BY <1>2
<1>6. PICK h \in Seq(S) : h = <<p>>
  BY <1>3
<1>7. /\ DOMAIN (g \o h) = 1..(Len(g) + Len(h))
      /\ \A i \in 1..Len(g) : (g \o h)[i] = g[i]
      /\ \A i \in 1..Len(h) : (g \o h)[Len(g) + i] = h[i]
  BY <1>4
<1>8. Len(g) = Len(f) + 1 /\ Len(h) = 1 /\ h[1] = p /\ g[Len(f) + 1] = m
  BY <1>2, <1>3, <1>5, <1>6
<1>9. \A i \in 1..Len(f) : i \in 1..Len(g) /\ g[i] = f[i]
  BY <1>1, <1>2, <1>5, <1>8
<1>10. /\ DOMAIN (g \o h) = 1..(Len(f) + 2)
       /\ \A i \in 1..Len(f) : (g \o h)[i] = f[i]
       /\ (g \o h)[Len(f) + 1] = m
       /\ (g \o h)[Len(f) + 2] = p
  BY <1>1, <1>7, <1>8, <1>9
<1> QED BY <1>5, <1>6, <1>10

(* What the queue invariants say of a message depends on its read, and, if it
   has one, on its number. *)
LEMMA SameRead ==
  ASSUME NEW m, NEW p, m.read = p.read, m.read.id > 0 => m.hseq = p.hseq
  PROVE  /\ \A read, h : NotAfter(m, read, h) <=> NotAfter(p, read, h)
         /\ \A q : NotAfter(q, m.read, m.hseq) <=> NotAfter(q, p.read, p.hseq)
<1>1. \A read, h : NotAfter(m, read, h) <=> NotAfter(p, read, h)
  <2> SUFFICES ASSUME NEW read, NEW h PROVE NotAfter(m, read, h) <=> NotAfter(p, read, h)
    OBVIOUS
  <2>1. CASE read.id > 0 /\ m.read.id = read.id
    <3>1. m.hseq = p.hseq
      BY <2>1
    <3> QED BY <2>1, <3>1 DEF NotAfter
  <2>2. CASE ~(read.id > 0 /\ m.read.id = read.id)
    BY <2>2 DEF NotAfter
  <2> QED BY <2>1, <2>2
<1>2. \A q : NotAfter(q, m.read, m.hseq) <=> NotAfter(q, p.read, p.hseq)
  BY DEF NotAfter
<1> QED BY <1>1, <1>2

(* A PolicyState with the latest read is published, and overtakes none with an
   older read: the reads that the queue carries stay in order. *)
LEMMA PublishReads ==
  ASSUME ~overtaken', TypeInv, CountedInv', Older(lastHead)', job'.id <= reads', Ahead(lastHead, headSeq)',
         \A i \in DOMAIN pq : /\ NotAfter(pq[i], lastHead', headSeq') /\ pq[i].read.id <= reads'
                              /\ job'.id > 0 => pq[i].read.id < job'.id,
         ReadInv, UNCHANGED <<backing, headSeen>>, NEW seq, Publishes(State(seq)),
         lastHead'.id \in Nat
  PROVE  ReadInv'
<1> DEFINE m == State(seq)
<1>1. m.read = lastHead' /\ m.hseq = headSeq'
  BY DEF State
<1>2. pq \in Seq(Msg)
  BY DEF TypeInv, QueueTyped
<1>3. CASE pq' = pq
  <2>1. QueuedInv'
    BY <1>3 DEF ReadInv, QueuedInv, NotAfter, Older
  <2>2. AheadInv'
    BY <1>3 DEF ReadInv, AheadInv, Ahead
  <2> QED BY <2>1, <2>2 DEF ReadInv
\* The message is put behind the others, or has the read of the last one, so
\* that it makes no difference which of them is first.
<1>4. ASSUME NEW k \in Nat, k = Len(pq) + 1, DOMAIN pq' = 1..k, DOMAIN pq = 1..Len(pq),
             \A i \in DOMAIN pq :
               /\ pq'[i].read = pq[i].read
               /\ pq'[i].read.id > 0 => pq'[i].hseq = pq[i].hseq,
             pq'[k].read = lastHead', pq'[k].read.id > 0 => pq'[k].hseq = headSeq'
      PROVE  ReadInv'
  <2>1. Len(pq) \in Nat
    BY <1>2
  <2>2. \A i \in DOMAIN pq' : i \in DOMAIN pq \/ i = k
    BY <1>4, <2>1
  <2>3. \A i, j \in DOMAIN pq' : i < j => i \in DOMAIN pq
    BY <1>4, <2>1
  <2>4. NotAfter(pq'[k], lastHead', headSeq')
    BY <1>4 DEF NotAfter
  <2>5. \A i \in DOMAIN pq : \A read, h : NotAfter(pq'[i], read, h) <=> NotAfter(pq[i], read, h)
    BY <1>4, SameRead
  <2>6. \A i \in DOMAIN pq' : NotAfter(pq'[i], lastHead', headSeq')
    BY <2>2, <2>4, <2>5
  <2>7. \A i \in DOMAIN pq' : Older(pq[i].read)'
    BY <1>4, <2>2 DEF Older
  <2>8. \A i \in DOMAIN pq : \A q : NotAfter(q, pq'[i].read, pq'[i].hseq) <=> NotAfter(q, pq[i].read, pq[i].hseq)
    BY <1>4 DEF NotAfter
  <2>9. \A i \in DOMAIN pq : NotAfter(pq'[i], pq'[k].read, pq'[k].hseq)
    BY <1>4, <2>5 DEF NotAfter
  <2>10. \A i, j \in DOMAIN pq' : i < j => NotAfter(pq'[i], pq'[j].read, pq'[j].hseq)
    BY <2>2, <2>3, <2>5, <2>8, <2>9 DEF ReadInv, QueuedInv
  <2>11. QueuedInv'
    BY <2>6, <2>7, <2>10 DEF QueuedInv, NotAfter
  <2>12. \A i \in DOMAIN pq' : Ahead(pq[i].read, pq[i].hseq)'
    BY <1>4, <2>2 DEF ReadInv, AheadInv, Ahead
  <2>13. AheadInv'
    BY <2>12 DEF AheadInv
  <2> QED BY <2>11, <2>13 DEF ReadInv
<1>5. CASE pq' = Append(pq, m)
  <2>1. /\ DOMAIN pq' = 1..(Len(pq) + 1) /\ DOMAIN pq = 1..Len(pq) /\ Len(pq) + 1 \in Nat
        /\ \A i \in DOMAIN pq : pq'[i] = pq[i]
        /\ pq'[Len(pq) + 1] = m
    BY <1>2, <1>5
  <2> QED BY <1>1, <1>4, <2>1
<1>6. CASE pq # <<>> /\ pq' = Append(Front(pq), m) \o <<Last(pq)>> /\ Last(pq).read = m.read
  <2>0. Len(pq) \in Nat /\ Len(pq) >= 1 /\ DOMAIN pq = 1..Len(pq)
    BY <1>2, <1>6
  <2>1. /\ Front(pq) \in Seq(Msg) /\ Len(Front(pq)) = Len(pq) - 1
        /\ \A i \in 1..(Len(pq) - 1) : Front(pq)[i] = pq[i]
        /\ Last(pq) = pq[Len(pq)]
    BY <1>2, <1>6, FrontLast
  <2>s. PICK S : S = Msg \cup {m}
    OBVIOUS
  <2>2. Front(pq) \in Seq(S) /\ m \in S /\ Last(pq) \in S
    BY <1>2, <1>6, <2>1, <2>s, FrontLast
  <2>3. Len(Front(pq)) + 1 = Len(pq) /\ Len(Front(pq)) + 2 = Len(pq) + 1
    BY <2>0, <2>1
  <2>4. /\ DOMAIN pq' = 1..(Len(pq) + 1)
        /\ \A i \in 1..(Len(pq) - 1) : pq'[i] = pq[i]
        /\ pq'[Len(pq)] = m /\ pq'[Len(pq) + 1] = pq[Len(pq)]
    <3>1. PICK f \in Seq(S), p \in S : f = Front(pq) /\ p = Last(pq)
      BY <2>2
    <3>2. pq' = Append(f, m) \o <<p>>
      BY <1>6, <3>1
    <3>3. /\ DOMAIN pq' = 1..(Len(f) + 2)
          /\ \A i \in 1..Len(f) : pq'[i] = f[i]
          /\ pq'[Len(f) + 1] = m /\ pq'[Len(f) + 2] = p
      BY <2>2, <3>2, TwoBehind
    <3> QED BY <2>1, <2>3, <3>1, <3>3
  <2>5. NotAfter(pq[Len(pq)], lastHead', headSeq') /\ pq[Len(pq)].read = lastHead'
    BY <1>1, <1>6, <2>0, <2>1
  <2>6. lastHead'.id > 0 => pq[Len(pq)].hseq = headSeq'
    BY <2>5 DEF NotAfter
  <2>7. \A i \in DOMAIN pq : /\ pq'[i].read = pq[i].read
                             /\ pq'[i].read.id > 0 => pq'[i].hseq = pq[i].hseq
    BY <1>1, <2>0, <2>4, <2>5, <2>6
  <2>8. pq'[Len(pq) + 1].read = lastHead' /\ (pq'[Len(pq) + 1].read.id > 0 => pq'[Len(pq) + 1].hseq = headSeq')
    BY <2>4, <2>5, <2>6
  <2>9. Len(pq) + 1 \in Nat
    BY <2>0
  <2> QED BY <1>4, <2>0, <2>4, <2>7, <2>8, <2>9
<1> QED BY <1>3, <1>5, <1>6 DEF Publishes, queueVars

(* A tick keeps the last read older than the one being computed. *)
LEMMA TickLast ==
  ASSUME TypeInv, LastOlder, TickInactive \/ TickActive
  PROVE  /\ LastOlder'
         /\ \/ lastHead' = lastHead /\ headSeq' = headSeq
            \/ lastHead' = job /\ job # NoRead /\ headSeq' = headSeq + 1
         /\ \A n \in Nat : n <= reads /\ (job.id > 0 => n < job.id) =>
              /\ n <= reads' /\ (job'.id > 0 => n < job'.id)
<1>1. /\ lastHead.id \in Nat /\ job.id \in Nat /\ reads \in Nat /\ headSeq \in Nat
      /\ job # NoRead => job.id > 0
  <2>1. job \in Read \cup {NoRead}
    BY DEF TypeInv, PolicyTyped, PolicyOK
  <2> QED BY <2>1, ReadIds
\* The read that is published next.
<1>2. \/ lastHead' = lastHead /\ headSeq' = headSeq
      \/ lastHead' = job /\ job # NoRead /\ headSeq' = headSeq + 1
  BY DEF TickInactive, TickActive
\* The read that is computed next.
<1>3. \/ job' = NoRead /\ reads' = reads
      \/ job' = job /\ reads' = reads /\ lastHead' = lastHead
      \/ job'.id = reads + 1 /\ reads' = reads + 1
  <2>1. CASE TickInactive
    BY <2>1 DEF TickInactive
  <2>2. CASE TickActive
    <3>1. headSeq + 1 # headSeq
      BY <1>1
    <3> QED BY <1>1, <2>2, <3>1 DEF TickActive
  <2> QED BY <2>1, <2>2
<1>4. \A n \in Nat : n <= reads /\ (job.id > 0 => n < job.id) =>
        n <= reads' /\ (job'.id > 0 => n < job'.id)
  BY <1>1, <1>3 DEF NoRead
<1>5. lastHead'.id <= reads' /\ (job'.id > 0 => lastHead'.id < job'.id) /\ job'.id <= reads'
  BY <1>1, <1>2, <1>3, <1>4 DEF LastOlder, Older, NoRead
<1> QED BY <1>2, <1>4, <1>5 DEF LastOlder, Older

(* A tick of the policy: the result of the read being computed may come in,
   and the next read may be requested. *)
LEMMA TickReads ==
  ASSUME ~overtaken', TypeInv, ReadInv, TickInactive \/ TickActive
  PROVE  ReadInv'
<1>0. UNCHANGED <<backing, headSeen>>
  BY DEF TickInactive, TickActive, mgrVars
<1>1. /\ \A i \in DOMAIN pq : pq[i].read.id \in Nat
      /\ \A k \in DOMAIN backing : backing[k].id \in Nat
      /\ lastHead.id \in Nat /\ job.id \in Nat /\ reads \in Nat /\ headSeq \in Nat
      /\ job # NoRead => job.id > 0
  <2>1. job \in Read \cup {NoRead}
    BY DEF TypeInv, PolicyTyped, PolicyOK
  <2> QED BY <2>1, ReadIds
<1>l. LastOlder
  BY DEF ReadInv, LastOlder
<1>2. \/ lastHead' = lastHead /\ headSeq' = headSeq
      \/ lastHead' = job /\ job # NoRead /\ headSeq' = headSeq + 1
  BY <1>l, TickLast
<1>4. \A n \in Nat : n <= reads /\ (job.id > 0 => n < job.id) =>
        n <= reads' /\ (job'.id > 0 => n < job'.id)
  BY <1>l, TickLast
<1>5. Older(lastHead)' /\ job'.id <= reads'
  <2>1. LastOlder'
    BY <1>l, TickLast
  <2> QED BY <2>1 DEF LastOlder
<1>6. CountedInv'
  BY <1>0, <1>1, <1>4 DEF ReadInv, CountedInv, Older
<1>7. Ahead(lastHead, headSeq)'
  <2>1. CASE lastHead' = lastHead /\ headSeq' = headSeq
    BY <1>0, <2>1 DEF ReadInv, AheadInv, Ahead
  <2>2. CASE lastHead' = job /\ job # NoRead
    BY <1>0, <1>1, <2>2 DEF ReadInv, CountedInv, Older, Ahead
  <2> QED BY <1>2, <2>1, <2>2
<1>8. \A i \in DOMAIN pq : /\ NotAfter(pq[i], lastHead', headSeq') /\ pq[i].read.id <= reads'
                           /\ job'.id > 0 => pq[i].read.id < job'.id
  <2>1. \A i \in DOMAIN pq : NotAfter(pq[i], lastHead', headSeq')
    BY <1>1, <1>2 DEF ReadInv, QueuedInv, Older, NotAfter
  <2> QED BY <1>1, <1>4, <2>1 DEF ReadInv, QueuedInv, Older
<1>9. lastHead'.id \in Nat
  BY <1>1, <1>2
<1> QED BY <1>0, <1>5, <1>6, <1>7, <1>8, <1>9, PublishReads DEF TickInactive, TickActive

(* Initially nothing was read. *)
LEMMA InitRead == Init => OrderInv
BY DEF Init, OrderInv, LastOlder, ReadInv, CountedInv, QueuedInv, AheadInv, Ahead, Older, NoRead

(* A new rollout counts from nothing, and what the drained queue still holds
   is in order if it was. *)
LEMMA DrainedReads ==
  ASSUME TypeInv, OrderInv, Drained, backing' = <<>>, UNCHANGED <<lastHead, headSeq, job, reads>>
  PROVE  OrderInv'
<1>1. LastOlder'
  BY DEF OrderInv, LastOlder, Older
<1>2. CountedInv' /\ AheadInv'
  BY DEF CountedInv, AheadInv, Ahead
<1>3. CASE pq' = <<>>
  <2>1. QueuedInv'
    BY <1>3 DEF QueuedInv
  <2> QED BY <1>1, <1>2, <2>1 DEF OrderInv, LastOlder, ReadInv
<1>4. ASSUME NEW n \in 2..Len(pq), pq' = SubSeq(pq, n, Len(pq)), ~overtaken PROVE OrderInv'
  <2>1. pq \in Seq(Msg) /\ Len(pq) \in Nat
    BY DEF TypeInv, QueueTyped
  <2>2. \A i \in DOMAIN pq' : i \in Nat /\ i + n - 1 \in DOMAIN pq /\ pq'[i] = pq[i + n - 1]
    BY <1>4, <2>1
  <2>3. QueuedInv
    BY <1>4 DEF OrderInv, ReadInv
  <2>4. \A i \in DOMAIN pq' : NotAfter(pq'[i], lastHead, headSeq) /\ Older(pq'[i].read)
    BY <2>2, <2>3 DEF QueuedInv
  <2>5. \A i, j \in DOMAIN pq' : i < j => NotAfter(pq'[i], pq'[j].read, pq'[j].hseq)
    BY <2>2, <2>3 DEF QueuedInv
  <2>6. QueuedInv'
    BY <2>4, <2>5 DEF QueuedInv, NotAfter, Older
  <2> QED BY <1>1, <1>2, <2>6 DEF OrderInv, LastOlder, ReadInv
<1>5. CASE overtaken /\ pq' # <<>>
  BY <1>1, <1>5 DEF Drained, OrderInv
<1> QED BY <1>3, <1>4, <1>5 DEF Drained

(* Every step keeps the invariant. *)
LEMMA NextRead == TypeInv /\ OrderInv /\ [Next]_vars => OrderInv'
<1> SUFFICES ASSUME TypeInv, OrderInv, [Next]_vars PROVE OrderInv'
  OBVIOUS
<1>a. ASSUME UNCHANGED <<backing, headSeen, pq, overtaken, lastHead, headSeq, job, reads>>
      PROVE  OrderInv'
  BY <1>a DEF OrderInv, LastOlder, ReadInv, CountedInv, QueuedInv, AheadInv, Ahead, NotAfter, Older
<1>b. ASSUME ReadInv' PROVE OrderInv'
  BY <1>b DEF ReadInv, OrderInv, LastOlder
<1>1. ASSUME Begin \/ BeginFails PROVE OrderInv'
  <2>1. Drained /\ backing' = <<>> /\ UNCHANGED <<lastHead, headSeq, job, reads>>
    BY <1>1 DEF Begin, BeginFails, polVars
  <2> QED BY <2>1, DrainedReads
<1>2. ASSUME SendGoal \/ GoalAccepted \/ GoalRefused \/ LoopPass \/ LoopCancel \/ Finish \/ Crash
      PROVE  OrderInv'
  BY <1>2, <1>a DEF SendGoal, GoalAccepted, GoalRefused, LoopPass, LoopCancel, Finish, Crash,
     goalVars, polVars, queueVars
<1>3. ASSUME HandOver \/ ObservationChange \/ TakeTask PROVE OrderInv'
  BY <1>3, <1>a DEF HandOver, ObservationChange, TakeTask, mgrVars, polVars, queueVars
<1>4. ASSUME NEW r \in Rollouts, PolicyGoal(r) PROVE OrderInv'
  <2>1. CASE AcceptGoal(r) \/ RunPrompt(r) \/ SetupFails(r) \/ RunEnd(r)
    BY <2>1, <1>a DEF AcceptGoal, RunPrompt, SetupFails, RunEnd, mgrVars, polVars, queueVars
  <2>2. CASE RunBegin(r)
    <3>1. UNCHANGED <<backing, headSeen, pq, overtaken, job, reads>> /\ lastHead' = NoRead
      BY <2>2 DEF RunBegin, mgrVars, queueVars
    <3>2. reads \in Nat /\ NoRead.id = 0
      BY ReadIds DEF NoRead
    <3>3. LastOlder'
      BY <3>1, <3>2 DEF OrderInv, LastOlder, Older
    <3>4. ASSUME ReadInv PROVE ReadInv'
      <4>1. CountedInv'
        BY <3>1, <3>4 DEF ReadInv, CountedInv, Older
      <4>2. QueuedInv' /\ AheadInv'
        BY <3>1, <3>2, <3>4 DEF ReadInv, QueuedInv, AheadInv, Ahead, NotAfter, Older
      <4> QED BY <3>3, <4>1, <4>2 DEF ReadInv, LastOlder
    <3> QED BY <3>1, <3>3, <3>4 DEF OrderInv
  <2> QED BY <1>4, <2>1, <2>2 DEF PolicyGoal
<1>5. CASE UNCHANGED vars
  BY <1>5, <1>a DEF vars, mgrVars, polVars, queueVars
<1>6. ASSUME PumpMessage PROVE OrderInv'
  <2>1. UNCHANGED <<overtaken, lastHead, job, reads>>
    BY <1>6 DEF PumpMessage, polVars
  <2>2. LastOlder'
    BY <2>1 DEF OrderInv, LastOlder, Older
  <2>3. ReadInv => ReadInv'
    BY <1>6, PumpReads
  <2> QED BY <2>1, <2>2, <2>3 DEF OrderInv
<1>7. ASSUME TickInactive \/ TickActive PROVE OrderInv'
  <2>1. LastOlder
    BY DEF OrderInv
  <2>2. LastOlder'
    BY <1>7, <2>1, TickLast
  <2>3. CASE overtaken'
    BY <2>2, <2>3 DEF OrderInv
  <2>4. CASE ~overtaken'
    <3>1. ~overtaken
      BY <1>7, <2>4 DEF TickInactive, TickActive, Publishes, queueVars
    <3>2. ReadInv'
      BY <1>7, <2>4, <3>1, TickReads DEF OrderInv
    <3> QED BY <3>2, <1>b
  <2> QED BY <2>3, <2>4
<1> QED BY <1>1, <1>2, <1>3, <1>4, <1>5, <1>6, <1>7 DEF Next, Manager, Policy

(* No head read counts twice towards a decision, however many PolicyStates
   carry it and however many are lost, unless in this rollout a PolicyState
   was queued before one with an older read. *)
THEOREM ReadsOnce == Spec => []ReadsCountOnce
<1>1. ASSUME TypeInv, ReadInv
      PROVE  \A i, j \in DOMAIN backing : i # j => backing[i].id # backing[j].id
  <2>1. \A i, j \in DOMAIN backing : i # j => i < j \/ j < i
    BY <1>1 DEF TypeInv, ManagerTyped, MgrOK
  <2>2. \A k \in DOMAIN backing : backing[k].id \in Nat
    BY <1>1, ReadIds
  <2> QED BY <1>1, <2>1, <2>2 DEF ReadInv, CountedInv
<1>2. TypeInv /\ OrderInv => ReadsCountOnce
  BY <1>1 DEF OrderInv, ReadsCountOnce
<1>3. TypeInv /\ OrderInv /\ [Next]_vars => (TypeInv /\ OrderInv)'
  BY NextTyped, NextRead
<1>4. Init => TypeInv /\ OrderInv
  BY InitTyped, InitRead
<1> QED BY <1>2, <1>3, <1>4, PTL DEF Spec
=============================================================================
