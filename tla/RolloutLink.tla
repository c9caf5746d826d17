---------------------------- MODULE RolloutLink ----------------------------
(***************************************************************************)
(* The manager node and the policy node, each reduced to what they tell    *)
(* each other: the manager's action thread (ManagerNode._run, _pump) with  *)
(* the life cycle and prompt versions of EpisodeManager, and the policy    *)
(* node's goal, tick and inference thread (PolicyNode in full).            *)
(*                                                                         *)
(* TaskState is reliable with a history of one: a message that is not      *)
(* taken before the next one is replaced by it.  PolicyState is best       *)
(* effort: published on every tick, it may be lost, and one may be queued   *)
(* after later ones, since the manager's subscription is in a reentrant    *)
(* callback group of a multi-threaded executor.                            *)
(***************************************************************************)
EXTENDS Naturals, Sequences, SequencesExt

CONSTANTS
  MaxRollouts,   \* bound: RunRollout goals
  Stages,        \* subtasks in the plan of a free part
  HeldStages,    \* subtasks in the plan of a part in the gripper
  Hysteresis,    \* mvla.hysteresis
  Consecutive,   \* mvla.completion_consecutive
  MaxRetries,    \* bound: the task manager's retry budget
  HeadStart,     \* the start state is read from the head, else it is fixed
  SetupMayFail,  \* whether the robot may refuse the control mode
  ObservationsStop, \* whether observations may stop
  MaxReads,      \* bound: head reads the policy may request
  QueueCap       \* bound: PolicyStates waiting in the manager's queue; 1 leaves no room to overtake

ASSUME ConstantsAssumption ==
  /\ MaxRollouts \in Nat /\ MaxReads \in Nat /\ QueueCap \in Nat \ {0} /\ MaxRetries \in Nat
  /\ Stages \in Nat \ {0} /\ HeldStages \in 1..Stages
  /\ Hysteresis \in Nat \ {0} /\ Consecutive \in Nat \ {0}
  /\ {HeadStart, SetupMayFail, ObservationsStop} \subseteq BOOLEAN

VARIABLES
  mpc,        \* the rollout thread: "ready", "starting", "awaiting", "loop"
  rollout,    \* number of the current (or last) rollout
  status,     \* EpisodeManager.status
  view,       \* EpisodeManager._view; t0 counts the subtasks entered
  retries,    \* replans in this rollout
  count,      \* consecutive reads that say "next" (or "done" on the last subtask)
  backing,    \* those reads, kept after the decision they led to
  headSeen,   \* ManagerNode._head_seq
  lastSeen,   \* ManagerNode.policy
  lastSent,   \* ManagerNode._last_task_seq
  pq,         \* ManagerNode._policy_q
  overtaken,  \* whether a PolicyState of this rollout was queued before one with an older read
  wire,       \* the TaskState that is not yet taken
  pgoal,      \* RunPolicy goal of each rollout
  cancelled,  \* rollouts whose goal was asked to cancel
  pstatus,    \* PolicyExecutor.status
  prompt,     \* PolicyNode._prompt
  live,       \* ~PolicyNode._standalone
  headSeq,    \* PolicyExecutor.head_seq
  lastHead,   \* PolicyExecutor.last_head
  job,        \* the head read being computed
  reads,      \* head reads requested so far
  grip,       \* whether the gripper holds a part
  blind       \* whether the observation is missing or older than stale_timeout_s

mgrVars  == <<mpc, rollout, status, view, retries, count, backing,
              headSeen, lastSeen, lastSent>>
goalVars == <<pgoal, cancelled>>
polVars  == <<pstatus, prompt, live, headSeq, lastHead, job, reads>>
queueVars == <<pq, overtaken>>
envVars  == <<grip, blind>>
vars == <<mgrVars, queueVars, wire, goalVars, polVars, envVars>>

Rollouts == 1..MaxRollouts
\* A head read: its number, the policy episode and the prompt it was computed under.
Read   == [id : 1..MaxReads, ro : 0..MaxRollouts, seq : Nat]
NoRead == [id |-> 0, ro |-> 0, seq |-> 0]
TaskStates == {"active", "idle", "done", "blocked", "probing"}
\* TaskState; ro is the rollout it belongs to.
NoTask == [ro |-> 0, seq |-> 0, st |-> "none", left |-> 0]
Await  == [ro |-> 0, seq |-> 0, st |-> "idle", left |-> 0]
NoView == [seq |-> 0, st |-> "idle", left |-> 0, t0 |-> 0]
\* PolicyState.
NoMsg  == [st |-> "none", seq |-> 0, hseq |-> 0, read |-> NoRead, grip |-> FALSE]

MActive == status \in {"probing", "active"}
PActive == pstatus \in {"starting", "running"}
Executing == {r \in Rollouts : pgoal[r] \in {"accepted", "prompted", "running"}}

MgrOK ==
  /\ mpc \in {"ready", "starting", "awaiting", "loop"} /\ rollout \in 0..MaxRollouts
  /\ status \in {"idle", "probing", "active", "done", "stopped", "aborted", "needs_operator"}
  /\ view \in [seq : Nat, st : TaskStates, left : 0..Stages, t0 : Nat]
  /\ retries \in 0..MaxRetries /\ count \in Nat /\ (count < Hysteresis \/ count < Consecutive)
  /\ backing \in Seq(Read)
PolicyOK ==
  /\ pgoal \in [Rollouts -> {"none", "sent", "rejected", "accepted", "prompted", "running", "over",
                        "refused"}]
  /\ cancelled \subseteq Rollouts
  /\ pstatus \in {"idle", "starting", "running", "stopped", "aborted"}
  /\ live \in BOOLEAN /\ headSeq \in 0..MaxReads
  /\ {lastHead, job} \subseteq Read \cup {NoRead} /\ reads \in 0..MaxReads
TypeOK ==
  MgrOK /\ PolicyOK /\ Len(pq) <= QueueCap /\ {overtaken, grip, blind} \subseteq BOOLEAN

Init ==
  /\ mpc = "ready" /\ rollout = 0 /\ status = "idle" /\ view = NoView
  /\ retries = 0 /\ count = 0 /\ backing = <<>>
  /\ headSeen = 0 /\ lastSeen = NoMsg /\ lastSent = <<0, "active">>
  /\ pq = <<>> /\ wire = NoTask
  /\ pgoal = [r \in Rollouts |-> "none"] /\ cancelled = {}
  /\ pstatus = "idle" /\ prompt = Await /\ live = FALSE
  /\ headSeq = 0 /\ lastHead = NoRead /\ job = NoRead /\ reads = 0
  /\ grip = FALSE /\ blind = FALSE /\ overtaken = FALSE

-----------------------------------------------------------------------------
(* EpisodeManager.                                                         *)

\* Mutant: the version is not raised while the state is the same.
BumpedByState(v, st, left, t0) ==
  [seq |-> IF st = v.st THEN v.seq ELSE v.seq + 1, st |-> st, left |-> left, t0 |-> t0]

\* _bump: raise seq when, and only when, the content changes.
Bumped(v, st, left, t0) ==
  IF [v EXCEPT !.st = st, !.left = left, !.t0 = t0] = v THEN v
  ELSE [seq |-> v.seq + 1, st |-> st, left |-> left, t0 |-> t0]

\* stop(), abort(): only while active; the rest of the view is kept.
Ended(how, st) ==
  IF MActive
  THEN status' = how /\ view' = Bumped(view, st, view.left, view.t0)
  ELSE UNCHANGED <<status, view>>

\* A plan is made: free part or part in the gripper.
Planned(v, holding) ==
  Bumped(v, "active", IF holding THEN HeldStages ELSE Stages, 1)

\* Published unless the last one had the same version and state; by force always.
Task(r, v) == [ro |-> r, seq |-> v.seq, st |-> v.st, left |-> v.left]
Publish(r, v) ==
  IF <<v.seq, v.st>> = lastSent THEN UNCHANGED <<wire, lastSent>>
  ELSE wire' = Task(r, v) /\ lastSent' = <<v.seq, v.st>>
PublishForced(r, v) == wire' = Task(r, v) /\ lastSent' = <<v.seq, v.st>>

-----------------------------------------------------------------------------
(* The manager's rollout thread.                                           *)

\* The operator puts a part in the gripper, or takes it, between rollouts.
HandOver ==
  /\ mpc = "ready" /\ ~PActive
  /\ grip' = ~grip
  /\ UNCHANGED <<mgrVars, queueVars, wire, goalVars, polVars, blind>>

\* _await_policy: the first message in the queue, else the last one seen.
FirstPolicy == IF pq # <<>> THEN Head(pq) ELSE lastSeen

\* An operator starts the next rollout: by then the policy has taken the last
\* TaskState of the one before.
Requested == mpc = "ready" /\ rollout < MaxRollouts /\ wire = NoTask /\ FirstPolicy # NoMsg

\* _drain.  A PolicyState that a thread has taken but not queued yet stays.
Drained ==
  /\ pq' \in {<<>>} \cup {SubSeq(pq, n, Len(pq)) : n \in 2..Len(pq)}
  /\ overtaken' = (overtaken /\ pq' # <<>>)
  /\ headSeen' = 0

\* _run up to the first TaskState: the queue is drained after the PolicyState
\* that tells whether a part is held has been taken from it.
Begin ==
  /\ Requested
  /\ rollout' = rollout + 1 /\ lastSeen' = FirstPolicy
  /\ Drained
  /\ retries' = 0 /\ count' = 0 /\ backing' = <<>>
  /\ IF HeadStart /\ ~FirstPolicy.grip
     THEN status' = "probing" /\ view' = Bumped(NoView, "probing", 0, 0)
     ELSE status' = "active" /\ view' = Planned(NoView, FirstPolicy.grip)
  /\ Publish(rollout + 1, view')
  /\ mpc' = "starting"
  /\ UNCHANGED <<goalVars, polVars, envVars>>

\* begin() raised: no planner, or it has no plan.
BeginFails ==
  /\ Requested
  /\ rollout' = rollout + 1 /\ lastSeen' = FirstPolicy
  /\ Drained /\ status' = "probing" /\ view' = NoView
  /\ retries' = 0 /\ count' = 0 /\ backing' = <<>>
  /\ UNCHANGED <<mpc, lastSent, wire, goalVars, polVars, envVars>>

SendGoal ==
  /\ mpc = "starting" /\ mpc' = "awaiting"
  /\ pgoal' = [pgoal EXCEPT ![rollout] = "sent"]
  /\ UNCHANGED <<rollout, status, view, retries, count, backing, headSeen,
                 lastSeen, lastSent, queueVars, wire, cancelled, polVars, envVars>>

GoalAccepted ==
  /\ mpc = "awaiting" /\ pgoal[rollout] \notin {"sent", "rejected"}
  /\ mpc' = "loop"
  /\ UNCHANGED <<rollout, status, view, retries, count, backing, headSeen,
                 lastSeen, lastSent, queueVars, wire, goalVars, polVars, envVars>>

\* Rejected, or no answer within 10 s.  The abort is not published and a goal
\* that is accepted later is not cancelled.
GoalRefused ==
  /\ mpc = "awaiting"
  /\ Ended("aborted", "blocked")
  /\ mpc' = "ready"
  /\ UNCHANGED <<rollout, retries, count, backing, headSeen,
                 lastSeen, lastSent, queueVars, wire, goalVars, polVars, envVars>>

\* Replanned after a stall, or the budget is used up.
Stalled ==
  \/ /\ retries < MaxRetries
     /\ retries' = retries + 1
     /\ \E l \in view.left..Stages : view' = Bumped(view, "active", l, view.t0 + 1)
     /\ UNCHANGED status
  \/ /\ status' = "needs_operator" /\ view' = Bumped(view, "blocked", view.left, view.t0)
     /\ UNCHANGED retries

\* Mutant: one read more than configured.
NeededMore == IF view.left > 1 THEN Hysteresis + 1 ELSE Consecutive + 1
\* The streak that moves the plan on.
Needed == IF view.left > 1 THEN Hysteresis ELSE Consecutive

\* SubtaskTracker.observe: `read` says that the next subtask has begun or that
\* the last one is complete; enough of them in a row move the plan on.
Seen(read) ==
  /\ backing' = IF count = 0 THEN <<read>> ELSE Append(backing, read)
  /\ IF count + 1 < Needed
     THEN count' = count + 1 /\ UNCHANGED <<status, view>>
     ELSE /\ count' = 0
          /\ IF view.left > 1
             THEN view' = Bumped(view, "active", view.left - 1, view.t0 + 1) /\ UNCHANGED status
             ELSE view' = Bumped(view, "done", view.left, view.t0) /\ status' = "done"
  /\ UNCHANGED retries

Observe(read) ==
  \/ Seen(read)
  \/ count' = 0 /\ backing' = <<>> /\ UNCHANGED <<status, view, retries>>
  \/ count' = 0 /\ backing' = <<>> /\ Stalled

\* Only a read labelled with the current version is used.
Current(label) == label = view.seq

OnHead(m) ==
  CASE status = "probing" ->
         /\ status' = "active" /\ view' = Planned(view, m.grip)
         /\ UNCHANGED <<retries, count, backing>>
    [] status = "active" /\ Current(m.seq) ->
         Observe(m.read)
    [] OTHER -> UNCHANGED <<status, view, retries, count, backing>>

\* Mutant: every message counts as a new read.
AnyRead(m) == m.read # NoRead
\* A read not seen before: its number differs from the last one.
NewRead(m) == m.hseq # headSeen /\ m.read # NoRead

\* _pump, one message; several are applied before anything is published, and
\* the rest is taken even when one of them ends the rollout.
PumpMessage ==
  /\ mpc = "loop" /\ pq # <<>>
  /\ LET m == Head(pq)
     IN /\ lastSeen' = m
        /\ IF NewRead(m)
           THEN headSeen' = m.hseq /\ OnHead(m)
           ELSE UNCHANGED <<headSeen, status, view, retries, count, backing>>
  /\ pq' = Tail(pq)
  /\ UNCHANGED <<mpc, rollout, lastSent, overtaken, wire, goalVars, polVars, envVars>>

\* Mutant: only a commanded stop of the policy ends the rollout.
PolicyStopped == lastSeen.st = "stopped"
PolicyEnded   == lastSeen.st \in {"aborted", "stopped"}

\* The queue is empty: publish what changed, then stop if the policy has
\* stopped by itself; else there may be a periodic beat.
LoopPass ==
  /\ mpc = "loop" /\ MActive /\ pq = <<>>
  /\ IF PolicyEnded
     THEN Ended("aborted", "blocked") /\ Publish(rollout, view)
     ELSE UNCHANGED <<status, view>> /\ (Publish(rollout, view) \/ PublishForced(rollout, view))
  /\ UNCHANGED <<mpc, rollout, retries, count, backing, headSeen, lastSeen,
                 queueVars, goalVars, polVars, envVars>>

LoopCancel ==
  /\ mpc = "loop" /\ MActive
  /\ Ended("stopped", "idle")
  /\ UNCHANGED <<mpc, rollout, retries, count, backing, headSeen, lastSeen, lastSent,
                 queueVars, wire, goalVars, polVars, envVars>>

\* The rollout ends: the last TaskState, then the policy goal is cancelled.
Finish ==
  /\ mpc = "loop" /\ ~MActive
  /\ PublishForced(rollout, view)
  /\ cancelled' = cancelled \cup {rollout}
  /\ mpc' = "ready"
  /\ UNCHANGED <<rollout, status, view, retries, count, backing, headSeen, lastSeen,
                 queueVars, pgoal, polVars, envVars>>

\* An exception in the loop (a replan the planner refuses).
Crash ==
  /\ mpc = "loop"
  /\ Ended("aborted", "blocked")
  /\ PublishForced(rollout, view')
  /\ cancelled' = cancelled \cup {rollout}
  /\ mpc' = "ready"
  /\ UNCHANGED <<rollout, retries, count, backing, headSeen, lastSeen,
                 queueVars, pgoal, polVars, envVars>>

Manager ==
  Begin \/ BeginFails \/ SendGoal \/ GoalAccepted \/ GoalRefused
  \/ PumpMessage \/ LoopPass \/ LoopCancel \/ Finish \/ Crash

-----------------------------------------------------------------------------
(* The policy node.                                                        *)

\* A PolicyState is published: it is lost, queued, or queued before the last one.
Publishes(m) ==
  \/ UNCHANGED queueVars
  \/ Len(pq) < QueueCap /\ pq' = Append(pq, m) /\ UNCHANGED overtaken
  \/ /\ Len(pq) < QueueCap /\ pq # <<>>
     /\ pq' = Append(Front(pq), m) \o <<Last(pq)>>
     /\ overtaken' = (overtaken \/ Last(pq).read # m.read)

State(seq) ==
  [st |-> pstatus', seq |-> seq, hseq |-> headSeq', read |-> lastHead', grip |-> grip]

TickInactive ==
  /\ ~PActive
  /\ job' \in {job, NoRead}            \* a result that arrives now is thrown away
  /\ UNCHANGED <<pstatus, headSeq, lastHead>>
  /\ Publishes(State(0))
  /\ UNCHANGED <<mgrVars, wire, goalVars, prompt, live, reads, envVars>>

Halted == prompt.st \in {"done", "blocked"}

\* What a tick of an episode does: stop when told to, abort by the deadman, hold
\* while the observation is stale, abort by the episode timeout, or go on.
StatusAfterTick ==
  IF Halted THEN {"stopped"}
  ELSE {"aborted", IF ~blind /\ prompt.st = "active" THEN "running" ELSE pstatus}

\* The read that is published belongs to the prompt it was requested under;
\* the label is the prompt of the tick that publishes it.
TickActive ==
  /\ PActive
  /\ \/ job # NoRead /\ headSeq < MaxReads /\ headSeq' = headSeq + 1 /\ lastHead' = job
     \/ UNCHANGED <<headSeq, lastHead>>
  /\ pstatus' \in StatusAfterTick
  /\ LET left == IF headSeq' # headSeq THEN NoRead ELSE job
     IN \/ job' = left /\ UNCHANGED reads
        \/ /\ left = NoRead /\ pstatus' \notin {"stopped", "aborted"} /\ ~blind
           /\ reads < MaxReads
           /\ prompt.st \in IF HeadStart THEN {"active", "probing"} ELSE {"active"}
           /\ reads' = reads + 1
           /\ job' = [id |-> reads + 1, ro |-> prompt.ro, seq |-> prompt.seq]
  /\ Publishes(State(prompt.seq))
  /\ UNCHANGED <<mgrVars, wire, goalVars, prompt, live, envVars>>

\* Observations stop or come back.
ObservationChange ==
  /\ ObservationsStop
  /\ blind' = ~blind
  /\ UNCHANGED <<mgrVars, queueVars, wire, goalVars, polVars, grip>>

\* _on_task_state: dropped while no manager-driven episode runs.
TakeTask ==
  /\ wire # NoTask
  /\ wire' = NoTask
  /\ prompt' = IF live THEN wire ELSE prompt
  /\ UNCHANGED <<mgrVars, queueVars, goalVars, pstatus, live, headSeq, lastHead, job, reads, envVars>>

AcceptGoal(r) ==
  /\ pgoal[r] = "sent"
  /\ pgoal' = [pgoal EXCEPT ![r] = IF Executing = {} THEN "accepted" ELSE "rejected"]
  /\ UNCHANGED <<mgrVars, queueVars, wire, cancelled, polVars, envVars>>

\* Mutant: the prompt of the last episode is kept.
PromptKept(r) ==
  /\ pgoal[r] = "accepted"
  /\ pgoal' = [pgoal EXCEPT ![r] = "prompted"]
  /\ live' = TRUE
  /\ UNCHANGED <<mgrVars, queueVars, wire, cancelled, pstatus, prompt, headSeq, lastHead, job, reads, envVars>>

\* The prompt is idle until the manager's next TaskState.
RunPrompt(r) ==
  /\ pgoal[r] = "accepted"
  /\ pgoal' = [pgoal EXCEPT ![r] = "prompted"]
  /\ live' = TRUE /\ prompt' = Await
  /\ UNCHANGED <<mgrVars, queueVars, wire, cancelled, pstatus, headSeq, lastHead, job, reads, envVars>>

SetupFails(r) ==
  /\ SetupMayFail /\ pgoal[r] = "accepted"
  /\ pgoal' = [pgoal EXCEPT ![r] = "refused"]
  /\ UNCHANGED <<mgrVars, queueVars, wire, cancelled, polVars, envVars>>

\* PolicyExecutor.begin; a read being computed is not forgotten.
RunBegin(r) ==
  /\ pgoal[r] = "prompted"
  /\ pgoal' = [pgoal EXCEPT ![r] = "running"]
  /\ pstatus' = "starting" /\ headSeq' = 0 /\ lastHead' = NoRead
  /\ UNCHANGED <<mgrVars, queueVars, wire, cancelled, prompt, live, job, reads, envVars>>

RunEnd(r) ==
  /\ pgoal[r] = "running"
  /\ ~PActive \/ r \in cancelled
  /\ pgoal' = [pgoal EXCEPT ![r] = "over"]
  /\ pstatus' = IF PActive THEN "stopped" ELSE pstatus
  /\ live' = FALSE
  /\ UNCHANGED <<mgrVars, queueVars, wire, cancelled, prompt, headSeq, lastHead, job, reads, envVars>>

PolicyGoal(r) == AcceptGoal(r) \/ RunPrompt(r) \/ SetupFails(r) \/ RunBegin(r) \/ RunEnd(r)
Policy == TickInactive \/ TickActive \/ TakeTask \/ \E r \in Rollouts : PolicyGoal(r)

Next == HandOver \/ ObservationChange \/ Manager \/ Policy
Spec == Init /\ [][Next]_vars

\* A tick that ends the episode: told to stop, or past max_episode_s with an
\* observation at hand (only then is the time looked at).
TickEnds == TickActive /\ ~PActive' /\ (Halted \/ ~blind)

\* The threads keep going, the manager empties its queue faster than 30 Hz
\* fills it, and of the PolicyStates published again and again some arrive.
FairSpec ==
  /\ Spec
  /\ WF_vars(PumpMessage) /\ SF_vars(LoopPass) /\ WF_vars(Finish)
  /\ WF_vars(SendGoal) /\ WF_vars(GoalAccepted \/ GoalRefused)
  /\ WF_vars(TickEnds) /\ WF_vars(TakeTask)
  /\ SF_vars(TickInactive /\ pq' # pq)
  /\ \A r \in Rollouts : WF_vars(PolicyGoal(r))

-----------------------------------------------------------------------------
(* Correctness.                                                            *)

(* A version names one prompt: while the policy holds a prompt of this rollout
   with the manager's version, it is the manager's current subtask, so a read
   computed under it is about the current subtask (EpisodeManager._bump). *)
VersionNamesPrompt ==
  \A t \in {prompt, wire} :
    t.ro = rollout /\ t.ro > 0 /\ t.seq = view.seq => t.st = view.st /\ t.left = view.left

(* A new policy episode does not run the prompt an earlier rollout left: what
   it moves on was published since the rollout began. *)
NoOldPrompt ==
  \A r \in Rollouts : pgoal[r] \in {"prompted", "running"} /\ prompt.st = "active" => prompt.ro >= r

(* A head read is counted at most once, unless in this rollout a PolicyState
   was queued before one with an older read (PolicyState.head_seq). *)
ReadsCountOnce ==
  overtaken \/ \A i, j \in DOMAIN backing : i # j => backing[i].id # backing[j].id

(* A read computed under another prompt never counts towards moving the plan on. *)
StaleReadsDropped ==
  [][backing' # backing /\ backing' # <<>> =>
       Last(backing').seq = view.seq /\ Last(backing').ro = rollout]_mgrVars

(* If observations come back for good, every rollout whose episode the policy
   node did not refuse before beginning it ends, if only by the policy's
   timeout, although any PolicyState about it may be lost. *)
RolloutEnds ==
  <>[]~blind => (mpc = "loop" ~> mpc = "ready" \/ pgoal[rollout] = "refused")

(* A rollout ends after max_episode_s at the latest, observations or not: "On
   expiry the policy aborts itself and zeroes the arm" (RunPolicy.action). *)
TimeoutEnds == mpc = "loop" ~> mpc = "ready" \/ pgoal[rollout] = "refused"
=============================================================================
