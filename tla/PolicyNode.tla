----------------------------- MODULE PolicyNode -----------------------------
(***************************************************************************)
(* The policy node of max_ai: the 30 Hz control timer that runs            *)
(* PolicyExecutor.tick, the inference thread (ThreadedWorker), the         *)
(* RunPolicy action threads that begin and stop episodes, and the TaskState *)
(* subscription that replaces the prompt.                                  *)
(*                                                                         *)
(* The timer and the subscription share a mutually exclusive callback      *)
(* group; the action threads and the inference thread share nothing with   *)
(* them, and PolicyExecutor has no lock.  A tick is therefore three steps  *)
(* (poll, decide, send) between which those threads may act.               *)
(*                                                                         *)
(* Time is counted in control periods.  Every clock the code compares with *)
(* a limit is kept as an age that stops growing once it is past the limit  *)
(* plus the velocity watchdog, so that the bounds below stay exact.        *)
(***************************************************************************)
EXTENDS Naturals, Sequences

CONSTANTS
  Goals,          \* RunPolicy goals the node may receive
  Standalone,     \* goals that carry a task_instruction (no manager, no deadman)
  Reloads,        \* goals that name another checkpoint
  ManagerPrompts, \* what the manager's TaskStates may say
  IsMvla,         \* runner.is_mvla
  NoGoal,         \* _goal_handle is None
  DeadmanTicks,   \* control.task_state_timeout_s
  StaleTicks,     \* control.stale_timeout_s
  EpisodeTicks,   \* max_episode_s
  WatchdogTicks,  \* control.command_duration_s: how long the arm obeys a command
  ChunkSteps,     \* actions in a chunk
  ExecuteSteps,   \* control.execute_steps
  MaxLead         \* largest latency compensation, in steps

Modes   == {"idle", "probing", "active", "halt"}

\* PromptSpec.  policy_prompt is left out: it is read only in mode active, and
\* its text matters only to the model; head_prompt is a flag for the same reason.
Prompts == [mode : Modes, head : BOOLEAN, standalone : BOOLEAN]

ASSUME ConstantsAssumption ==
  /\ Standalone \subseteq Goals /\ Reloads \subseteq Goals /\ NoGoal \notin Goals
  /\ ManagerPrompts \subseteq {m \in Prompts : ~m.standalone}
  /\ IsMvla \in BOOLEAN
  /\ DeadmanTicks \in Nat /\ StaleTicks \in Nat /\ EpisodeTicks \in Nat
  /\ WatchdogTicks \in Nat \ {0} /\ ChunkSteps \in Nat \ {0}
  /\ ExecuteSteps \in Nat /\ MaxLead \in Nat

VARIABLES
  status,      \* PolicyExecutor.status
  episodeAge,  \* now - PolicyExecutor._t_start; NeverBegun while _t_start is 0.0
  chunk,       \* ChunkExecutor: age of the chunk's observation, ChunkSteps when spent or absent
  prompt,      \* PolicyNode._prompt
  promptAge,   \* now - prompt.received_at; of no account when standalone
  standalone,  \* PolicyNode._standalone
  obsAge,      \* now - stamp of the oldest stream in the snapshot
  worker,      \* inference thread and its busy flag
  closed,      \* close() has put its sentinel
  job,         \* the request being computed
  out,         \* ThreadedWorker._out
  tickPc, tickPrompt, tickAge, tickCmd,   \* the control callback in progress
  tickExec,    \* the executor it works on, once a reload has replaced that
  goal,        \* progress of each goal's thread
  handle,      \* PolicyNode._goal_handle
  armLeft      \* periods the arm still moves without a further command

execVars   == <<status, episodeAge, chunk>>
promptVars == <<prompt, promptAge, standalone>>
workerVars == <<worker, closed, job, out>>
tickVars   == <<tickPc, tickPrompt, tickAge, tickCmd, tickExec>>
goalVars   == <<goal, handle>>
vars == <<execVars, promptVars, obsAge, workerVars, tickVars, goalVars, armLeft>>

PromptCap  == DeadmanTicks + WatchdogTicks + 1
ObsCap     == StaleTicks + WatchdogTicks + 1
EpisodeCap == EpisodeTicks + WatchdogTicks + 1
NeverBegun == EpisodeCap + 1

Statuses == {"idle", "starting", "running", "stopped", "aborted"}
NoPrompt == [mode |-> "idle", head |-> FALSE, standalone |-> TRUE]

\* A request or a result: wants a chunk, how old its observation is, and
\* whether it was submitted in the episode that is running now.
Requests == [chunk : BOOLEAN, age : 0..ChunkSteps, mine : BOOLEAN]
NoJob    == [chunk |-> FALSE, age |-> 0, mine |-> TRUE]
NoChunk  == [age |-> ChunkSteps, mine |-> TRUE]

\* What a tick still uses of a PolicyExecutor that is no longer self.exec: its
\* status, clock and chunk, its worker's full queue and the begins under way on it.
Executors == [replaced : BOOLEAN, running : BOOLEAN, age : 0..NeverBegun,
              chunk : 0..ChunkSteps, jammed : BOOLEAN, begins : SUBSET Goals]
OwnExec == [replaced |-> FALSE, running |-> FALSE, age |-> 0, chunk |-> 0,
            jammed |-> FALSE, begins |-> {}]

\* outdated: begun on an executor that a reload has replaced since.
GoalStates == {"new", "rejected", "accepted", "loading", "building", "setup", "prompted",
               "begun", "outdated", "running", "ending", "closing", "over"}
\* exited: the thread returned; stuck: a request nobody will take is queued
\* (busy for good); jammed: a second sentinel fills the queue.
WorkerStates == {"idle", "computing", "done", "exited", "stuck", "jammed"}

Active == status \in {"starting", "running"}

ExecOK   == /\ status \in Statuses /\ episodeAge \in 0..NeverBegun
            /\ chunk \in [age : 0..ChunkSteps, mine : BOOLEAN]
PromptOK == prompt \in Prompts /\ promptAge \in 0..PromptCap /\ standalone \in BOOLEAN
WorkerOK == /\ worker \in WorkerStates /\ closed \in BOOLEAN
            /\ job \in Requests /\ out \in Seq(Requests)
TickOK   == /\ tickPc \in {"wait", "polled", "decided", "hung"} /\ tickPrompt \in Prompts
            /\ tickAge \in 0..PromptCap /\ tickCmd \in {"stop", "move"}
            /\ tickExec \in Executors
GoalOK   == goal \in [Goals -> GoalStates] /\ handle \in Goals \cup {NoGoal}
TypeOK   == /\ ExecOK /\ PromptOK /\ obsAge \in 0..ObsCap /\ WorkerOK /\ TickOK
            /\ GoalOK /\ armLeft \in 0..WatchdogTicks

Init ==
  /\ status = "idle" /\ episodeAge = NeverBegun /\ chunk = NoChunk
  /\ prompt = NoPrompt /\ promptAge = 0 /\ standalone = TRUE
  /\ obsAge = ObsCap
  /\ worker = "idle" /\ closed = FALSE /\ job = NoJob /\ out = <<>>
  /\ tickPc = "wait" /\ tickPrompt = NoPrompt /\ tickAge = 0 /\ tickCmd = "stop"
  /\ tickExec = OwnExec
  /\ goal = [g \in Goals |-> "new"] /\ handle = NoGoal
  /\ armLeft = 0

-----------------------------------------------------------------------------
(* Time and the environment.                                               *)

Older(age, cap) == IF age < cap THEN age + 1 ELSE age
Aged(r) == [r EXCEPT !.age = Older(@, ChunkSteps)]

\* One control period passes.  A tick is taken to be shorter than a period.
Elapse ==
  /\ tickPc \in {"wait", "hung"}
  /\ episodeAge' = Older(episodeAge, EpisodeCap)
  /\ promptAge' = IF prompt.standalone THEN promptAge ELSE Older(promptAge, PromptCap)
  /\ obsAge' = Older(obsAge, ObsCap)
  /\ chunk' = Aged(chunk)
  /\ job' = IF worker = "computing" THEN Aged(job) ELSE job
  /\ out' = [i \in 1..Len(out) |-> Aged(out[i])]
  /\ armLeft' = IF armLeft > 0 THEN armLeft - 1 ELSE 0
  /\ UNCHANGED <<status, prompt, standalone, worker, closed, tickVars, goalVars>>

\* The slowest sensor stream delivers a message.
Observe ==
  /\ obsAge' = 0
  /\ UNCHANGED <<execVars, promptVars, workerVars, tickVars, goalVars, armLeft>>

\* A TaskState arrives.  It waits for a tick in progress (same callback group)
\* and is ignored while no manager-driven episode is running.
OnTaskState(m) ==
  /\ tickPc = "wait"
  /\ ~standalone
  /\ prompt' = m /\ promptAge' = 0
  /\ UNCHANGED <<execVars, standalone, obsAge, workerVars, tickVars, goalVars, armLeft>>

-----------------------------------------------------------------------------
(* ThreadedWorker.                                                         *)

Busy == worker \in {"computing", "done", "stuck"}

\* submit(): refused while busy.  After close() the request is queued for a
\* thread that has returned.
Submit(wantsChunk) ==
  /\ ~Busy /\ worker # "jammed"   \* put() on the full queue would block the tick
  /\ worker' = IF worker = "exited" THEN "stuck" ELSE "computing"
  /\ job' = [chunk |-> wantsChunk, age |-> IF obsAge < ChunkSteps THEN obsAge ELSE ChunkSteps,
             mine |-> TRUE]

\* The result is put in _out before the busy flag is cleared.
WorkerPut ==
  /\ worker = "computing"
  /\ worker' = "done" /\ out' = Append(out, job) /\ job' = NoJob
  /\ UNCHANGED <<execVars, promptVars, obsAge, closed, tickVars, goalVars, armLeft>>

\* compute() raised: logged, nothing is put.
WorkerFail ==
  /\ worker = "computing"
  /\ worker' = "done" /\ job' = NoJob
  /\ UNCHANGED <<execVars, promptVars, obsAge, closed, out, tickVars, goalVars, armLeft>>

\* finally: busy is cleared; the loop then takes the sentinel if there is one.
WorkerClear ==
  /\ worker = "done"
  /\ worker' = IF closed THEN "exited" ELSE "idle"
  /\ UNCHANGED <<execVars, promptVars, obsAge, closed, job, out, tickVars, goalVars, armLeft>>

-----------------------------------------------------------------------------
(* The control callback: _on_tick and PolicyExecutor.tick.                 *)

\* Mutant: the command lasts one period longer.
SentLonger(cmd) == armLeft' \in {armLeft, IF cmd = "move" THEN WatchdogTicks + 1 ELSE 0}

\* _send: the command may be skipped when the velocity service is behind.  The
\* call is asynchronous; one that is sent is taken to reach the arm at once.
Sent(cmd) == armLeft' \in {armLeft, IF cmd = "move" THEN WatchdogTicks ELSE 0}

\* Not active: results that arrive now are thrown away.  Nothing is sent, or a
\* stop when the status changed around the callback's tests.
TickInactive ==
  /\ tickPc = "wait" /\ ~Active
  /\ out' = <<>>
  /\ IF status = "idle" THEN UNCHANGED armLeft ELSE Sent("stop")
  /\ UNCHANGED <<execVars, promptVars, obsAge, worker, closed, job, tickVars, goalVars>>

\* The newest chunk among the results replaces the old one.
TakeChunk ==
  \/ /\ \A i \in DOMAIN out : ~out[i].chunk
     /\ UNCHANGED chunk
  \/ \E i \in DOMAIN out :
       /\ out[i].chunk /\ \A j \in DOMAIN out : j > i => ~out[j].chunk
       /\ chunk' = [age |-> out[i].age, mine |-> out[i].mine]

\* The executor of this tick: PolicyExecutor.tick runs on the object that
\* self.exec named when the callback began.
TickExec ==
  IF tickExec.replaced THEN tickExec
  ELSE [replaced |-> FALSE, running |-> status = "running", age |-> episodeAge,
        chunk |-> chunk.age, jammed |-> worker = "jammed",
        begins |-> {g \in Goals : goal[g] = "begun"}]
StatusBecomes(s) == status' = IF tickExec.replaced THEN status ELSE s

\* Active: take every finished result.
TickPoll ==
  /\ tickPc = "wait" /\ Active
  /\ tickPc' = "polled" /\ tickPrompt' = prompt /\ tickAge' = promptAge
  /\ TakeChunk
  /\ out' = <<>>
  /\ UNCHANGED <<status, episodeAge, promptVars, obsAge, worker, closed, job,
                 tickCmd, tickExec, goalVars, armLeft>>

Decided(cmd) ==
  /\ tickPc = "polled"
  /\ tickPc' = "decided" /\ tickCmd' = cmd
  /\ tickPrompt' = NoPrompt /\ tickAge' = 0
  /\ UNCHANGED <<episodeAge, chunk, promptVars, obsAge, closed, out, tickExec, goalVars, armLeft>>

\* Mutant: the deadman switched by the node's flag and not the prompt's.
DeadmanByFlag == ~standalone /\ tickAge > DeadmanTicks
\* Mutant: an observation accepted one period too old.
FreshLate == obsAge <= StaleTicks + 1
\* Mutant: the timeout blind to an executor that has not begun.
TimedOutBegun    == TickExec.age \in EpisodeTicks + 1 .. EpisodeCap

Halted   == tickPrompt.mode = "halt"
Deadman  == ~tickPrompt.standalone /\ tickAge > DeadmanTicks
Fresh    == obsAge <= StaleTicks
TimedOut == TickExec.age > EpisodeTicks

TickHalt ==
  /\ Halted
  /\ StatusBecomes(IF Active THEN "stopped" ELSE status)
  /\ Decided("stop")
  /\ UNCHANGED <<worker, job>>

TickDeadman ==
  /\ ~Halted /\ Deadman
  /\ StatusBecomes("aborted")
  /\ Decided("stop")
  /\ UNCHANGED <<worker, job>>

\* No usable observation (too old, or one stream has none): hold, keep the
\* episode.  The snapshot may be unusable at any age.
TickHold ==
  /\ ~Halted /\ ~Deadman
  /\ Decided("stop")
  /\ UNCHANGED <<status, worker, job>>

TickTimeout ==
  /\ ~Halted /\ ~Deadman /\ Fresh /\ TimedOut
  /\ StatusBecomes("aborted")
  /\ Decided("stop")
  /\ UNCHANGED <<worker, job>>

NeedsChunk(lead) == TickExec.chunk + lead >= ExecuteSteps

\* What _schedule may ask for under prompt p: a head read while probing, a
\* chunk when the current one runs out, otherwise a head read at head_hz.
Wanted(p) ==
  {c \in BOOLEAN :
     \/ p.mode = "probing" /\ p.head /\ ~c
     \/ p.mode = "active" /\ \E lead \in 0..MaxLead :
          IF NeedsChunk(lead) THEN c ELSE ~c /\ p.head}

\* The rest of the tick: the status follows the prompt, whatever the status
\* has become since the callback tested it.  What a replaced executor submits
\* goes to a worker that is closed.
Runs == tickPrompt.mode = "active" \/ TickExec.running
TickRun ==
  /\ ~Halted /\ ~Deadman /\ Fresh /\ ~TimedOut
  /\ StatusBecomes(IF tickPrompt.mode = "active" THEN "running" ELSE status)
  /\ \/ ~tickExec.replaced /\ \E c \in Wanted(tickPrompt) : Submit(c)
     \/ UNCHANGED <<worker, job>>      \* busy, not due yet, or no images
  /\ Decided(IF Runs /\ TickExec.chunk < ChunkSteps THEN "move" ELSE "stop")

\* submit() on the full queue of a worker closed twice never returns: the
\* callback group is blocked and no further tick runs.
TickHang ==
  /\ ~Halted /\ ~Deadman /\ Fresh /\ ~TimedOut
  /\ TickExec.jammed /\ Wanted(tickPrompt) # {}
  /\ tickPc = "polled" /\ tickPc' = "hung"
  /\ StatusBecomes(IF tickPrompt.mode = "active" THEN "running" ELSE status)
  /\ tickPrompt' = NoPrompt /\ tickAge' = 0 /\ tickExec' = OwnExec
  /\ UNCHANGED <<episodeAge, chunk, promptVars, obsAge, workerVars, tickCmd, goalVars, armLeft>>

TickSend ==
  /\ tickPc = "decided"
  /\ tickPc' = "wait" /\ tickCmd' = "stop" /\ tickExec' = OwnExec
  /\ Sent(tickCmd)
  /\ UNCHANGED <<execVars, promptVars, obsAge, workerVars, tickPrompt, tickAge, goalVars>>

Tick == TickInactive \/ TickPoll \/ TickHalt \/ TickDeadman \/ TickHold
        \/ TickTimeout \/ TickRun \/ TickHang \/ TickSend

-----------------------------------------------------------------------------
(* The RunPolicy action threads: _on_goal, _execute and _run.              *)

Moves(g, from, to) == goal[g] = from /\ goal' = [goal EXCEPT ![g] = to]

\* Accepted when no goal is being executed; _goal_handle is only set later.
AcceptGoal(g) ==
  /\ handle = NoGoal
  /\ Moves(g, "new", "accepted")
  /\ UNCHANGED <<execVars, promptVars, obsAge, workerVars, tickVars, handle, armLeft>>

\* Refused: a goal is being executed, or some stream has never delivered.
RejectGoal(g) ==
  /\ Moves(g, "new", "rejected")
  /\ UNCHANGED <<execVars, promptVars, obsAge, workerVars, tickVars, handle, armLeft>>

Execute(g) ==
  /\ Moves(g, "accepted", IF g \in Reloads THEN "loading" ELSE "setup")
  /\ handle' = g
  /\ UNCHANGED <<execVars, promptVars, obsAge, workerVars, tickVars, armLeft>>

\* _reload: close the old worker first.  put(None) blocks on a full queue.
LoadClose(g) ==
  /\ Moves(g, "loading", "building")
  /\ worker \notin {"stuck", "jammed"} /\ (closed => worker = "exited")
  /\ worker' = CASE worker = "idle" -> "exited"
                 [] worker = "exited" -> "jammed"
                 [] OTHER -> worker
  /\ closed' = TRUE
  /\ UNCHANGED <<execVars, promptVars, obsAge, job, out, tickVars, handle, armLeft>>

\* The new checkpoint loads: a new worker and a new executor, at any time.  A tick
\* in progress and a begin under way go on with the old ones.
LoadOk(g) ==
  /\ goal[g] = "building"
  /\ goal' = [h \in Goals |-> IF h = g THEN "setup"
                             ELSE IF goal[h] = "begun" THEN "outdated" ELSE goal[h]]
  /\ tickExec' = IF tickPc \in {"polled", "decided"} THEN [TickExec EXCEPT !.replaced = TRUE]
                 ELSE tickExec
  /\ worker' = "idle" /\ closed' = FALSE /\ job' = NoJob /\ out' = <<>>
  /\ status' = "idle" /\ episodeAge' = NeverBegun /\ chunk' = NoChunk
  /\ UNCHANGED <<promptVars, obsAge, tickPc, tickPrompt, tickAge, tickCmd, handle, armLeft>>

\* It does not load, or it needs cameras the node has not: the goal is
\* aborted and the old worker stays closed.
LoadFails(g) ==
  /\ Moves(g, "building", "closing")
  /\ UNCHANGED <<execVars, promptVars, obsAge, workerVars, tickVars, handle, armLeft>>

\* _setup_mode failed: the robot did not take mode 5 / state 0.
SetupFails(g) ==
  /\ Moves(g, "setup", "closing")
  /\ UNCHANGED <<execVars, promptVars, obsAge, workerVars, tickVars, handle, armLeft>>

\* The goal's own instruction, or idle until the first TaskState.
GoalPrompt   == [mode |-> "active", head |-> FALSE, standalone |-> TRUE]
AwaitManager == [mode |-> "idle", head |-> FALSE, standalone |-> FALSE]

RunPrompt(g) ==
  /\ goal[g] = "setup"
  /\ standalone' = (g \in Standalone)
  /\ IF g \in Standalone \/ IsMvla
     THEN /\ prompt' = IF g \in Standalone THEN GoalPrompt ELSE AwaitManager
          /\ promptAge' = 0
          /\ Moves(g, "setup", "prompted")
     ELSE /\ Moves(g, "setup", "closing")    \* SmolVLA without a task_instruction
          /\ UNCHANGED <<prompt, promptAge>>
  /\ UNCHANGED <<execVars, obsAge, workerVars, tickVars, handle, armLeft>>

\* PolicyExecutor.begin writes the status before the episode clock.
\* Results in flight stay where they are; they belong to no episode now.
BeginStatus(g) ==
  /\ Moves(g, "prompted", "begun")
  /\ status' = "starting" /\ chunk' = NoChunk
  /\ job' = IF worker = "computing" THEN [job EXCEPT !.mine = FALSE] ELSE job
  /\ out' = [i \in 1..Len(out) |-> [out[i] EXCEPT !.mine = FALSE]]
  /\ UNCHANGED <<episodeAge, promptVars, obsAge, worker, closed, tickVars, handle, armLeft>>

BeginClock(g) ==
  /\ Moves(g, "begun", "running")
  /\ episodeAge' = 0
  /\ UNCHANGED <<status, chunk, promptVars, obsAge, workerVars, tickVars, handle, armLeft>>

\* The same, where a reload has replaced the executor in between: the clock of
\* the new one is not touched, the old one's matters to a tick that is still on it.
OutdatedClock(g) ==
  /\ Moves(g, "outdated", "running")
  /\ tickExec' = IF g \in tickExec.begins THEN [tickExec EXCEPT !.age = 0] ELSE tickExec
  /\ UNCHANGED <<execVars, promptVars, obsAge, workerVars, tickPc, tickPrompt, tickAge,
                 tickCmd, handle, armLeft>>

\* The 20 ms loop: leave when the client has cancelled (stop() first; the
\* request is read nowhere else) or when the executor is no longer active.
LoopCancel(g) ==
  /\ Moves(g, "running", "ending")
  /\ Active
  /\ status' = "stopped"
  /\ UNCHANGED <<episodeAge, chunk, promptVars, obsAge, workerVars, tickVars, handle, armLeft>>

LoopExit(g) ==
  /\ Moves(g, "running", "ending")
  /\ ~Active
  /\ UNCHANGED <<execVars, promptVars, obsAge, workerVars, tickVars, handle, armLeft>>

RunEnd(g) ==
  /\ Moves(g, "ending", "closing")
  /\ Sent("stop")
  /\ standalone' = TRUE
  /\ UNCHANGED <<execVars, prompt, promptAge, obsAge, workerVars, tickVars, handle>>

\* finally: whichever goal ends clears the handle.
Close(g) ==
  /\ Moves(g, "closing", "over")
  /\ handle' = NoGoal
  /\ Sent("stop")
  /\ UNCHANGED <<execVars, promptVars, obsAge, workerVars, tickVars>>

GoalStep(g) ==
  \/ AcceptGoal(g) \/ RejectGoal(g) \/ Execute(g)
  \/ LoadClose(g) \/ LoadOk(g) \/ LoadFails(g) \/ SetupFails(g)
  \/ RunPrompt(g) \/ BeginStatus(g) \/ BeginClock(g) \/ OutdatedClock(g)
  \/ LoopCancel(g) \/ LoopExit(g) \/ RunEnd(g) \/ Close(g)

Next ==
  \/ Elapse \/ Observe
  \/ \E m \in ManagerPrompts : OnTaskState(m)
  \/ WorkerPut \/ WorkerFail \/ WorkerClear
  \/ Tick
  \/ \E g \in Goals : GoalStep(g)

Spec == Init /\ [][Next]_vars

-----------------------------------------------------------------------------
(* Correctness.  The arm moves only while armLeft > 0.                     *)

(* Deadman: whatever the threads do, the arm never moves under a manager's
   prompt for longer than task_state_timeout_s plus one velocity command
   after the last TaskState. *)
DeadmanBound ==
  armLeft > 0 /\ ~prompt.standalone => promptAge + armLeft <= DeadmanTicks + WatchdogTicks

(* The arm never moves on an observation older than stale_timeout_s plus one
   velocity command. *)
StaleBound == armLeft > 0 => obsAge + armLeft <= StaleTicks + WatchdogTicks

(* The arm never moves later than max_episode_s plus one velocity command
   after the begin of the episode, even if a stop was overwritten. *)
EpisodeBound ==
  armLeft > 0 /\ episodeAge # NeverBegun => episodeAge + armLeft <= EpisodeTicks + WatchdogTicks

(* A move that was decided is still admissible when it is sent, whatever the
   goal threads, the worker and the sensors did since the tick began; the
   prompt the tick works on is the current one, or a goal has just replaced it.
   The episode that has to be in time is that of the executor the tick works
   on; where a reload has replaced it (policy_node.py:336-345), no episode of
   the new one is older than the tick. *)
CommandInv ==
  /\ tickPc = "polled" => \/ tickPrompt = prompt /\ tickAge = promptAge
                          \/ promptAge = 0
  /\ tickPc = "decided" /\ tickCmd = "move" =>
       /\ prompt.standalone \/ promptAge <= DeadmanTicks
       /\ obsAge <= StaleTicks
       /\ TickExec.age <= EpisodeTicks
  /\ tickExec.replaced => /\ tickPc \in {"polled", "decided"}
                          /\ episodeAge \in {0, NeverBegun}

\* g is the goal being executed and no other is under way.
Alone(g) == handle = g /\ \A h \in Goals \ {g} : goal[h] \in {"new", "rejected", "over"}

(* The chunk that is executed was computed for the running episode: what
   arrives after a stop is thrown away. *)
ChunkOfThisEpisode ==
  status = "running" /\ chunk.age < ChunkSteps /\ (\E g \in Goals : Alone(g)) => chunk.mine

Resting == \A g \in Goals : goal[g] \in {"new", "rejected", "over"}

(* When no goal is in progress the arm comes to rest and stays there, even if
   the last stop was lost and the executor runs on without a goal. *)
ArmComesToRest == <>[](Resting => armLeft = 0)

(* Every goal that is accepted ends. *)
GoalsEnd == \A g \in Goals : goal[g] = "accepted" ~> goal[g] = "over"

(* However the threads interleave, the arm outlives none of its limits by    *)
(* more than one velocity command (executor.py:358-367).                      *)
MotionLimits == DeadmanBound /\ StaleBound /\ EpisodeBound
=============================================================================
