# Formal model of m.ax

m.ax drives a robot arm (xArm7, gripper, suction tray) with learned policies,
records demonstrations for training them, and edits, merges and converts what was
recorded. This directory holds TLA+ models of its programs, the TLC runs that
check them, and TLAPS proofs of the most important properties. Paths below are
relative to the repository; `max_ai` stands for `src/ros2/src/max_ai/max_ai`,
`max_data_collect` for `src/ros2/src/max_data_collect/max_data_collect`,
`max_server` for `src/ros2/src/max_server/max_server`, `scripts` for
`src/ros2/src/max_data_collect/scripts`.

## 1. Inventory

| Component | State it keeps | Operations | Talks to | Hard behaviour | Module |
|---|---|---|---|---|---|
| Policy executor and node (`max_ai/rollout/executor.py`, `nodes/policy_node.py`) | status, chunk, episode clock, prompt, worker queue, goal handle | control tick at 30 Hz, begin, stop, TaskState callback, RunPolicy goal, checkpoint reload | TaskState in, PolicyState out, velocity service | three thread groups without a lock; deadman, staleness and episode limits; results that arrive late | `PolicyNode` |
| Action safety (`rollout/action.py`) | last command, gripper belief | limit, send, stop, reset | executor, velocity driver | limits that rely on a late observation and on what the driver executed | `ActionSafety` |
| Episode manager (`rollout/episode.py`) | status, plan view and its `seq` | begin, stop, abort, on_head, on_verdict, on_tick | tracker inside, TaskState out | a head read of an older prompt must not advance the plan | `RolloutLink` |
| Manager node (`nodes/manager_node.py`) | queues of PolicyState and verdicts, current rollout, policy goal | RunRollout goal, pump, service calls with timeouts | policy, recognizer, planner, recorder | lossy topics, late answers, one rollout's messages seen by the next | `RolloutLink` |
| Subtask tracker (`rollout/subtask.py`) | plan, recognition requests, release time, verification buffers | observe, on_verdict, watch, replan | planner, recognizer | verdicts of an earlier boundary; lost verdicts; retries and budgets | `SubtaskTracker` |
| Recognizer node and capture scheduler (`nodes/recognizer_node.py`, `rollout/recognition.py`) | pending captures, request ids, counters | schedule, poll timer, inference | manager, cameras | cancellation racing a capture; skipped captures | `SubtaskTracker` |
| Planner node (`rollout/planner.py`, `nodes/planner_node.py`) | none | make_plan, replan | manager | none, a stateless service | - |
| Older policy nodes (`nodes/smolvla_node.py`, `nodes/pi05_node.py`) | goal handle, stop flag, status, action queue, calls in flight | goal, cancel, setup, reload, control loop, velocity client | velocity driver | a counter shared by two threads without a lock; overlapping goals; dropped stops | `QueueNode`, `PI05Node` |
| Recorder (`max_data_collect/recorder_node.py`, `writer/*.py`) | episode state, writer thread and queue, undo list; episode directories and metadata.json | START, STOP, SAVE, DELETE; frame timer; writer thread; save thread; destroy_node | manager, teleop node (external), cameras, disk | bounded queue, writer failure, save in progress, crash between two writes | `Recorder` |
| Frame collection (`collector/*.py`) | the latest message of every stream | message, staleness, row of a tick, keyframes, videos | recorder, cameras | silent streams, pictures that do not decode, videos that must stay in step | `FrameStream` |
| Stand-alone collector (`src/scripts/data_collect.py`, `data_recover.py`) | recording, counters on the screen, worker queue; data set, temporary and backup folders | keys, worker commands, deletion by rewriting, start-up repair, repair by hand | LeRobot's data set (library) | two threads, three renames, interrupts, a crash between any two | `DataCollect` |
| Dataset editor (`max_data_collect/editor/*.py` and its page) | page form, edits file and history, proxy cache | edit, delete, restore, suggest, show a video | browser, disk | concurrent requests, part files, two servers, crashes | `DatasetEditor`, `VideoProxy`, `EditRules` |
| Dataset scripts (`scripts/merge_raw_episode.py`, `convert_to_lerobot.py`) | plan, output folders, list of episodes | copy, link or move, append; choose frames and label rows | disk, editor's files | interrupted runs; links; edits that change meanwhile | `MergeRaw`, `ConvertRaw`, `EditRules` |
| Older web back end (`max_web_old/backend/lerobot_editor/server.py`) | loaded data set, export state, export thread | load, view, export | page, disk | an export over a data set that is exchanged; partial folders | `LerobotExport` |
| max_server (`max_server/max_server.py`, `inference/`, `communication/`) | server state, policy and processors | load, run, unload, move to pose | UI, robot topics | check-then-act on the state; parts exchanged during a loop | `MaxServer` |
| Older application (`src/common/comm_server.py`, `model_server.py`, `utils/ui_utils.py`, `src/app_server.py`) | lease of control, bursts of clicks; loads and runs of a model | publish, acquire, click; load, start, stop, heartbeat | ROS topics, sockets | messages lost before a subscription; threads that outlive a timeout | `CommServer`, `PoseControl`, `ModelServer` |
| Pedal node, launch files, drivers, remaining scripts, task planner of max_server | - | - | - | no state of their own | - |
| `thirdparty/lerobot` | task manager, plan rules, policies | - | tracker, policy runner | empty here (git submodule): modelled only as its callers and tests use it | external |

### What has to hold

- *Policy node*: the arm moves only on a live manager's prompt, a fresh
  observation and an unexpired episode, give or take one velocity command; an
  episode executes its own chunks; every goal ends; the arm stays near its
  workspace and never speeds up by more than the change limit allows.
- *Manager and policy together*: a prompt version names one prompt; a head read
  counts once, and only for the prompt it was computed under; a new episode
  never runs the prompt of an earlier rollout; every rollout ends.
- *Subtask tracker and recognizer*: a placement whose release was seen is
  completed by the recognizer and not by the policy; every release that is
  verified is decided; a verdict counts only for the boundary it was asked at.
- *Older policy nodes*: one episode at a time with its own actions; every goal
  ends, and the arm comes to rest although a stop may be dropped.
- *Recorder and collector*: the index and the files agree, whatever failed; what
  DELETE would undo is a saved episode and nothing else; a saved episode has its
  frames and no others; rows are fresh and videos keep step with them; a process
  that dies leaves what a restart can use; every save, discard and undo ends.
- *Editor, scripts*: edits survive concurrent requests and crashes; a video that
  is served is whole; no interrupted merge loses a file; rows carry the label
  that the operator gave to their frame; an export is what its message says.
- *Servers*: the state that is shown is true; one loop at most, with parts of one
  model; the last click decides where the arm rests; every request is answered.

## 2. Plan

In the order of importance for the robot. Done: 1 to 8. Left: 9 and what section 7
lists.

1. `PolicyNode`: the threads of the policy node and its motion limits; then
   `ActionSafety`, the values that it sends.
2. `RolloutLink`: manager and policy as two processes joined by lossy topics.
3. `SubtaskTracker`: the tracker, with the recognizer's capture queue.
4. `Recorder`: commands, frame timer, writer thread and bounded queue, files,
   crash and restart; `FrameStream`, what reaches that queue.
5. `DataCollect`, which implements the abstract `EpisodeList`.
6. The recorded data sets: `DatasetEditor` with `VideoProxy`, `MergeRaw`,
   `ConvertRaw` with the pure rules of `EditRules` and `Ordering`, `LerobotExport`.
7. The other programs: `QueueNode` and `PI05Node`, `MaxServer`, `CommServer` with
   `PoseControl`, `ModelServer`.
8. The proofs (section 5): every invariant that a run checks and the refinement of
   `EpisodeList`.
9. To model: `CaptureScheduler` with capture times; the blending of two chunks; an
   abstract `Rollout` that `RolloutLink` implements.

### Composition

Some modules compose programs that interact: `RolloutLink` (manager and policy),
`SubtaskTracker` (tracker, manager's loop, recognizer), `PoseControl` (page,
bridge, model as a client), `EditorServer` (editor and proxies: requests of one
process, which dies with all of them), the tools of `RawData` (merge, the operator's
edits, conversion, all on one output folder), `LerobotExport` (requests, thread, disk).

Others, `PolicyNodes`, `Recorders`, `Servers`, `Backends` (`Servers` and `LerobotExport`) and `RawData`, put programs side by
side that share no variable: a behaviour chooses one of them at its start (`moving`,
`program`) and the others stand still. Their product would check nothing more,
because no step of one reads what another writes, and is far too large. Where one
of them depends on another it contains, as a step of its own, anything the other may do:
`Recorder` lets a stream be silent at any tick, `PoseControl` a model act at any
time, the tools an edit be stored at any time. So each of these runs asks one question,
of every program of its kind.

## 3. Modules and code

### PolicyNode

Models `executor.py` (status, clock, worker, tick) and `policy_node.py`
(timer, TaskState subscription, action callbacks, velocity calls).

- The timer and the subscription share a mutually exclusive callback group, so
  `OnTaskState` waits for a tick in progress. The action threads and the
  inference thread do not, and nothing is locked: one tick is therefore three
  steps, `TickPoll` (results, prompt), one of `TickHalt`, `TickDeadman`,
  `TickHold`, `TickTimeout`, `TickRun` (the decision, in the order of `tick()`)
  and `TickSend` (the velocity call). `BeginStatus` and `BeginClock` are
  two steps because `begin()` sets the status first and the clock last.
- Time is in control periods. Each age stops one above the largest value any
  comparison distinguishes, so no bound is lost by saturation. `armLeft` is
  how long the arm goes on obeying its last velocity command
  (`command_duration_s`): the robot has no other brake.
- `Sent` lets any velocity call be skipped, as `_send` does with more than five
  calls in flight; one that is sent is taken to reach the driver at once (`QueueNode` has the
  queue of calls of the other nodes). `TickHold` may occur at any age, because one stream without
  data makes the whole snapshot unusable.
- A chunk that is inferred is executed from where the arm will be when it comes:
  `TickPoll` skips the steps that passed since it was requested.
- `worker` is the inference thread with its one-slot queue and busy flag. A
  checkpoint that does not load leaves it closed (`exited`); a request then
  waits for nobody (`stuck`) and a second `close()` fills the queue (`jammed`).
- A checkpoint that loads (`LoadOk`) replaces the executor while the timer goes on. A tick in
  progress stays on the object it began with: `tickExec` is what that tick still
  uses of it, and `TickExec` the executor a tick works on, replaced or not. A goal whose
  `begin()` is under way then sets the clock of the old one (`outdated`, `OutdatedClock`).
- `mine` marks requests and results of the running episode. It is not in the
  code; only `ChunkOfThisEpisode` reads it.

Left out: the values of actions, the blending of two chunks; `reason`, the
head fields (they are in `RolloutLink`); node shutdown; a TaskState callback
between the two assignments of `_run` (lines 285-288); a stop between lines 372 and 375 of a
tick, which only changes whether that tick's own command is a move.

### ActionSafety

Models `action.py` for one axis: the order clip, change limit, workspace, and the
gripper's hysteresis, together with what the limits rely on. A command reaches
the driver or is dropped (`_send` with too many calls in flight); the driver's
watchdog stops the arm after `command_duration_s`; the position the workspace
limit sees is up to `MaxLag` ticks old. `_last` and the gripper's belief are what the
code remembers, `drive` and `jaws` what the arm does.
Assumed: the arm reaches a commanded speed at once, a tick comes at most once a
period, gripper orders arrive (reliable topic). `stop()` from another thread during
`__call__` is left to `PolicyNode`, which takes the tick apart.

### QueueNode and PI05Node

Model `smolvla_node.py` and `pi05_node.py`, which differ in the checkpoints they take
and in details of preparation. `ExecuteEpisode` is the steps of `_execute`, one
thread of the pool of `Workers` per goal; `Pass` is one pass of the loop;
`DriverExecutes`, `AnswerRead` and `AnswerWrite` the driver and `_on_vel_done`, whose
`max(0, n - 1)` is a read and a write apart. `MaxPasses` stands for `max_episode_s`. With
`Careful` a client sends a goal only when the one before has begun; without, two
goals may be accepted before either sets `_goal_handle` and their episodes overlap.
`Finally` is three steps, `Release` (the handle), `LastStop` and `Leave` (the status): a goal may be
accepted, and its episode begin, between any two of them, whatever its client waits for.
The code's `self._inflight += 1` is one step of `Send`; of the two updates of the count that
may meet, the answer's is taken apart.

### RolloutLink

Composes `manager_node.py` and `episode.py` with the policy node, reduced to
what the two tell each other.

- `wire` is the TaskState topic: reliable, depth one, so a TaskState that is
  not taken is replaced. `pq` is the PolicyState topic with the manager's queue:
  a message may be lost, or queued before the last one, as a reentrant callback group on
  several threads allows; `overtaken` remembers that this happened to two with different
  reads. `_drain` may leave what a thread has taken and queues later (`Drained`).
- `blind` is an observation that is missing or too old. A tick then neither asks for a read
  nor looks at the time (`executor.py:362-366`); the constant `ObservationsStop`
  says whether this may happen.
- `view` with `Bumped` is `TaskStateView` and `_bump`. The texts of a prompt are
  represented by what they depend on: state, subtasks left, and subtask entries
  so far (`t0`).
- A head read carries, besides its number, the rollout and version it was
  computed under. The code's message carries only the label of the tick that
  publishes it; the properties compare the two.
- `PumpMessage` is one message of `_pump`, `LoopPass` the end of one round of
  the loop with its publication; `_pump` empties the queue before it publishes.
- `SendGoal`, `GoalAccepted`, `GoalRefused` are `_start_policy` with its 10 s
  wait; a goal accepted after it has no owner, as in the code.
- `Requested` assumes that an operator starts the next rollout only when the
  last TaskState has been delivered. `HandOver` is the operator's hand, external.

### SubtaskTracker

Models `subtask.py`, the part of `_pump` and `_apply` that feeds it, and the
recognizer node with `CaptureScheduler`.

- `phase` is the place in `_pump`: all policy messages, then all verdicts, then
  the requests to the recognizer. Requests are sent late, and the model keeps
  that order.
- `Boundary` is what `_sync` clears. `Advance` and `Fail` are the changes of
  `TaskManager`, followed by `_sync`.
- `Schedule`, `ScheduleUnanswered`, `ScheduleRefused` and `ScheduleNoModel` are
  the outcomes of the service call as `_apply` sees them. `Kept` is
  `cancel_pending`.
- A verdict's label is drawn when the verdict is taken, which loses nothing:
  no step reads it earlier. When a capture is taken is free, so the capture
  times are abstracted.
- The recognizer outlives a rollout: `Init` lets up to `MaxLeft` captures of earlier
  requests be pending (`Leftover`), with any purpose and due at any time (`Due`).
- `mine` marks requests, captures and verdicts asked for since the last
  boundary, and `spoiled` that one of them was lost, cancelled, refused or
  filtered. They are not in the code; properties read them.
- `TaskManager` is in the lerobot submodule, which is empty here. Its plans, the
  vote of two verdicts and the two retry budgets are those that
  `max_ai/test/test_tracker.py` and `max_ai/README.md` show; they are marked
  external. Where these do not determine it (does an advance reset the vote;
  where does a replan resume) the model allows every answer.

Left out here: the end of the rollout by the policy or by cancellation, which
is in `RolloutLink`. Reads that are filtered by their version are reads that do
not come.

### Recorder

Models `recorder_node.py`, `writer/episode_writer.py` and `writer/dataset.py`.

- Commands and the frame timer run on the node's single-threaded executor, one at
  a time, and hold `_lock`. `pc` is where a callback waits or is between two
  effects: `put` and `join` are the two halves of `_drain`, `remove` the `rmtree` of
  a discard, `undo` and `unregister` the two halves of a DELETE while idle, `finish` a
  save inside the command (`async_save` false), `leaving` the end of
  `destroy_node`, `down` no process.
- The writer thread is `Writes`. `thread = "dead"` is `_error` set, which `put()` and
  `finish()` look at. Only `row` and the sentinel `end` are told apart in the queue.
- `saver` is where `_finish_save` is. `LockFree` is its wait for `_lock`;
  draining, writing and registering hold no lock, so a `destroy_node` may discard
  the episode at the same time (`DiscardFails`, `DiscardJoin`: either drain may find
  the thread joined by the other).
- `dir` and `index` are what is on disk. `metadata.json` is replaced by a rename, so
  an entry is there or not. Removals that end succeed; a crash inside one may
  leave a part (`Ends`).
- `Crash` may come between any two steps and loses everything but the disk.
  `Restart` is `Dataset.open`.
- `cut` marks episodes whose save or removal the end of the process cut short. It
  is not in the code; the properties promise nothing for them until their number
  is saved again.
- A START that is refused because a source is silent, and a frame dropped with
  `on_overflow` drop, change nothing.

Left out: messages and status, `rmtree` that removes only some
files while the process lives, a metadata.json that somebody else damaged, and an
interrupt inside a callback (taken as a crash). Video encoding is `WriteFails` and
`SaveFails`; what the videos hold is in `FrameStream`.

### FrameStream

Models `communicator.py` (the latest message of every stream and its age),
`frame_builder.py` (the row of a tick) and the writer's frames and keyframes. A
value is its age; a picture is the row it was taken for and whether it decodes.
The tick and the messages are callbacks of one thread, so a tick is one step
(`Sample`, or `SampleAborts` when a stream is silent), and its row waits in the
queue until `WriteFrame`. A queue that overflows is in `Recorder`.

### DataCollect and EpisodeList

`data_collect.py`: `Key*` and `AddFrame` are the main loop, `Work` the one worker
thread that all data set operations go through, `Leave` the three ways to end. A
deletion of the last episode writes the others anew under a temporary name, moves
the data set to a backup name, and the new one to its place: each is a step,
and `StartUp` is the repair of what a death between two leaves. An episode is
stored when its files can be read by the next start; `torn` is one in a file that
is not closed. `Mending` is `data_recover.py`, run by hand.
`EpisodeList` is what a store promises: episodes are appended, and a deletion that was asked
for removes the last. `StoreSpec` is the refinement: `list` is what a restart would
find at each moment (`Durable`), `asked` the deletions not answered.

### DatasetEditor, VideoProxy, EditorServer

The page (`app.js`) keeps a form, the episode it belongs to and "unsaved"; each request is a row
of `reqs` and its handler a thread (`ThreadingHTTPServer`). A save reads, merges,
copies the old file to the history, writes a temporary file of one fixed name and
renames it: one action each. `VideoProxy` is `transcode.py`: the lock per copy, the
re-check under it, the part file named by process, verification by packet count, the rename and
the sweep at a start. A file is the recording it is a copy of and its number of packets. A
count may fail at each probe (`Probed`, and `Count` for the source); what cannot be counted is judged by
its size alone, and what can be may lack two packets (`IsComplete`, `Near`). `blind`
marks a copy that some check accepted without both counts; it is not in the code. `EditorServer` joins them: a crash ends all requests of the process.

### Ordering, EditRules, MergeRaw, ConvertRaw, RawData

`Ordering` is what the tools sort and filter: `InOrder` lists a set of numbers, `Selected`
keeps the members of a list at some positions, `SortedBy` is Python's `sort` with a key,
which is stable: members with the same key keep their order.
`EditRules` holds the pure functions (`_sanitize_segments`, `_sanitize_trim`,
`suggest_segments`, `episode_trim`, `episode_segments`, `subtask_column`).
`MergeRaw` places one file per step; a run may die at each. `ConvertRaw` writes an
episode in the steps between which the code reads `edits.json` again. `ToolsNext` of `RawData`
lets the operator edit between any two steps of the converter, never while the merge runs.
A file is placed in one step: a copy that a death cuts off in the middle is not modelled, although
`scan_episodes` would count a folder with such a `data.hdf5`.

### LerobotExport

Requests that load assign the parts of `STATE` (`dataset`) one by one; views and exports read them
while they change. The export thread creates its folder, writes episode after
episode and sets its message; it may fail anywhere, and the process may end. A row of a table is
written as data set, file and place in the file (`Slice`), so that the model tells whose
rows and pictures are written: `RowsOf` is an episode's own place, `Rows_` and `ReadFrames` the places
the code reads. `overlapped` and `mingled` remember that a load assigned a part while a request
read them, or while another load did.

### MaxServer

Each goal's execution is a sequence of steps (`LoadStep`, `LoopStep`) between which
any other callback may run: the multithreaded executor runs goal callbacks and services
while an execution goes on. `pre` and `policy` are assigned apart and read apart.
`careful` is a history variable: no client has sent a request before the effect of the one
before could be seen; properties that the goal callbacks' checks cannot give otherwise
are premised on it (section 6).

### CommServer, PoseControl, ModelServer

`CommServer` is the arbiter: each PULL socket keeps its order, a PUB notification to
nobody is lost. `PoseControl` adds the page: a click starts a thread that sends for a
second (`BurstLen` messages) and cancels the one before; its listener hears who has control.
`ModelServer` has a thread per load and per run; the heartbeat reads the state and
sends it in two steps, while a change of the state is one: the code sets it under its lock and
publishes it afterwards. `calm` is a history variable: no load has met another load or a run.

### Proof modules

`PolicyNodesProofs` (of `PolicyNode`, `ActionSafety`, and `QueueNode` with `PI05Node`),
`RolloutLinkProofs`, `SubtaskTrackerProofs`, `RecorderProofs` (of `Recorder` and `FrameStream`),
`DataCollectProofs`, `ServersProofs` (of the modules that `Servers` puts side by side),
`RawDataProofs` (of `MergeRaw`, `EditRules`, `ConvertRaw`, `VideoProxy` and `DatasetEditor`, which
`RawData` puts side by side) and `LerobotExportProofs` extend the modules they are about.
`MC*` modules instantiate a module for TLC.

## 4. Runs

| Run | Question | Instance and why it is enough |
|---|---|---|
| `policy_limits` | Does any interleaving move the arm past its limits? | A manager-driven and a standalone goal that may overlap, prompts that run, probe and halt. Deadman and episode of 1 period, staleness of 0, a command of 1: each limit is met before, at and after its value. |
| `policy_reload` | And when checkpoints are exchanged? | Two goals that load, one after them: two failed loads in a row are needed to jam the worker's queue, and a load that succeeds meets a tick at each of its steps. |
| `policy_liveness` | Does the arm come to rest, does each goal end, and is what is sent on the way within the limits? | `PolicyNode`: one standalone goal; a stop that is lost and overwritten is within it. `ActionSafety`: a workspace of three places, actions of up to three, a limit of two, a change of one, an observation one tick old, a watchdog of two; the order of the limits, the ramp and the late observation all matter there. `QueueNode`: two goals of either kind, two workers, chunks of two, one call in flight allowed, one pass. |
| `policy_old_chunk` (violation) | Does an episode execute its own chunk? | Two goals, one after the other. A chunk of 2 steps outlives the stop that ends its episode. |
| `link_safety` | Versions, old prompts, and is a read counted twice? | A plan of two, one replan, two reads; rollouts may fail anywhere. `wide` chooses between two bounds: two rollouts with a queue of one, for the prompts of an earlier rollout, or one rollout with a queue of two, in which PolicyStates overtake one another. |
| `link_liveness` | Does every rollout end? | One rollout with every message lossy, observations that stop and come back, and a setup that may be refused. |
| `link_blind_timeout` (violation) | Does the time limit end it without observations? | The same with observations that stay away. |
| `link_stale_read` (violation) | Does a read count only for its prompt? | A plan of three. |
| `tracker_verdicts` | Is a release decided, and only by the recognizer? | A start by the recognizer, then flip and place, one retry, two captures, which agree or not; refusals, missing answers, losses; one capture left by the rollout before, of a request none of whose captures was late (`LeftWhole`). |
| `recorder_store` | Do files, index and what the operator is told agree, are saves complete, and does the program come back? | `Recorder`: three episode numbers (one to undo, one being saved, one after them), a queue of two under three frames, an undo depth of two, one crash. `FrameStream`: a camera and the action, episodes of three rows, staleness and warm-up of one tick. `DataCollect`: three recordings of up to two frames, three starts (a repair can be interrupted and repeated), one failure of the worker. |
| `raw_data` | Are recordings and the edits made on them kept? | `EditorServer`: two episodes, two edits, three requests at two instants, two at once when one is for a video, one crash, a history of one, two recordings of a video, of 4 and of 8 packets, copies of none, one, three or eight, two viewers, two servers. The tools: two recorded episodes of three frames of which one cannot be read, two merges of which one may die, one edit stored in a conversion. |
| `servers` | Is the shown state true, is everybody answered, and is an export what its request asked for? | `MaxServer`: four goals of any kind, two of them from clients that do not wait. `PoseControl`: two clicks, one message a burst, one action of the model, one restart of the page. `ModelServer`: three commands, two loads, two runs. `LerobotExport`: two data sets with different layouts of their files, two loads, two exports to a new path or to a source, one view, at most three requests, one crash; each data set has a file with more than one episode or more than one file. |

What the properties say. A property that is a conjunction is checked as one; its
parts are named in the modules.

- `MotionLimits` (`DeadmanBound`, `StaleBound`, `EpisodeBound`): the arm's motion never
  outlives a limit by more than one velocity command, even with overlapping
  goals, an overwritten stop, or skipped velocity calls. `CommandInv`: a move that was
  decided is still admissible when it is sent, by the clock of the executor the tick began
  with; if a load has replaced it, no episode of the new one is older than that tick.
- `LimitsHold` (`StaysNear` and the types of the commands), `NoSurge`, `GripperFollows`: the arm
  leaves its workspace by less than `MaxSpeed * (MaxLag + WatchTicks)`; a
  command that replaces another is faster by at most one change for each command that
  was missed, and one; once its belief was right or has changed in the episode, the gripper
  was told what is believed.
- `QueueSafe` (`OneEpisode`, `OwnActions`, `StatusSettles`), `CountBelowCalls`: of careful
  clients' goals one holds the arm at a time, on its own actions, and no "running" is left behind (the
  opposite happens, section 6); the
  counter that two threads change without a lock never exceeds the calls that are out, so that a
  lost update cannot stop commands for ever.
- `ArmsRest`, `AllGoalsEnd`: under fairness, also after a stop that was lost or dropped.
- `VersionNamesPrompt`: equal version, equal prompt, within a rollout.
  `NoOldPrompt`: a new episode waits for a prompt published since its rollout began.
  `ReadsCountOnce`: `head_seq` keeps the 30 Hz repetition from counting twice, unless one
  PolicyState was queued before another with an older read.
  `RolloutEnds`: once observations are back for good, if only through the policy's timeout.
- `OneRequestPending`: captures of two requests of a rollout are never pending together; those left by
  an earlier rollout are pending beside the captures of the start and beside no others.
  `ReleasedNeedsOk`: a placement whose release was seen is completed only when a
  tray frame said ok. `ReleaseIsDecided`: frames that never agree are decided too, by
  their aggregate; excused only when a capture or verdict was lost (`spoiled`).
- `FilesAgree` (`IndexAgrees`, `UndoIsSaved`): `metadata.json` lists an episode exactly when
  its files are complete, but for a save or removal that is under way or was cut short,
  and a number that can be undone names one complete, listed episode.
  `EveryRowSaved`: the frames still queued at SAVE are in the file too.
- `FramesFollowRows` (`RowsFresh`, `FramesInStep`, `KeyframesShown`): no row holds a value
  older than `Staleness`; each video has one frame per row and never one
  of a later row; the keyframes are the last frame and the first that is not black.
- `EpisodesKept` (`OwnFrames`, `WholeEpisodes`, `AlwaysRecoverable`): an episode has the frames
  of its recording, all of them, and a start finds the data set or its backup wherever a
  deletion was cut short. `ScreenHonest` (`PendingsHonest`, `ShownIsStored`,
  `DeletesShown`): what is deleted is what the operator saw.
- `StoreSpec`: `DataCollect` implements `EpisodeList` under `Durable`: whatever is
  interrupted, a restart finds the list as it was or as it was to become.
- `AlwaysServes`: every wait of the recorder ends, unless the writer died with a full
  queue (section 6); the collector answers its deletions and ends when told to.
- `EditsKept` (`SidecarWhole`, `OwnEdits`, `PromiseKept`, `CleanIsStored`): the edits file can be read
  at any moment, holds what was made for its episode, keeps what an answer said was stored,
  and a page that says it is saved shows what is stored. `HistoryHolds`: the history
  has the version that a save replaced. `ProxiesWhole` (`ServedWhole`, `NoOrphans`): a copy
  that is served is of no older recording than the request met, and has its packets to within
  two, unless a check was blind; part files belong to a request or await the next start.
- `MergesKeep` (`NothingLost`, `SourcesUntouched`, `ListedIsThere`): however merges end, each
  recorded file is in one place at least, unchanged, and what the output lists is there.
  `RowsFollowEdits` (`RowsNameTheirSubtask`, `KeptIsWritten`): an episode
  is written once with the frames its edits keep, and what a row's number names in the
  finished table is the prompt of the last segment over its frame.
- `RequestsExclude` (`StateWhole`, `OneWriter`), `ExportFaithful` (`DoneIsThere`,
  `PicturesOfEpisode`, `FramesOfEpisode`): what is done has the frames of each trim; when
  the snapshot is not torn, the pictures are the episode's, the rows beside them are for the first
  episode of a file and for no other, and the frames shown are in files that begin with row 0 and in no
  others. `WrittenOnce` (a folder is written by the export that
  created it, and never after it is complete), `ExportEnds`.
- `MaxServerSafe` (`StatusHonest`, `OneLoop`, `OwnProcessors`, `StatusAtRest`): at most one loop
  and none while a pose is moved to, with the processors of its policy, and a state
  that is true. `PoseSafe` (`OwnerKnown`, `LastPoseStands`): the page knows who moves the arm,
  and the arm obeys the last click. `ModelSafe` (`StateTrue`, `ModelWhole`).
  `ServersAnswer`: answers and ends of goals, control that is free again, a run that stops,
  a page that shows the state.

Bounds. These limit how often things happen, in guards; they are no parameters of the code:
`MaxRollouts`, `MaxReads`, `QueueCap`, and of `MCRolloutLink` `wide` (link); `MaxLeft`, with `LeftWhole` (tracker); `MaxEpisodes`, `MaxRows`, `MaxCrashes`
(recorder); `MaxFrameRows` (streams); `MaxRecs`, `MaxFrames`, `MaxStarts`, `MaxTrouble`
(collector); `MaxEdits`, `MaxRequests`, `MaxTime`, `Together` (requests at once beside a video),
`MaxRecordings`, `PacketCounts`, `MaxCrashes` (editor); `MaxMerges`, `MaxDeaths`, `MaxStores` (tools);
`MaxDataLoads`, `MaxExports`, `MaxViews`, `MaxRequests`, `MaxCrashes`, and the inputs `Tick`,
`TrimChoices`, `Targets` (export); `MaxGoals` and `MaxPasses` (older nodes), `MaxGoals` and `MaxRash`
(max_server); `MaxClicks`, `BurstLen`, `MaxSends`, `MaxRestarts`, `MaxActions`, and `MaxLoads`,
`MaxStarts`, `MaxCmds` (older application). `MaxInflight`, `MaxRetries`, `Workers` and the like
are parameters of the code with small values. `ActionSafety` is finite without a bound.

Deadlock is not checked: each run stops when its goals, rollouts or requests are used
up, and a program that was told to end has ended.

### Fairness

- `PolicyNode`: the timer fires, the inference thread finishes what it computes
  and the goal threads go on (weak fairness; each is a thread of its own or a
  30 Hz timer). Time passes between ticks (`SF(Elapse)`). Cancellation is not
  fair. That fresh observations keep coming (`WF(Observe)` and the two strong conditions on
  ticks) is needed for `GoalsEnd`: see the departure on the episode timeout below.
- `QueueNode`, `PI05Node`: a goal's thread goes on, the driver executes and its answers are
  taken, a command's time passes. Goals, cancels and the end of the process are not fair.
- `RolloutLink`: both programs' loops go on; the manager empties its queue
  faster than 30 Hz fills it (`SF(LoopPass)`; a message takes microseconds);
  a tick that looks at the time ends an episode older than `max_episode_s` (`WF(TickEnds)`), and it looks
  only with an observation at hand; of the PolicyStates published again and again some arrive.
- `SubtaskTracker`: the rollout's loop goes round and takes the verdicts that
  are there, its requests return (each has a timeout), and due captures are
  taken or lost (the recognizer's timer).
- `Recorders`: the writer thread, the save thread, a callback in progress and the
  exit go on, and so do the collector's worker and its exit; each is a thread that nothing
  but the queue and the lock holds up. Commands, frames, keys, failures, crashes and restarts are not fair.
- `LerobotExport`: an export's thread goes on. Requests and crashes are not fair.
- `Servers`: an execution of max_server, the bridge's loop, the page's listener, a burst, the
  model server's command loop, heartbeat and threads go on. Goals, clicks, the model's
  actions and restarts are not fair; that the robot's loop sees a cancel needs nothing else.
- `RawData` has safety properties only and no fairness.

## 5. Proofs

The theorems hold for all values of the constants that the named `ASSUME`s
(`ConstantsAssumption`, `ActionAssumption`, `FrameAssumption`, `SizesAssumption` and
others) of each module allow: any number of goals, any limits, plans, captures, budgets,
streams, episodes, queue sizes and crashes. `NothingAssumption` of `DataCollect` says
that `Nothing`, the absence of a folder, is none of the folders.

- `PolicyNodesProofs!TypeCorrect`; `MotionBounded` (`MotionLimits`) and
  `CommandAdmissible`. The bounds are not inductive: `TickSend` starts a motion
  without looking at anything. The strengthening is `CommandInv`, which carries
  what the tick saw when it decided across the steps of the other threads up to
  the send: no thread may raise an age (only `Elapse` does, and a tick in
  progress excludes it), and one that replaces the prompt sets its age to zero. A load replaces
  the executor under the tick: what was decided stays within the time of the episode of the old
  one, and the new one has no episode yet or one that is as young as the tick (`tickExec.replaced`).
  `MotionInv` is the conjunction.
- `PolicyNodesProofs`, second part: `ActionTypes`, `ActionStaysNear` and together `ActionLimitsHold`
  (`LimitsHold`), `ActionNoSurge`, `ActionGripperFollows`. The place alone is not inductive.
  `Drift` bounds how far the arm is from an observation that may still be used, by its
  age; `Within` bounds where it would be if the driver went on with its present
  command until the watchdog stops it; `Near` bounds how much faster the remembered
  command is than the one the driver executes. The argument is arithmetic and holds for
  any limits.
- `RolloutLinkProofs!VersionsAgree` (`VersionNamesPrompt`). The invariant `LinkInv`
  says of the policy's prompt and of the message under way that they belong to
  an earlier rollout, or are of this one with a lower version, or are the
  current view. Each manager step goes `Forward`: it keeps the view or raises
  its version by one. It does not depend on the order of the PolicyStates at all.
- `RolloutLinkProofs!TypeCorrect` (`TypeOK`), and `PromptsFresh` (`NoOldPrompt`): what is
  on its way was published in the present rollout, because `on_mission` empties the
  topic's slot when it begins, and no goal is sent before its rollout begins
  (`PromptInv`).
- `RolloutLinkProofs!ReadsOnce` (`ReadsCountOnce`), for `Spec` itself: the wrong order is a step
  of it, and `OrderInv` says that nothing else breaks `ReadInv` (section 6 says what the wrong order does).
  The manager remembers one pair of a reading and
  its version, and compares with that alone. `ReadInv` says why this is enough: along the queue of
  PolicyStates readings never go back (`QueuedInv`), what is counted is ordered and older than
  the reading being computed (`CountedInv`), and a state that differs from the last
  one seen is newer than everything counted (`AheadInv`).
- `SubtaskTrackerProofs!TypeCorrect`, with the bound on frames and counters.
- `SubtaskTrackerProofs!OneRequest` (`OneRequestPending`). A start request cancels
  nothing, neither its own rollout's captures nor those of an earlier one. `RequestInv` adds that while
  it waits, the loop is in its last phase, it is alone, and only captures of earlier
  rollouts are pending (`AllLeft`); every later request cancels what is there.
- `SubtaskTrackerProofs!ReleaseVerified` (`ReleasedNeedsOk`). It rests on the types: if
  no frame said ok, all said bad, so that the frames' aggregate is bad.
- `RecorderProofs`: `TypeCorrect`, `IndexCorrect` (`IndexAgrees`), `UndoCorrect`
  (`UndoIsSaved`), together `FilesCorrect` (`FilesAgree`), and `RowsCorrect` (`EveryRowSaved`), from
  one inductive invariant,
  `StoreInv`. `HoldInv` says who holds which episode: an episode being saved is the
  writer's, unless the node is shutting down, and then it is in `cut`; so no two
  threads write one directory. `DiskInv` says what is on disk of these episodes at
  each step of a save or undo. `UndoInv`: an episode is on the undo list once, is
  not in `cut`, and nobody holds it; an episode that starts has no directory, so
  it is not on the list. `RowsInv` counts: frames written plus frames queued are
  the frames accepted until the sentinel, which comes last.
- `RecorderProofs!FramesCorrect` (`FramesFollowRows`), from `FrameInv`, the conjunction of
  its parts with `KeyframesWritten`: a keyframe is of a row that is written. Without
  it a frame could become the picture of an opening keyframe chosen before.

- `DataCollectProofs!KeepsEpisodes` (`EpisodesKept`), `ScreenTells` (`ScreenHonest`) and
  `ImplementsList` (`StoreSpec`), from one inductive invariant, `CollectInv`. `FolderInv` says for
  each step of a deletion which of the three folders exist and which is whole: the
  data set is absent only between the two renames, and then the copy is whole.
  `CountInv` relates the number shown, the number the writer holds and what is on
  disk, by step, and says that a queued deletion names the last episode and has no
  save before it. `OrderInv`: recordings are numbered in the order in which they are stored.
  `FrameInv` and `BlockInv` say of the queue that the frames of a recording are
  together, as many as the save that ends them announces: so that an episode is
  whole although the worker only ever sees one command. `ImplementsList` maps each step
  to a step of `EpisodeList` or to a stutter: only the second rename of a deletion drops
  an episode; before it, and after a crash between the two, the old data set is found.
- `PolicyNodesProofs`, third part: `CountHonest` (`CountBelowCalls`) and `EpisodesSafe` (`QueueSafe`), for
  `PI05Spec`; `SameSteps` shows that `PI05Node` takes only steps of `QueueNode`. `inflight` is
  written by the loop and by the answers without a lock; `CountInv` says that an
  answer is handled by one thread at a time, and that what it read before it
  writes back is at most one too high, which is the call it answers.
  `OneInv` holds for clients that wait until a goal has begun: one goal is under
  way, and its loop finds an empty queue or actions of its own. Those that have given the handle
  back (`released`, `leaving`) may be any number: they take the handle from nobody and leave
  the queue alone.

- `ServersProofs`, for `ServersSpec` itself, whose behaviours are those of one of its programs:
  - `StateMachineSafe` (`MaxServerSafe`). That a careful client has one loop at most is not
    inductive, because a goal is accepted long before its effect can be seen. `AloneInv` says
    that while all clients are careful at most one request is between its acceptance and its
    end, and `PartsInv` what is in the place of the policy and of the preprocessor at each
    step of that one.
  - `PageSafe` (`PoseSafe`). `OwnerInv`: a page that does not listen has heard nothing, and
    what a listening page will show after all that is on its way is the owner
    (`WillShow`; `ShownAppend` and `ShownTail` say how it follows a message sent and one
    heard). `LastInv`: only the burst of the last click may still send, and
    what was sent last is its target or about to be.
  - `ModelIsWhole` (`ModelSafe`). `CalmInv`: while no load has met another load or a run, loads
    and runs exclude each other, so that the parts change under nobody who uses them.
- `RawDataProofs`, for `RawSpec`, whose behaviours are those of the editor's server or of the tools:
  - `ProxiesSafe` (`ProxiesWhole`). `LockInv`: one request at most is between taking the lock of a
    copy and letting it go. `PartInv` says what is in the place of its part file at each step; a
    server that starts beside it may have removed the file, never put another there. `OpenInv`: what
    a request is about to open is whole to within two packets, or was accepted blindly, and of its
    recording or a later one; it stays so although the lock is free again (`GoodStays`), because it is
    only ever dropped or replaced by one that was checked.
  - `MergesKept` (`MergesKeep`). `PlanInv`: the plan numbers different episodes in ascending order,
    above every folder with data; `WorkInv` says by stage what the folder in hand has; `SourceInv`
    that `data.hdf5`, which is rewritten, is never a second name of a source's; `ListInv` that
    folders still to be filled are on no list. `Touched` shows once, for all steps that fill a
    folder, that the rest of the invariant does not notice. `InOrder` is defined by what it
    returns, and `Ascending` shows that such a list exists for every finite set of numbers.
  - `RowsFollow` (`RowsFollowEdits`), by way of what the pure functions return for any segments,
    labels and number of frames. `ByKeySorts` shows that a stable order of the positions exists and
    `ByKeyStays` that it changes nothing where the keys ascend already; hence `SanitizedIs` (what is
    stored is in range and ascends, whatever a page sends) and `NamesStay`: cropping and sorting the
    segments again for a window leaves the last one over each frame the same. `RegisteredIs`
    says that the registry of prompts has each once and only grows, `ColumnNames` that a column names
    the prompt over each row, or has -1. The property speaks of the end of the conversion; `ConvertInv`
    carries it there. `TodoInv` and `WrittenInv`: a folder is still to be read or done with, never
    both, and written at most once. `NamesInv`: what was written, and the column in hand, says in the
    registry of the moment what the edits say, unless they changed since the reading began
    (`StoresEdit` shows that an edit that comes later marks its folder); `RowsStay` that a
    registry that grows changes no name. `KeptInv`: of the folders that are done with, those are
    written whose edits keep a frame. `LooksUp`: the last row, without a prompt, is the one that -1 finds.
    `FormsAssumption` says that a page sends numbers for numbers and prompts the
    project knows; the numbers may be out of range and the segments may overlap.
- `RawDataProofs`, last part, for `RawSpec` too: `EditsSafe` (`EditsKept`) and `HistoryKept` (`HistoryHolds`).
  None of the four promises is inductive, because each speaks of what is stored, and what will be
  stored is decided much earlier, when a page asks. `EditInv` follows an edit from the form to the file:
  - `CreatedInv`: the file of edits and the temporary file of an episode are never one file, and a
    request creates a file once; so nobody writes into the file that is read.
  - `LoneInv`: a save that is alone has the temporary file open, finds it empty and leaves
    its own text there; a prompt set for several episodes carries the segments that are stored.
    From the moment the history was written, the version about to be replaced is in it.
  - `AskedInv`: an operator who waits has one request under way at most, of the
    episode that is shown (or about to be, for a load).
  - `OwnInv`: whatever the form, a request or a file holds was edited for its episode, or for all.
  - `SegsInv`: what is stored of the segments is what the page was told, what an answer on its way
    says, and what a page without unsaved edits shows.

  `WorkOwn` and `WorkSegs` show once what a step of the server must leave alone, `Takes`
  (`AnswerKeeps`) the same of the answers; only `Replace` changes what is stored. `TextsAssumption` says
  that a file that cannot be read is none with edits, `SizesAssumption` that the clock has a first second.

- `LerobotExportProofs`: `RequestsApart` (`RequestsExclude`), `NothingOverwritten` (`WrittenOnce`) and
  `ExportIsFaithful` (`ExportFaithful`), from one inductive invariant, `ExportInv`.
  - `LoadInv`: as long as no two loads overlapped, one is assigning at most, and the parts before
    the one it is at are its own (`Half`). `SnapInv`: what a request has read so far is of one data set,
    unless a load came between; `overlapped` remembers that from the first read on.
  - A request says what it asks for once its thread has begun: `AllLater` shows that no step changes that, so
    that `Content` (every episode in a folder is what `Asks` says) and `Upto` (each episode before the
    thread's place is there once or left out) stay, whoever moves. `WritesInv` is `Upto` at the
    place of the thread that writes, `DoneInv` at the end.
  - `QuietSteps` separates the steps that touch neither status nor folders from the thread's.
  - Which rows are read is a matter of places. Of an episode's rows the first is `Place` rows into its
    file, where `Place` is `from` less the least `from` of the file (`PlaceIs`, with `Smallest`, which
    rests on the well-foundedness of the naturals). Two slices of one file of the same length that is not 0
    are equal exactly when they begin together (`SlicesDiffer`); hence both directions of
    `PicturesOfEpisode` and `FramesOfEpisode`.
  - That the frames are the trim's is arithmetic: `RoundIs` says that a rounded time is
    at most half a frame off, to whichever side a half goes, and `KeptFrames` follows for any trim, length
    and number of parts of a frame. `TrimAssumption` says that a trim has a start and an end,
    `PathsAssumption` that the folders of recorded data sets are none of the others.

Only model-checked: the liveness properties, because fairness and `ENABLED` are beyond the
prover. Induction over data is too; the functions on segments are therefore defined by what
they return (a list in order, the positions that stay, the last segment over a frame) and not by
recursion, and the proofs speak of positions and of the sizes of finite sets.

## 6. Departures of the code from its documents

Three have a run (`findings` in `PROJECT.json`): a chunk that is executed in the next
episode (`policy_old_chunk`), a head read that is published under a version it was not
computed under (`link_stale_read`), and an episode that outlives its time limit
(`link_blind_timeout`).
The others were met while modelling and are reachable in the models unless said
otherwise; the properties are stated so that they hold in spite of them.

Policy node and limits:

- A stop that falls into a tick is overwritten by it (`executor.py:372`; `:20` says stop is
  final). `ArmsRest` holds all the same, by the episode's clock.
- A second goal can be accepted before the first sets `_goal_handle`
  (`RunPolicy.action:14` says it is rejected). `policy_limits` contains the case, and
  `QueueNode` with `Careful = FALSE` the same of the older nodes.
- In state IDLE the policy goes on executing its chunk (`TaskState.msg:24`).
- After a checkpoint that does not load, the old worker is closed
  (`RunPolicy.action:18` says the node keeps what it had): a later tick or load may
  block. `policy_reload` contains the case.
- The episode timeout is tested after the freshness of the observation
  (`executor.py:362`, `:367`), so without observations an episode does not time
  out (`RunPolicy.action:28`), and its rollout does not end: `link_blind_timeout`.
- The last status of an older node's episode is written after the next may have begun
  (`smolvla_node.py:305-309`): the arm then moves under the status IDLE, "no goal accepted; not
  touching the arm" (`PolicyState.msg:15`).
- The workspace is left by up to `MaxSpeed * (MaxLag + WatchTicks)`: the limit looks at an old
  position and its command goes on (`action.py:54-56` speaks of its taking hold at once).
- After dropped calls or when the watchdog has stopped the arm, the ramp goes on from `_last`.
- A wrong first belief about the gripper is not corrected until the target changes:
  an order to open is not sent (`executor.py:300`).

Manager and tracker:

- When the robot refuses the control mode, the rollout does not end
  (`manager_node.py:270`; `RunRollout.action:38`). `SetupMayFail` reaches it.
- With PolicyStates queued out of order a head read counts twice
  (`PolicyState.msg:62`); `overtaken` in `ReadsCountOnce`.
- A rollout that ends leaves its captures pending, and the start of the next cancels none
  (`recognizer_node.py:74`, `subtask.py:226`); their verdicts are then its own business to ignore.
- The start of a rollout may be decided by a head read of the one before
  (`manager_node.py:246-248`).
- The oldest queued PolicyState decides whether a part is held
  (`manager_node.py:363-371`, `RunRollout.action:23`).
- The last PolicyState of an earlier episode, aborted or stopped, aborts the new rollout
  (`manager_node.py:276-278`).
- A start that is refused leaves its first TaskState latched (`TaskState.msg:5`).
- Versions restart with every rollout (`TaskState.msg:15` calls them increasing).
- A verdict of an abandoned flip counts for the new one (`subtask.py:256`; `:383` and
  `manager_node.py:337` say it is filtered).
- The start aggregates once as many frames were counted as captures were
  scheduled, not at the last index (`RecognitionVerdict.msg:29`): one lost start frame and
  it never does.
- The id of a request for a boundary that the same batch of messages passed
  is noted (`manager_node.py:351`) and filters the next request's verdicts when that one's
  own answer is late.
- When the start request is refused, because the recognizer runs without a model,
  the rollout waits for start verdicts nobody will send (`manager_node.py:346`;
  `ScheduleRecognition.srv:35` says it runs without verification). A place whose
  request is refused waits too, until the value stalls. `ScheduleNoModel` reaches it.

Recorder and collector:

- A writer that dies with its queue full makes the next drain wait for ever:
  `put(None)` has no timeout (`episode_writer.py:174`), unlike the join after it.
  The recorder then answers no command. `Jammed` is this state.
- SAVE counts the frames written, not those queued: an episode whose frames are
  all still in the queue "captured no frames" and is discarded (`recorder_node.py:234`).
- With `async_save` false SAVE answers success although the save failed
  (`recorder_node.py:252-253`); with it true, before anything is stored
  (`RecordCommand.srv` says false when storage failed).
- While idle the status should name the episode DELETE would undo
  (`RecorderStatus.msg:27-28`), but it is empty after a discard and names the removed
  episode after an undo.
- The manager's DELETE after a START that was refused discards the episode an
  operator has pending, or undoes the last save (`manager_node.py:250-260`).
- A crash between the removal of an undone episode and its entry leaves the entry
  (`recorder_node.py:271-272`); `open()` does not compare the two.
- The mask of stale streams (`frame_builder.py:5-6`) is always empty: a tick with a stale
  stream aborts first. Start frames are not frame 0 of the video when its first
  picture does not decode (`episode_writer.py:261-264`). The durations of
  `episode_writer.py:233-235` do not come out as its comment says, because the recorder
  sets the duration at STOP and counts the warm-up (`recorder_node.py:276`). The counter of row
  indices is not used.
- The collector's SIGINT mask (`data_collect.py:675`) acts on the worker thread, while Python delivers
  the signal to the main thread. A save that fails leaves its frames to the next episode,
  and a `finalize` that fails leaves the main thread waiting.
- A collector that is killed leaves a parquet file without its end; the data set does not load
  until `data_recover.py`, whose data set is written into the script, has removed it.

Editor and scripts:

- Overlapping saves of one episode use one temporary file (`store.py:37-42`); `mingled` marks what
  they wrote, a page that acts without waiting for an answer is `rash`, and `EditsKept`
  promises nothing for the one or the other. A page whose load failed keeps the old form under the new name.
- Two versions saved in the same second are one file of the history.
- `_is_complete` accepts a copy of any size when ffprobe fails, also because the copy is cut off, and any
  when the recording could not be counted, against its own comment (`transcode.py:77-81`); the recording
  may be replaced between the naming of the copy and its counting (`blind`). The sweep of a second server removes
  the part files of the first (`transcode.py`).
- `_sanitize_trim` takes an end of 0 for one that was not given (`end or n`); a tasks.json
  without frame counts gives a trim of nothing, and the converter then drops the episode.
- The converter reads the edits three times and rows may be labelled by later edits than
  those that trimmed them. Trimmed episodes get the whole video (`convert_to_lerobot.py:385-387`).
  Rows without a subtask have index -1 (`:437`).
- A merge that dies before metadata.json cannot be appended to; one that dies in an append
  leaves folders that no list names; `--move` removes the history of edits with the source.

Servers:

- An export takes an episode's rows from the start of the file (`server.py:405`, against `:396`), so that
  they are its own for the first episode of a file only, and a view goes by the index in the whole data set
  (`:196`, against `:176`); `ExportFaithful` says exactly when each is right. A load that overlaps an export
  tears its snapshot (`:482`, against `:481`): it then has the files of one data set and the
  episodes of another, and `ExportFaithful` promises their number only. A second export that was told "started" may die without a trace, as does one whose features cannot be
  read before it takes the lock. An existing empty folder counts as absent.
- max_server: a client that does not wait can start two loops, load during a loop or run with the parts
  of two models (`max_server.py:440-640`); hence `careful`. A STOP is answered with success and stops
  nothing; a cancel does (`ros2/src/README.md:41`, `max_server.py:584-590`).
- Older application: the model server's start is commented out (`app_server.py:38`) and `_shutdown`
  calls it all the same. An error's state is overwritten by "ready" (`model_server.py:373-377`). A
  reload waits half a second for threads that may run longer; hence `calm`. The arbiter always
  grants (`brief.md:75` speaks of exclusive control) and nothing calls `release`; an unknown
  topic takes control; a click of the gripper cancels a move of the arm. A dead camera's
  last frame is sent again and again, and without a gripper the model waits for ever.

## 7. Not modelled

- The components that `PROJECT.json` lists as `not_modelled`, with their reasons: image
  and array arithmetic, the neural networks, the planner's rules (submodule),
  configuration, hardware drivers, launch files, user interfaces and programs whose
  state is one flag.
- Parts of modelled components: blending of chunks (arithmetic on vectors without control),
  capture times, node shutdown of the policy nodes, Range requests and probing of videos
  (arithmetic on bytes), automatic trims (signal processing), a change of the editor's root while pages are open
  (nothing in the code tells the roots apart), the older application's page rules
  (`pages/*.py` are not in the repository), ZMQ sockets shared by threads (undefined
  by their library), and exceptions outside the handlers' own `try`.
- Timing that a guard stands for: a send of the older page is shorter than a burst (`BurstCheck`: when the
  last message of a burst is due, no other one is still looking at its cancel event). `PoseSafe` and its theorem
  rest on it.
- Races that a premise leaves out of a property although the model has them: clients that do not wait
  (`careful`, `Careful`), loads that meet loads or runs (`calm`), loads that overlap (`mingled`, and
  `overlapped` for the request that meets one), saves that overlap (`mingled` of the editor) and an operator
  who does not wait (`rash`), a writer that died with its queue full (`Jammed`), PolicyStates out
  of order (`overtaken`), and checks without counts (`blind`). Section 6 says what happens then.
- Steps that are finer in the code: `MergeRaw.Place`, `ModelServer.SetState`, the increment in `QueueNode.Send`, the
  flight of a velocity call in `PolicyNode.Sent` (section 3).
