---------------------------- MODULE ModelServer ----------------------------
(* The older model server (model_server.py): a thread takes commands, each  *)
(* load and each run of the model is a thread of its own, and a heartbeat   *)
(* repeats the state for listeners that come late.  The page that sends the *)
(* commands and hears the state is ui_utils.py's.                           *)
EXTENDS Integers, Sequences, FiniteSets

CONSTANTS Devices,     \* what an observation needs: joints of both, a picture
          MaxCmds,     \* bound: commands of the page
          MaxLoads,    \* bound: loads, with the one at the start
          MaxStarts,   \* bound: runs
          MaxActions   \* bound: actions that are inferred

ASSUME MaxAssumption == /\ MaxLoads \in Nat \ {0} /\ MaxStarts \in Nat
                        /\ MaxActions \in Nat /\ MaxCmds \in Nat

VARIABLES modelState,     \* _state
          page,      \* does the page listen?
          shown,     \* the state that it has heard of
          beat,      \* what the heartbeat has read and not sent, or "nothing"
          cmds,      \* commands on their way to the server
          asked,     \* commands that the page has sent
          asleep,    \* does the command loop sleep before a reload?
          inferenceStop,  \* _inference_stop
          load,      \* load[l]: where the l-th load is
          loop,      \* loop[i]: where the i-th run is
          used,      \* used[i]: the load whose policy run i has just called
          parts,     \* the loads that _policy, _preprocessor, _postprocessor are of
          seen,      \* devices that _latest_joints and _latest_images come from
          actions,   \* actions inferred
          calm,      \* has no load met another load or a run (history)
          mixed      \* has one inference used parts of two loads (history)

pageVars == <<page, asked>>
modelVars == <<pageVars, modelState, shown, beat, cmds, asleep, inferenceStop, load, loop, used,
               parts, seen, actions, calm, mixed>>

ModelStates == {"idle", "loading", "ready", "running", "error"}
LoadIds == 1..MaxLoads
Runs == 1..MaxStarts
Loading == {l \in LoadIds : load[l] \notin {"none", "over"}}
RunsAlive == {i \in Runs : loop[i] \notin {"none", "over"}}
NewLoads == {l \in LoadIds : load[l] = "none" /\ \A k \in 1..(l - 1) : load[k] # "none"}
NewRuns == {i \in Runs : loop[i] = "none" /\ \A k \in 1..(i - 1) : loop[k] # "none"}

ModelInit ==
  /\ modelState = "idle" /\ shown = "idle" /\ beat = "nothing"
  /\ page = FALSE /\ asked = 0
  /\ cmds = <<>> /\ asleep = FALSE /\ inferenceStop = FALSE
  /\ load = [l \in LoadIds |-> IF l = 1 THEN "begun" ELSE "none"]
  /\ loop = [i \in Runs |-> "none"] /\ used = [i \in Runs |-> 0]
  /\ parts = [policy |-> 0, pre |-> 0, post |-> 0]
  /\ seen = {} /\ actions = 0
  /\ calm = TRUE /\ mixed = FALSE

----------------------------------------------------------------------------
(* The state, and what listeners hear of it. *)

Hears(s) == shown' = IF page THEN s ELSE shown
SetState(s) == modelState' = s /\ Hears(s)
SameState == UNCHANGED <<modelState, shown>>

\* The lock is not held while the message is sent: it may be overtaken.
BeatReads ==
  /\ beat = "nothing" /\ page
  /\ beat' = modelState
  /\ UNCHANGED <<pageVars, modelState, shown, cmds, asleep, inferenceStop, load, loop, used,
                 parts, seen, actions, calm, mixed>>
\* Mutant: a beat is sent only before the first message.
BeatSendsOnce ==
  /\ beat # "nothing"
  /\ shown' = IF page /\ shown = "idle" THEN beat ELSE shown
  /\ beat' = "nothing"
  /\ UNCHANGED <<pageVars, modelState, cmds, asleep, inferenceStop, load, loop, used,
                 parts, seen, actions, calm, mixed>>
BeatSends ==
  /\ beat # "nothing"
  /\ Hears(beat) /\ beat' = "nothing"
  /\ UNCHANGED <<pageVars, modelState, cmds, asleep, inferenceStop, load, loop, used,
                 parts, seen, actions, calm, mixed>>

----------------------------------------------------------------------------
(* A load: the three parts are put in place one by one. *)

LoadRest == UNCHANGED <<pageVars, beat, cmds, asleep, inferenceStop, loop, used,
                        seen, actions, calm, mixed>>

\* The checkpoint may be empty.
LoadBegins(l) ==
  /\ load[l] = "begun"
  /\ \/ SetState("idle") /\ load' = [load EXCEPT ![l] = "over"]
     \/ SetState("loading") /\ load' = [load EXCEPT ![l] = "policy"]
  /\ UNCHANGED parts /\ LoadRest

LoadFails(l) ==
  /\ load[l] = "policy"
  /\ SetState("error") /\ load' = [load EXCEPT ![l] = "over"]
  /\ UNCHANGED parts /\ LoadRest

\* Mutant: the postprocessor stays as it was.
AfterTwo == [policy |-> "pre", pre |-> "whole"]
After == [policy |-> "pre", pre |-> "post", post |-> "whole"]
LoadPart(l) ==
  /\ load[l] \in DOMAIN After
  /\ parts' = [parts EXCEPT ![load[l]] = l]
  /\ load' = [load EXCEPT ![l] = After[@]]
  /\ SameState /\ LoadRest

LoadEnds(l) ==
  /\ load[l] = "whole"
  /\ SetState("ready") /\ load' = [load EXCEPT ![l] = "over"]
  /\ UNCHANGED parts /\ LoadRest

LoadThread(l) == LoadBegins(l) \/ LoadFails(l) \/ LoadPart(l) \/ LoadEnds(l)

----------------------------------------------------------------------------
(* What the robot and the cameras say. *)

HearDevice(d) ==
  /\ d \notin seen
  /\ seen' = seen \union {d}
  /\ UNCHANGED <<pageVars, modelState, shown, beat, cmds, asleep, inferenceStop, load, loop, used,
                 parts, actions, calm, mixed>>

----------------------------------------------------------------------------
(* A run. *)

Observed == seen = Devices
LoopAt(i, to) == loop' = [loop EXCEPT ![i] = to]
LoopRest == UNCHANGED <<beat, cmds, asleep, inferenceStop, load, parts, seen, calm>>

\* The flag is looked at once per pass, before the pictures.
LoopTop(i) ==
  /\ loop[i] = "top"
  /\ \/ inferenceStop /\ LoopAt(i, "end")
     \/ ~inferenceStop /\ Observed /\ actions < MaxActions /\ LoopAt(i, "infer")
  /\ SameState
  /\ UNCHANGED <<pageVars, used, actions, mixed>> /\ LoopRest

InferAction(i) ==
  /\ loop[i] = "infer"
  /\ LoopAt(i, "act")
  /\ used' = [used EXCEPT ![i] = parts.policy]
  /\ mixed' = (mixed \/ parts.pre # parts.policy)
  /\ SameState /\ UNCHANGED <<pageVars, actions>> /\ LoopRest

\* The action goes to the bridge, in two messages (PoseControl's ModelSends).
ActOnRobot(i) ==
  /\ loop[i] = "act"
  /\ LoopAt(i, "top")
  /\ mixed' = (mixed \/ parts.post # used[i])
  /\ actions' = actions + 1
  /\ used' = [used EXCEPT ![i] = 0]
  /\ SameState /\ UNCHANGED pageVars /\ LoopRest

InferenceFails(i) ==
  /\ loop[i] \in {"infer", "act"}
  /\ LoopAt(i, "end") /\ SetState("error")
  /\ used' = [used EXCEPT ![i] = 0]
  /\ UNCHANGED <<pageVars, actions, mixed>> /\ LoopRest

\* Whatever ended it, an error too, the run leaves "ready" behind.
LoopEnds(i) ==
  /\ loop[i] = "end"
  /\ LoopAt(i, "over") /\ SetState("ready")
  /\ UNCHANGED <<pageVars, used, actions, mixed>> /\ LoopRest

RunThread(i) == LoopTop(i) \/ InferAction(i) \/ ActOnRobot(i) \/ InferenceFails(i) \/ LoopEnds(i)

----------------------------------------------------------------------------
(* The command loop. *)

CommandRest == UNCHANGED <<pageVars, beat, used, parts, seen, actions, mixed>>
Take(name) == ~asleep /\ cmds # <<>> /\ Head(cmds) = name /\ cmds' = Tail(cmds)

OnStart(i) ==
  /\ modelState = "ready" /\ Take("start")
  /\ inferenceStop' = FALSE /\ SetState("running") /\ LoopAt(i, "top")
  /\ calm' = (calm /\ Loading = {})
  /\ UNCHANGED <<asleep, load>> /\ CommandRest
StartIgnored ==
  /\ modelState # "ready" /\ Take("start")
  /\ SameState /\ UNCHANGED <<asleep, inferenceStop, load, loop, calm>> /\ CommandRest

OnStop ==
  /\ Take("stop")
  /\ inferenceStop' = (inferenceStop \/ modelState = "running")
  /\ SameState /\ UNCHANGED <<asleep, load, loop, calm>> /\ CommandRest

Spawn(l) ==
  /\ load' = [load EXCEPT ![l] = "begun"]
  /\ calm' = (calm /\ Loading = {} /\ RunsAlive = {})
OnReload(l) ==
  /\ Take("reload")
  /\ \/ /\ modelState = "running"
        /\ inferenceStop' = TRUE /\ asleep' = TRUE
        /\ UNCHANGED <<load, calm>>
     \/ /\ modelState # "running"
        /\ Spawn(l) /\ UNCHANGED <<inferenceStop, asleep>>
  /\ SameState /\ UNCHANGED loop /\ CommandRest
\* After half a second, whether the run has ended or not.
ReloadWakes(l) ==
  /\ asleep /\ asleep' = FALSE
  /\ Spawn(l)
  /\ SameState /\ UNCHANGED <<cmds, inferenceStop, loop>> /\ CommandRest

CommandLoop ==
  \/ \E i \in NewRuns : OnStart(i)
  \/ StartIgnored \/ OnStop
  \/ \E l \in NewLoads : OnReload(l) \/ ReloadWakes(l)
----------------------------------------------------------------------------
(* The page. *)

\* The listener begins when the page is first drawn.  The page is drawn in the
\* end whether a state has come by then or not (wait_for_model_state).
StartListening ==
  /\ ~page /\ page' = TRUE
  /\ UNCHANGED <<asked, modelState, shown, beat, cmds, asleep, inferenceStop, load, loop, used,
                 parts, seen, actions, calm, mixed>>

\* Any command at any time: the page's own rules are not in the repository.
SendModel(name) ==
  /\ page /\ asked < MaxCmds
  /\ asked' = asked + 1 /\ cmds' = Append(cmds, name)
  /\ UNCHANGED <<page, modelState, shown, beat, asleep, inferenceStop, load, loop, used,
                 parts, seen, actions, calm, mixed>>

ModelNext ==
  \/ StartListening \/ CommandLoop \/ BeatReads \/ BeatSends
  \/ \E name \in {"start", "stop", "reload"} : SendModel(name)
  \/ \E l \in LoadIds : LoadThread(l)
  \/ \E i \in Runs : RunThread(i)
  \/ \E d \in Devices : HearDevice(d)

----------------------------------------------------------------------------
(* Properties. *)

\* Every variable has a value of its kind.
ModelTypeOK ==
  /\ modelState \in ModelStates /\ shown \in ModelStates /\ beat \in ModelStates \union {"nothing"}
  /\ load \in [LoadIds -> {"none", "begun", "policy", "pre", "post", "whole", "over"}]
  /\ loop \in [Runs -> {"none", "top", "infer", "act", "end", "over"}]
  /\ parts \in [{"policy", "pre", "post"} -> 0..MaxLoads]
  /\ actions <= MaxActions + MaxStarts /\ seen \subseteq Devices

\* As long as no load meets another load or a run (a reload of
\* model_server.py:411-422 waits for neither), there is one run at most, and the
\* state says whether there is one.
StateTrue ==
  calm => /\ Cardinality(RunsAlive) <= 1
          /\ modelState = "running" => RunsAlive # {}
          /\ RunsAlive # {} => modelState \in {"running", "error"}

\* As long as no load meets another load or a run, a model that is ready is
\* whole, and no inference uses the parts of two (model_server.py:193-196, :367-369).
ModelWhole ==
  calm => /\ ~mixed
          /\ modelState \in {"ready", "running"} =>
               parts.policy = parts.pre /\ parts.pre = parts.post /\ parts.post > 0

\* A run whose stop flag is up ends (model_server.py:353, :405-407), as long as no
\* load meets another load or a run.
StopsInTheEnd ==
  \A i \in Runs : (calm /\ inferenceStop /\ i \in RunsAlive) ~> (~calm \/ i \notin RunsAlive)

\* The page shows the state in the end, whichever message it has missed and
\* whichever overtook another (the heartbeat, model_server.py:117-121).
ShownSettles == <>[](page => shown = modelState)

\* The model server's state is true and its model whole.
ModelSafe == ModelTypeOK /\ StateTrue /\ ModelWhole
=============================================================================
