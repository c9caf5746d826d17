------------------------- MODULE PolicyNodesProofs --------------------------
(***************************************************************************)
(* Proofs about the nodes that drive the arm, for every set of goals and   *)
(* every value of the limits.                                              *)
(*   PolicyNode: its types, and that the arm never moves on a prompt, on   *)
(* an observation or in an episode that is over its limit by more than one *)
(* velocity command.                                                       *)
(*   ActionSafety: the types of the values that are sent, the excursion of *)
(* the arm, the bound on a change of speed, the belief about the gripper.  *)
(*   PI05Node: the count of velocity calls in flight never locks the arm   *)
(* out, no status is left behind, and clients that wait get one episode at *)
(* a time with its own actions.                                            *)
(***************************************************************************)
EXTENDS PolicyNodes, SequenceTheorems, FiniteSetTheorems, TLAPS

LEMMA Caps ==
  /\ PromptCap \in Nat /\ ObsCap \in Nat /\ EpisodeCap \in Nat /\ NeverBegun \in Nat
  /\ PromptCap > 0 /\ ObsCap > 0 /\ EpisodeCap > 0 /\ NeverBegun = EpisodeCap + 1
  /\ ChunkSteps \in Nat \ {0} /\ WatchdogTicks \in Nat \ {0}
  BY ConstantsAssumption DEF PromptCap, ObsCap, EpisodeCap, NeverBegun

LEMMA OlderType ==
  /\ \A a \in 0..PromptCap : Older(a, PromptCap) \in 0..PromptCap
  /\ \A a \in 0..ObsCap : Older(a, ObsCap) \in 0..ObsCap
  /\ \A a \in 0..ChunkSteps : Older(a, ChunkSteps) \in 0..ChunkSteps
  /\ \A a \in 0..NeverBegun : Older(a, EpisodeCap) \in 0..NeverBegun
  BY Caps DEF Older

LEMMA RecordTypes ==
  /\ NoJob \in Requests /\ NoPrompt \in Prompts
  /\ NoChunk \in [age : 0..ChunkSteps, mine : BOOLEAN] /\ OwnExec \in Executors
  BY Caps DEF NoJob, Requests, NoPrompt, Prompts, Modes, NoChunk, OwnExec, Executors

LEMMA TypeInit == Init => TypeOK
<1> SUFFICES ASSUME Init PROVE TypeOK
  OBVIOUS
<1> USE Caps, RecordTypes DEF Init
<1>1. ExecOK
  BY DEF ExecOK, Statuses
<1>2. PromptOK
  BY DEF PromptOK
<1>3. WorkerOK
  BY EmptySeq DEF WorkerOK, WorkerStates
<1>4. TickOK
  BY DEF TickOK
<1>5. GoalOK
  BY DEF GoalOK, GoalStates
<1> QED
  BY <1>1, <1>2, <1>3, <1>4, <1>5 DEF TypeOK

LEMMA AgedType ==
  /\ \A r \in Requests : Aged(r) \in Requests
  /\ \A c \in [age : 0..ChunkSteps, mine : BOOLEAN] : Aged(c) \in [age : 0..ChunkSteps, mine : BOOLEAN]
  BY OlderType DEF Requests, Aged

LEMMA AgedSeq ==
  ASSUME NEW s \in Seq(Requests)
  PROVE  [i \in 1..Len(s) |-> Aged(s[i])] \in Seq(Requests)
<1>1. \A i \in 1..Len(s) : s[i] \in Requests
  BY ElementOfSeq
<1> QED
  BY <1>1, AgedType, LenProperties

LEMMA DisownedSeq ==
  ASSUME NEW s \in Seq(Requests)
  PROVE  [i \in 1..Len(s) |-> [s[i] EXCEPT !.mine = FALSE]] \in Seq(Requests)
<1>1. \A i \in 1..Len(s) : s[i] \in Requests
  BY ElementOfSeq
<1>2. \A r \in Requests : [r EXCEPT !.mine = FALSE] \in Requests
  BY DEF Requests
<1> QED
  BY <1>1, <1>2, LenProperties

\* One period later every age is still within its cap.
LEMMA ElapseType == TypeOK /\ Elapse => TypeOK'
<1> SUFFICES ASSUME TypeOK, Elapse PROVE TypeOK'
  OBVIOUS
<1>1. ExecOK'
  BY OlderType, AgedType DEF TypeOK, Elapse, ExecOK
<1>2. PromptOK'
  BY OlderType DEF TypeOK, Elapse, PromptOK
<1>3. WorkerOK'
  <2>1. job' \in Requests
    BY AgedType DEF TypeOK, WorkerOK, Elapse
  <2>2. out' \in Seq(Requests)
    BY AgedSeq DEF TypeOK, WorkerOK, Elapse
  <2> QED
    BY <2>1, <2>2 DEF TypeOK, WorkerOK, Elapse
<1>4. TickOK' /\ GoalOK'
  BY DEF TypeOK, Elapse, TickOK, GoalOK, tickVars, goalVars
<1>5. obsAge' \in 0..ObsCap
  BY OlderType DEF TypeOK, Elapse
<1>6. armLeft' \in 0..WatchdogTicks
  BY Caps DEF TypeOK, Elapse
<1> QED
  BY <1>1, <1>2, <1>3, <1>4, <1>5, <1>6 DEF TypeOK

LEMMA Frame ==
  /\ ExecOK /\ UNCHANGED execVars => ExecOK'
  /\ PromptOK /\ UNCHANGED promptVars => PromptOK'
  /\ WorkerOK /\ UNCHANGED workerVars => WorkerOK'
  /\ TickOK /\ UNCHANGED tickVars => TickOK'
  /\ GoalOK /\ UNCHANGED goalVars => GoalOK'
  BY DEF ExecOK, execVars, PromptOK, promptVars, WorkerOK, workerVars, TickOK, tickVars,
         GoalOK, goalVars

\* The executor of a tick, its own or the one that a reload replaced.
LEMMA ExecType ==
  ASSUME TypeOK
  PROVE  TickExec \in Executors /\ [TickExec EXCEPT !.replaced = TRUE] \in Executors
<1>1. {g \in Goals : goal[g] = "begun"} \in SUBSET Goals
  OBVIOUS
<1>2. TickExec \in Executors
  BY <1>1 DEF TickExec, Executors, TypeOK, ExecOK, TickOK, WorkerOK
<1> QED
  BY <1>2 DEF Executors

\* A command leaves the arm within the watchdog.
LEMMA SentType ==
  ASSUME NEW cmd, Sent(cmd), armLeft \in 0..WatchdogTicks
  PROVE  armLeft' \in 0..WatchdogTicks
  BY Caps DEF Sent

LEMMA EnvironmentType ==
  ASSUME TypeOK
  PROVE  /\ Observe => TypeOK'
         /\ \A m \in ManagerPrompts : OnTaskState(m) => TypeOK'
<1>1. Observe => TypeOK'
  BY Frame, Caps DEF TypeOK, Observe
<1>2. ASSUME NEW m \in ManagerPrompts, OnTaskState(m) PROVE TypeOK'
  BY <1>2, Frame, Caps, ConstantsAssumption DEF TypeOK, OnTaskState, PromptOK
<1> QED
  BY <1>1, <1>2

LEMMA WorkerType ==
  ASSUME TypeOK, WorkerPut \/ WorkerFail \/ WorkerClear
  PROVE  TypeOK'
<1>1. WorkerOK'
  <2>1. CASE WorkerPut
    <3>1. out' \in Seq(Requests)
      BY <2>1, AppendProperties DEF TypeOK, WorkerOK, WorkerPut
    <3> QED
      BY <2>1, <3>1, RecordTypes DEF TypeOK, WorkerOK, WorkerPut, WorkerStates
  <2>2. CASE WorkerFail
    BY <2>2, RecordTypes DEF TypeOK, WorkerOK, WorkerFail, WorkerStates
  <2>3. CASE WorkerClear
    BY <2>3 DEF TypeOK, WorkerOK, WorkerClear, WorkerStates
  <2> QED
    BY <2>1, <2>2, <2>3
<1> QED
  BY <1>1, Frame DEF TypeOK, WorkerPut, WorkerFail, WorkerClear

\* The request that submit() queues is as old as the observation it carries.
LEMMA SubmitType ==
  ASSUME TypeOK, NEW c \in BOOLEAN, Submit(c), UNCHANGED <<closed, out>>
  PROVE  WorkerOK'
<1>1. (IF obsAge < ChunkSteps THEN obsAge ELSE ChunkSteps) \in 0..ChunkSteps
  BY Caps DEF TypeOK
<1>2. job' \in Requests
  BY <1>1 DEF Submit, Requests
<1> QED
  BY <1>2 DEF TypeOK, WorkerOK, Submit, WorkerStates

LEMMA DecidedType ==
  ASSUME TypeOK, NEW cmd \in {"stop", "move"}, Decided(cmd), WorkerOK', status' \in Statuses
  PROVE  TypeOK'
  BY Frame, RecordTypes, Caps DEF TypeOK, Decided, ExecOK, PromptOK, TickOK, GoalOK, promptVars, goalVars

LEMMA TickType ==
  ASSUME TypeOK, Tick
  PROVE  TypeOK'
<1>1. CASE TickInactive
  <2>1. WorkerOK'
    BY <1>1, EmptySeq DEF TypeOK, WorkerOK, TickInactive
  <2>2. armLeft' \in 0..WatchdogTicks
    BY <1>1, SentType DEF TypeOK, TickInactive
  <2> QED
    BY <1>1, <2>1, <2>2, Frame DEF TypeOK, TickInactive
<1>2. CASE TickPoll
  <2>1. WorkerOK'
    BY <1>2, EmptySeq DEF TypeOK, WorkerOK, TickPoll
  <2>2. chunk' \in [age : 0..ChunkSteps, mine : BOOLEAN]
    <3>1. \A i \in DOMAIN out : out[i] \in Requests
      BY ElementOfSeq, LenProperties DEF TypeOK, WorkerOK
    <3> QED
      BY <1>2, <3>1 DEF TypeOK, ExecOK, TickPoll, TakeChunk, Requests
  <2>3. ExecOK' /\ TickOK'
    BY <1>2, <2>2 DEF TypeOK, ExecOK, TickOK, PromptOK, TickPoll
  <2> QED
    BY <1>2, <2>1, <2>3, Frame DEF TypeOK, TickPoll
<1>3. CASE TickHalt
  BY <1>3, DecidedType, Frame DEF TickHalt, StatusBecomes, TypeOK, ExecOK, WorkerOK, Decided, Statuses
<1>4. CASE TickDeadman
  BY <1>4, DecidedType DEF TickDeadman, StatusBecomes, TypeOK, ExecOK, WorkerOK, Decided, Statuses
<1>5. CASE TickHold
  BY <1>5, DecidedType DEF TickHold, TypeOK, ExecOK, WorkerOK, Decided
<1>6. CASE TickTimeout
  BY <1>6, DecidedType DEF TickTimeout, StatusBecomes, TypeOK, ExecOK, WorkerOK, Decided, Statuses
<1>7. CASE TickRun
  <2>1. status' \in Statuses
    BY <1>7 DEF TickRun, StatusBecomes, TypeOK, ExecOK, Statuses
  <2>2. PICK cmd \in {"stop", "move"} : Decided(cmd)
    BY <1>7 DEF TickRun
  <2>3. WorkerOK'
    <3>1. UNCHANGED <<closed, out>>
      BY <2>2 DEF Decided
    <3>2. CASE UNCHANGED <<worker, job>>
      BY <3>1, <3>2 DEF TypeOK, WorkerOK
    <3>3. CASE \E c \in Wanted(tickPrompt) : Submit(c)
      BY <3>1, <3>3, SubmitType DEF Wanted
    <3> QED
      BY <1>7, <3>2, <3>3 DEF TickRun
  <2> QED
    BY <2>1, <2>2, <2>3, DecidedType
<1>8. CASE TickHang
  <2>1. status' \in Statuses
    BY <1>8 DEF TickHang, StatusBecomes, TypeOK, ExecOK, Statuses
  <2> QED
    BY <1>8, <2>1, Frame, RecordTypes, Caps DEF TypeOK, TickHang, ExecOK, TickOK
<1>9. CASE TickSend
  BY <1>9, SentType, Frame, RecordTypes DEF TypeOK, TickSend, TickOK
<1> QED
  BY <1>1, <1>2, <1>3, <1>4, <1>5, <1>6, <1>7, <1>8, <1>9 DEF Tick

LEMMA MovesType ==
  ASSUME GoalOK, NEW g \in Goals, NEW from, NEW to \in GoalStates, Moves(g, from, to)
  PROVE  goal' \in [Goals -> GoalStates]
  BY DEF GoalOK, Moves

LEMMA GoalType ==
  ASSUME TypeOK, NEW g \in Goals, GoalStep(g)
  PROVE  TypeOK'
<1> USE MovesType, Frame DEF TypeOK, GoalStates
<1>1. CASE AcceptGoal(g) \/ RejectGoal(g) \/ LoadFails(g) \/ SetupFails(g) \/ LoopExit(g)
  BY <1>1 DEF AcceptGoal, RejectGoal, LoadFails, SetupFails, LoopExit, GoalOK
<1>2. CASE Execute(g)
  BY <1>2 DEF Execute, GoalOK
<1>3. CASE LoadClose(g)
  BY <1>3 DEF LoadClose, GoalOK, WorkerOK, WorkerStates
<1>4. CASE LoadOk(g)
  <2>1. WorkerOK'
    BY <1>4, RecordTypes, EmptySeq DEF LoadOk, WorkerOK, WorkerStates
  <2>2. ExecOK'
    BY <1>4, RecordTypes, Caps DEF LoadOk, ExecOK, Statuses
  <2>3. GoalOK'
    BY <1>4 DEF LoadOk, GoalOK
  <2>4. TickOK'
    BY <1>4, ExecType DEF LoadOk, TickOK
  <2> QED
    BY <1>4, <2>1, <2>2, <2>3, <2>4 DEF LoadOk
<1>5. CASE RunPrompt(g)
  <2>1. PromptOK'
    <3>1. prompt' \in Prompts
      <4>1. GoalPrompt \in Prompts /\ AwaitManager \in Prompts
        BY DEF GoalPrompt, AwaitManager, Prompts, Modes
      <4> QED
        BY <1>5, <4>1 DEF RunPrompt, PromptOK
    <3>2. promptAge' \in 0..PromptCap
      BY <1>5, Caps DEF RunPrompt, PromptOK
    <3>3. standalone' \in BOOLEAN
      BY <1>5 DEF RunPrompt
    <3> QED
      BY <3>1, <3>2, <3>3 DEF PromptOK
  <2>2. GoalOK'
    BY <1>5 DEF RunPrompt, GoalOK
  <2> QED
    BY <1>5, <2>1, <2>2 DEF RunPrompt
<1>6. CASE BeginStatus(g)
  <2>1. job' \in Requests /\ out' \in Seq(Requests)
    BY <1>6, DisownedSeq DEF BeginStatus, WorkerOK, Requests
  <2>2. WorkerOK'
    BY <1>6, <2>1 DEF BeginStatus, WorkerOK
  <2> QED
    BY <1>6, <2>2, RecordTypes DEF BeginStatus, GoalOK, ExecOK, Statuses
<1>7. CASE BeginClock(g)
  BY <1>7, Caps DEF BeginClock, GoalOK, ExecOK
<1>8. CASE LoopCancel(g)
  BY <1>8 DEF LoopCancel, GoalOK, ExecOK, Statuses
<1>11. CASE OutdatedClock(g)
  <2>1. tickExec' \in Executors
    <3>1. [tickExec EXCEPT !.age = 0] \in Executors
      BY Caps DEF TickOK, Executors
    <3> QED
      BY <1>11, <3>1 DEF OutdatedClock, TickOK
  <2>2. TickOK'
    BY <1>11, <2>1 DEF OutdatedClock, TickOK
  <2> QED
    BY <1>11, <2>2 DEF OutdatedClock, GoalOK
<1>9. CASE RunEnd(g)
  BY <1>9, SentType DEF RunEnd, GoalOK, PromptOK
<1>10. CASE Close(g)
  BY <1>10, SentType DEF Close, GoalOK
<1> QED
  BY <1>1, <1>2, <1>3, <1>4, <1>5, <1>6, <1>7, <1>8, <1>9, <1>10, <1>11 DEF GoalStep

LEMMA TypeStep == TypeOK /\ [Next]_vars => TypeOK'
<1> SUFFICES ASSUME TypeOK, [Next]_vars PROVE TypeOK'
  OBVIOUS
<1>1. CASE UNCHANGED vars
  BY <1>1, Frame DEF TypeOK, vars
<1>2. CASE Next
  BY <1>2, ElapseType, EnvironmentType, WorkerType, TickType, GoalType DEF Next
<1> QED
  BY <1>1, <1>2

(* Every variable of the policy node keeps its type. *)
THEOREM TypeCorrect == Spec => []TypeOK
  BY TypeInit, TypeStep, PTL DEF Spec

-----------------------------------------------------------------------------
(* The bounds on a moving arm.  They are not inductive: that a command may  *)
(* be sent was decided earlier in the tick, and CommandInv carries the       *)
(* decision from one step of the tick to the next.                          *)

MotionInv == CommandInv /\ DeadmanBound /\ StaleBound /\ EpisodeBound

LEMMA MotionInit == Init => MotionInv
  BY DEF Init, MotionInv, CommandInv, DeadmanBound, StaleBound, EpisodeBound, OwnExec

\* What the invariant is about.
motionVars == <<tickVars, promptVars, obsAge, episodeAge, armLeft>>

LEMMA MotionFrame == MotionInv /\ UNCHANGED motionVars => MotionInv'
  BY DEF MotionInv, CommandInv, DeadmanBound, StaleBound, EpisodeBound, motionVars,
         tickVars, promptVars, TickExec

\* A period that passes adds to the ages what it takes from the arm.
LEMMA MotionElapse ==
  ASSUME TypeOK, MotionInv, Elapse
  PROVE  MotionInv'
<1>1. CommandInv'
  BY DEF MotionInv, Elapse, CommandInv, tickVars
<1>2. armLeft' > 0 => armLeft = armLeft' + 1 /\ armLeft > 0
  BY Caps DEF TypeOK, Elapse
<1>3. DeadmanBound'
  BY <1>2, ConstantsAssumption DEF MotionInv, DeadmanBound, Elapse, Older, PromptCap, TypeOK, PromptOK
<1>4. StaleBound'
  BY <1>2, ConstantsAssumption DEF MotionInv, StaleBound, Elapse, Older, ObsCap, TypeOK
<1>5. EpisodeBound'
  BY <1>2, ConstantsAssumption
  DEF MotionInv, EpisodeBound, Elapse, Older, EpisodeCap, NeverBegun, TypeOK, ExecOK
<1> QED
  BY <1>1, <1>3, <1>4, <1>5 DEF MotionInv

\* A stop that is sent, or lost, keeps the bounds.
LEMMA MotionStop ==
  ASSUME TypeOK, MotionInv, Sent("stop"), UNCHANGED <<tickVars, obsAge, episodeAge>>,
         UNCHANGED <<prompt, promptAge>>
  PROVE  MotionInv'
  BY DEF MotionInv, CommandInv, DeadmanBound, StaleBound, EpisodeBound, tickVars, TickExec, Sent

\* A decision keeps the bounds: it sends nothing.
LEMMA MotionDecided ==
  ASSUME TypeOK, MotionInv, NEW cmd, Decided(cmd),
         cmd = "move" => ~Deadman /\ Fresh /\ ~TimedOut
  PROVE  MotionInv'
<1>1. CommandInv'
  BY ConstantsAssumption, Caps, ExecType
  DEF TypeOK, PromptOK, TickOK, ExecOK, MotionInv, CommandInv, Decided, Deadman, Fresh, TimedOut,
      TickExec, Executors, promptVars
<1> QED
  BY <1>1 DEF MotionInv, DeadmanBound, StaleBound, EpisodeBound, Decided, promptVars

LEMMA MotionTick ==
  ASSUME TypeOK, MotionInv, Tick
  PROVE  MotionInv'
<1>1. CASE TickInactive
  <2>1. CASE status = "idle"
    BY <1>1, <2>1, MotionFrame DEF TickInactive, motionVars, execVars
  <2>2. CASE status # "idle"
    BY <1>1, <2>2, MotionStop DEF TickInactive, execVars, promptVars
  <2> QED
    BY <2>1, <2>2
<1>2. CASE TickPoll
  BY <1>2 DEF MotionInv, CommandInv, DeadmanBound, StaleBound, EpisodeBound, TickPoll, promptVars
<1>3. CASE TickHalt \/ TickDeadman \/ TickHold \/ TickTimeout
  BY <1>3, MotionDecided DEF TickHalt, TickDeadman, TickHold, TickTimeout
<1>4. CASE TickRun
  BY <1>4, MotionDecided DEF TickRun
<1>5. CASE TickHang
  BY <1>5
  DEF MotionInv, CommandInv, DeadmanBound, StaleBound, EpisodeBound, TickHang, promptVars, OwnExec
<1>6. CASE TickSend
  <2>1. CommandInv'
    BY <1>6 DEF TickSend, CommandInv, OwnExec
  <2>2. CASE armLeft' = armLeft \/ armLeft' = 0
    BY <1>6, <2>1, <2>2
    DEF MotionInv, DeadmanBound, StaleBound, EpisodeBound, TickSend, promptVars, execVars
  <2>3. CASE tickCmd = "move" /\ armLeft' = WatchdogTicks
    <3>1. /\ prompt.standalone \/ promptAge <= DeadmanTicks
          /\ obsAge <= StaleTicks
          /\ episodeAge <= EpisodeTicks \/ episodeAge \in {0, NeverBegun}
      BY <1>6, <2>3 DEF MotionInv, CommandInv, TickSend, TickExec
    <3> QED
      BY <1>6, <2>1, <2>3, <3>1, ConstantsAssumption, Caps
      DEF MotionInv, DeadmanBound, StaleBound, EpisodeBound, TickSend, promptVars, execVars,
          TypeOK, PromptOK, ExecOK
  <2> QED
    BY <1>6, <2>2, <2>3 DEF TickSend, Sent
<1> QED
  BY <1>1, <1>2, <1>3, <1>4, <1>5, <1>6 DEF Tick

LEMMA MotionGoal ==
  ASSUME TypeOK, MotionInv, NEW g \in Goals, GoalStep(g)
  PROVE  MotionInv'
<1>1. CASE \/ AcceptGoal(g) \/ RejectGoal(g) \/ Execute(g) \/ LoadClose(g) \/ LoadFails(g)
           \/ SetupFails(g) \/ BeginStatus(g) \/ LoopCancel(g) \/ LoopExit(g)
  BY <1>1, MotionFrame
  DEF AcceptGoal, RejectGoal, Execute, LoadClose, LoadFails, SetupFails, BeginStatus, LoopCancel,
      LoopExit, motionVars, execVars
<1>2. CASE LoadOk(g)
  <2>1. CommandInv'
    <3>1. TickExec \in Executors
      BY ExecType
    <3>2. CASE tickPc \in {"polled", "decided"}
      <4>1. tickExec' = [TickExec EXCEPT !.replaced = TRUE]
        BY <1>2, <3>2 DEF LoadOk
      <4>2. tickExec'.replaced /\ TickExec'.age = TickExec.age
        BY <3>1, <4>1 DEF TickExec, Executors
      <4> QED
        BY <1>2, <3>2, <4>2 DEF LoadOk, MotionInv, CommandInv, promptVars
    <3>3. CASE tickPc \notin {"polled", "decided"}
      BY <1>2, <3>3 DEF LoadOk, MotionInv, CommandInv, promptVars
    <3> QED
      BY <3>2, <3>3
  <2> QED
    BY <1>2, <2>1
    DEF LoadOk, MotionInv, DeadmanBound, StaleBound, EpisodeBound, promptVars
<1>3. CASE RunPrompt(g)
  BY <1>3, ConstantsAssumption, Caps
  DEF RunPrompt, MotionInv, CommandInv, DeadmanBound, StaleBound, EpisodeBound, TickExec, tickVars,
      execVars, TypeOK
<1>4. CASE BeginClock(g)
  BY <1>4, ConstantsAssumption, Caps
  DEF BeginClock, MotionInv, CommandInv, DeadmanBound, StaleBound, EpisodeBound, TickExec, tickVars,
      promptVars, TypeOK
<1>6. CASE OutdatedClock(g)
  <2>1. tickExec \in Executors
    BY DEF TypeOK, TickOK
  <2>2. CommandInv'
    BY <1>6, <2>1, ConstantsAssumption, Caps
    DEF OutdatedClock, MotionInv, CommandInv, TickExec, Executors, execVars, promptVars
  <2> QED
    BY <1>6, <2>2
    DEF OutdatedClock, MotionInv, DeadmanBound, StaleBound, EpisodeBound, execVars, promptVars
<1>5. CASE RunEnd(g) \/ Close(g)
  BY <1>5, MotionStop DEF RunEnd, Close, execVars, promptVars
<1> QED
  BY <1>1, <1>2, <1>3, <1>4, <1>5, <1>6 DEF GoalStep

LEMMA MotionStep == TypeOK /\ MotionInv /\ [Next]_vars => MotionInv'
<1> SUFFICES ASSUME TypeOK, MotionInv, [Next]_vars PROVE MotionInv'
  OBVIOUS
<1>1. CASE UNCHANGED vars
  BY <1>1, MotionFrame DEF vars, motionVars, execVars
<1>2. CASE Observe
  BY <1>2, ConstantsAssumption, Caps
  DEF Observe, MotionInv, CommandInv, DeadmanBound, StaleBound, EpisodeBound, TickExec, tickVars,
      promptVars, execVars, TypeOK
<1>3. ASSUME NEW m \in ManagerPrompts, OnTaskState(m) PROVE MotionInv'
  BY <1>3, ConstantsAssumption, Caps
  DEF OnTaskState, MotionInv, CommandInv, DeadmanBound, StaleBound, EpisodeBound, TickExec, tickVars,
      execVars, TypeOK
<1>4. CASE WorkerPut \/ WorkerFail \/ WorkerClear
  BY <1>4, MotionFrame DEF WorkerPut, WorkerFail, WorkerClear, motionVars, execVars
<1> QED
  BY <1>1, <1>2, <1>3, <1>4, MotionElapse, MotionTick, MotionGoal DEF Next

(* Whatever the threads of the node do, the arm moves neither on a dead
   manager's prompt, nor on a stale observation, nor in an episode whose time
   is over, for longer than one velocity command. *)
THEOREM MotionBounded == Spec => []MotionLimits
<1>1. MotionInv => MotionLimits
  BY DEF MotionInv, MotionLimits
<1> QED
  BY <1>1, TypeCorrect, MotionInit, MotionStep, PTL DEF Spec

(* A decided move is still admissible when it is sent, by the prompt, the
   observation and the clock of the executor that decided, although a reload may
   replace that executor at any moment of the tick (policy_node.py:336-354). *)
THEOREM CommandAdmissible == Spec => []CommandInv
<1>1. MotionInv => CommandInv
  BY DEF MotionInv
<1> QED
  BY <1>1, TypeCorrect, MotionInit, MotionStep, PTL DEF Spec
-----------------------------------------------------------------------------

-----------------------------------------------------------------------------
(* The values that are sent (ActionSafety).                                *)

\* A product grows with its factor.
LEMMA TimesSucc == ASSUME NEW m \in Nat, NEW n \in Nat PROVE m * (n + 1) = m * n + m
  OBVIOUS

LEMMA TimesMono ==
  ASSUME NEW m \in Nat, NEW a \in Nat, NEW b \in Nat, a <= b
  PROVE  m * a \in Nat /\ m * b \in Nat /\ m * a <= m * b
<1>1. b - a \in Nat /\ b = a + (b - a)
  OBVIOUS
<1>2. m * (b - a) \in Nat /\ m * a \in Nat /\ m * b \in Nat
  BY <1>1
<1>3. m * b = m * a + m * (b - a)
  BY <1>1
<1>4. QED
  BY <1>2, <1>3

\* Every command keeps to the speed limit, and is within one change of the last
\* one or nearer to standing still.
LEMMA CommandLimits ==
  ASSUME NEW v \in Int, last \in -MaxSpeed..MaxSpeed
  PROVE  /\ Command(v) \in -MaxSpeed..MaxSpeed
         /\ Abs(Command(v)) <= Abs(last) + MaxChange
         /\ Abs(Command(v)) \in Nat /\ Abs(last) \in Nat
<1>1. MaxSpeed \in Nat /\ MaxChange \in Nat
  BY ActionAssumption
<1>2. /\ Limited(v) \in -MaxSpeed..MaxSpeed
      /\ Abs(Limited(v)) <= Abs(last) + MaxChange
  BY <1>1 DEF Limited, Clip, Abs
<1>3. Command(v) = 0 \/ Command(v) = Limited(v)
  BY DEF Command
<1>4. QED
  BY <1>1, <1>2, <1>3 DEF Abs

\* Nothing is sent outward where the observation is at the edge or beyond it.
LEMMA CommandInward ==
  ASSUME NEW v \in Int, last \in -MaxSpeed..MaxSpeed, seen \in Int
  PROVE  (Command(v) > 0 => seen < High) /\ (Command(v) < 0 => seen > Low)
<1>1. MaxSpeed \in Nat /\ MaxChange \in Nat /\ Low \in Int /\ High \in Int
  BY ActionAssumption
<1>2. Limited(v) \in Int
  BY <1>1 DEF Limited, Clip
<1>3. CASE Outward(Limited(v))
  BY <1>3 DEF Command
<1>4. CASE ~Outward(Limited(v))
  BY <1>1, <1>2, <1>4 DEF Command, Outward
<1>5. QED
  BY <1>3, <1>4

-----------------------------------------------------------------------------
(* Types, the speed limit among them, hold of whatever is sent.             *)
THEOREM ActionTypes == ActionSpec => []ActionTypeOK
<1> USE ActionAssumption
<1>1. ActionInit => ActionTypeOK
  <2> SUFFICES ASSUME ActionInit PROVE ActionTypeOK
    OBVIOUS
  <2>1. sure \in BOOLEAN
    BY Zenon DEF ActionInit
  <2>2. jaws \in Jaws /\ grip \in Jaws /\ ticked \in BOOLEAN
    BY DEF ActionInit, Jaws
  <2>3. /\ last = 0 /\ drive = 0 /\ left = 0 /\ missed = 0 /\ lag = 0
        /\ place \in Low..High /\ seen = place
    BY DEF ActionInit
  <2>4. place \in Int /\ seen \in Int
    BY <2>3
  <2>5. QED
    BY <2>1, <2>2, <2>3, <2>4 DEF ActionTypeOK
<1>2. ActionTypeOK /\ [ActionNext]_actionVars => ActionTypeOK'
  <2> SUFFICES ASSUME ActionTypeOK, [ActionNext]_actionVars PROVE ActionTypeOK'
    OBVIOUS
  <2>1. ASSUME NEW v \in Speeds, NEW g \in Jaws \cup {"hold"}, TickAct(v, g)
        PROVE  ActionTypeOK'
    <3>1. v \in Int
      OBVIOUS
    <3>2. Command(v) \in -MaxSpeed..MaxSpeed
      BY <3>1, CommandLimits DEF ActionTypeOK
    <3>3. Deliver(Command(v)) /\ Aim(g) /\ last' = Command(v) /\ ticked' = TRUE
          /\ UNCHANGED <<place, seen, lag>>
      BY <2>1 DEF TickAct
    <3>4. /\ last' \in -MaxSpeed..MaxSpeed /\ drive' \in -MaxSpeed..MaxSpeed
          /\ left' \in 0..WatchTicks /\ missed' \in Nat
      BY <3>2, <3>3 DEF Deliver, ActionTypeOK
    <3>5. grip' \in Jaws /\ jaws' \in Jaws /\ sure' \in BOOLEAN
      BY <3>3 DEF Aim, ActionTypeOK
    <3>6. QED
      BY <3>3, <3>4, <3>5 DEF ActionTypeOK
  <2>2. CASE Stop
    BY <2>2 DEF Stop, Deliver, ActionTypeOK
  <2>3. CASE BeginEpisode
    BY <2>3 DEF BeginEpisode, ActionTypeOK
  <2>4. CASE Look
    BY <2>4 DEF Look, ActionTypeOK
  <2>5. CASE Period
    <3>1. left' \in 0..WatchTicks /\ missed' \in Nat /\ drive' \in -MaxSpeed..MaxSpeed
      BY <2>5 DEF Period, ActionTypeOK
    <3>2. place' \in Int /\ lag' \in 0..(MaxLag + 1)
      BY <2>5 DEF Period, ActionTypeOK
    <3>3. ticked' \in BOOLEAN /\ UNCHANGED <<last, grip, seen, jaws, sure>>
      BY <2>5 DEF Period
    <3>4. QED
      BY <3>1, <3>2, <3>3 DEF ActionTypeOK
  <2>6. CASE UNCHANGED actionVars
    BY <2>6 DEF actionVars, ActionTypeOK
  <2>7. QED
    BY <2>1, <2>2, <2>3, <2>4, <2>5, <2>6 DEF ActionNext
<1>3. QED
  BY <1>1, <1>2, PTL DEF ActionSpec

-----------------------------------------------------------------------------
\* While an observation may be used, the arm is no further from it than its age allows.
Drift == lag <= MaxLag => /\ place - seen <= MaxSpeed * lag
                          /\ seen - place <= MaxSpeed * lag

\* What the driver still executes leaves it short of the bound.
Within == /\ StaysNear
          /\ left = 0 => drive = 0
          /\ drive > 0 => place + MaxSpeed * left < High + Reach
          /\ drive < 0 => Low - Reach < place - MaxSpeed * left

LEMMA ReachPositive == Reach > 0
<1>1. MaxSpeed \in Nat \ {0} /\ MaxLag \in Nat /\ WatchTicks \in Nat \ {0}
  BY ActionAssumption
<1>2. MaxSpeed * MaxLag \in Nat
  BY <1>1
<1>3. MaxSpeed * 1 <= MaxSpeed * WatchTicks /\ MaxSpeed * WatchTicks \in Nat
  BY <1>1, TimesMono
<1>4. QED
  BY <1>1, <1>2, <1>3 DEF Reach

\* A command of a tick that uses the observation ends short of the bound.
LEMMA TickWithin ==
  ASSUME ActionTypeOK, Drift, Within, lag <= MaxLag, NEW v \in Int,
         last' = Command(v), Deliver(Command(v)), UNCHANGED <<place, seen, lag>>
  PROVE  Within'
<1>1. /\ MaxSpeed \in Nat /\ MaxLag \in Nat /\ WatchTicks \in Nat \ {0}
      /\ Low \in Int /\ High \in Int
  BY ActionAssumption
<1>2. /\ place \in Int /\ seen \in Int /\ lag \in Nat /\ left \in Nat
      /\ last \in -MaxSpeed..MaxSpeed
  BY <1>1 DEF ActionTypeOK
<1>3. MaxSpeed * lag <= MaxSpeed * MaxLag /\ MaxSpeed * lag \in Nat /\ MaxSpeed * MaxLag \in Nat
  BY <1>1, <1>2, TimesMono
<1>4. MaxSpeed * WatchTicks \in Nat
  BY <1>1
<1>5. StaysNear'
  BY DEF Within, StaysNear, Reach
<1>6. CASE drive' = drive /\ left' = left
  BY <1>5, <1>6 DEF Within, Reach
<1>7. CASE drive' = Command(v) /\ left' = WatchTicks
  <2>1. left' # 0
    BY <1>1, <1>7
  <2>2. Command(v) > 0 => place < High + MaxSpeed * MaxLag
    BY <1>1, <1>2, <1>3, CommandInward DEF Drift
  <2>3. Command(v) < 0 => Low - MaxSpeed * MaxLag < place
    BY <1>1, <1>2, <1>3, CommandInward DEF Drift
  <2>4. drive' > 0 => place' + MaxSpeed * left' < High + Reach
    BY <1>1, <1>2, <1>3, <1>4, <1>7, <2>2 DEF Reach
  <2>5. drive' < 0 => Low - Reach < place' - MaxSpeed * left'
    BY <1>1, <1>2, <1>3, <1>4, <1>7, <2>3 DEF Reach
  <2>6. QED
    BY <1>5, <2>1, <2>4, <2>5 DEF Within, Reach
<1>8. QED
  BY <1>6, <1>7 DEF Deliver

\* A period brings the arm nearer to the bound by no more than the watchdog gives up.
LEMMA PeriodWithin ==
  ASSUME ActionTypeOK, Within, Period
  PROVE  Within'
<1>1. /\ MaxSpeed \in Nat /\ MaxLag \in Nat /\ WatchTicks \in Nat
      /\ Low \in Int /\ High \in Int
  BY ActionAssumption
<1>2. Reach \in Int
  BY <1>1 DEF Reach
<1>3. /\ place \in Int /\ left \in Nat /\ drive \in Int
      /\ drive <= MaxSpeed /\ -MaxSpeed <= drive /\ place' = place + drive
  BY <1>1 DEF ActionTypeOK, Period
<1>4. CASE left = 0
  <2>1. drive = 0 /\ drive' = 0 /\ left' = 0 /\ place' = place
    BY <1>3, <1>4 DEF Within, Period
  <2>2. QED
    BY <2>1 DEF Within, StaysNear, Reach
<1>5. CASE left # 0
  <2>1. left - 1 \in Nat /\ left' = left - 1
    BY <1>3, <1>5 DEF Period
  <2>2. MaxSpeed * left = MaxSpeed * (left - 1) + MaxSpeed /\ MaxSpeed * (left - 1) \in Nat
    <3>1. MaxSpeed * ((left - 1) + 1) = MaxSpeed * (left - 1) + MaxSpeed
      BY <1>1, <2>1, TimesSucc
    <3>2. (left - 1) + 1 = left
      BY <1>3
    <3>3. MaxSpeed * (left - 1) \in Nat
      BY <1>1, <2>1, TimesMono
    <3>4. QED
      BY <3>1, <3>2, <3>3
  <2>3. drive > 0 => place + drive + MaxSpeed * (left - 1) < High + Reach
    BY <1>1, <1>2, <1>3, <2>2 DEF Within
  <2>4. drive < 0 => Low - Reach < place + drive - MaxSpeed * (left - 1)
    BY <1>1, <1>2, <1>3, <2>2 DEF Within
  <2>5. place' < High + Reach
    BY <1>1, <1>2, <1>3, <2>2, <2>3 DEF Within, StaysNear
  <2>6. Low - Reach < place'
    BY <1>1, <1>2, <1>3, <2>2, <2>4 DEF Within, StaysNear
  <2>7. (drive' = 0 \/ drive' = drive) /\ (left' = 0 => drive' = 0)
    BY <1>3, <1>5, <2>1 DEF Period
  <2>8. StaysNear'
    BY <2>5, <2>6 DEF StaysNear, Reach
  <2>9. drive' > 0 => place' + MaxSpeed * left' < High + Reach
    BY <1>1, <1>2, <1>3, <2>1, <2>2, <2>3, <2>7
  <2>10. drive' < 0 => Low - Reach < place' - MaxSpeed * left'
    BY <1>1, <1>2, <1>3, <2>1, <2>2, <2>4, <2>7
  <2>11. QED
    BY <2>7, <2>8, <2>9, <2>10 DEF Within, Reach
<1>6. QED
  BY <1>4, <1>5

\* The arm drifts from what was seen by no more than its speed limit a period.
LEMMA PeriodDrift ==
  ASSUME ActionTypeOK, Drift, Period
  PROVE  Drift'
<1>1. MaxSpeed \in Nat /\ MaxLag \in Nat
  BY ActionAssumption
<1>2. /\ place \in Int /\ seen \in Int /\ lag \in Nat
      /\ drive <= MaxSpeed /\ -MaxSpeed <= drive /\ drive \in Int
      /\ place' = place + drive /\ seen' = seen
  BY <1>1 DEF ActionTypeOK, Period
<1>3. SUFFICES ASSUME lag' <= MaxLag
               PROVE  place' - seen' <= MaxSpeed * lag' /\ seen' - place' <= MaxSpeed * lag'
  BY DEF Drift
<1>4. lag <= MaxLag /\ lag' = lag + 1
  BY <1>1, <1>2, <1>3 DEF Period
<1>5. MaxSpeed * lag' = MaxSpeed * lag + MaxSpeed /\ MaxSpeed * lag \in Nat
  BY <1>1, <1>2, <1>4, TimesSucc
<1>6. QED
  BY <1>1, <1>2, <1>4, <1>5 DEF Drift

(* The arm leaves the workspace by less than Reach, whatever is lost.       *)
THEOREM ActionStaysNear == ActionSpec => []StaysNear
<1>1. ActionInit => Drift /\ Within
  <2>1. /\ MaxSpeed \in Nat /\ MaxLag \in Nat /\ WatchTicks \in Nat \ {0}
        /\ Low \in Int /\ High \in Int
    BY ActionAssumption
  <2>2. MaxSpeed * MaxLag \in Nat /\ MaxSpeed * WatchTicks \in Nat
    BY <2>1
  <2>3. SUFFICES ASSUME ActionInit PROVE Drift /\ Within
    OBVIOUS
  <2>4. /\ place \in Int /\ Low <= place /\ place <= High /\ seen = place /\ lag = 0
        /\ drive = 0 /\ left = 0
    BY <2>1, <2>3 DEF ActionInit
  <2>5. Drift
    BY <2>1, <2>4 DEF Drift
  <2>6. Reach > 0
    BY <2>1, <2>2, ReachPositive
  <2>7. QED
    BY <2>1, <2>2, <2>4, <2>5, <2>6 DEF Within, StaysNear, Reach
<1>2. ActionTypeOK /\ Drift /\ Within /\ [ActionNext]_actionVars => Drift' /\ Within'
  <2> SUFFICES ASSUME ActionTypeOK, Drift, Within, [ActionNext]_actionVars
               PROVE  Drift' /\ Within'
    OBVIOUS
  <2>1. ASSUME NEW v \in Speeds, NEW g \in Jaws \cup {"hold"}, TickAct(v, g)
        PROVE  Drift' /\ Within'
    <3>1. v \in Int
      BY ActionAssumption
    <3>2. Drift'
      BY <2>1 DEF TickAct, Drift
    <3>3. Within'
      BY <2>1, <3>1, TickWithin DEF TickAct
    <3>4. QED
      BY <3>2, <3>3
  <2>2. CASE Stop
    <3>1. Drift'
      BY <2>2 DEF Stop, Drift
    <3>2. place' = place /\ (drive' = 0 \/ (drive' = drive /\ left' = left))
      BY <2>2 DEF Stop, Deliver
    <3>3. QED
      BY <3>1, <3>2 DEF Within, StaysNear, Reach
  <2>3. CASE BeginEpisode
    BY <2>3 DEF BeginEpisode, Drift, Within, StaysNear, Reach
  <2>4. CASE Look
    <3>1. MaxSpeed \in Nat /\ MaxLag \in Nat
      BY ActionAssumption
    <3>2. lag' \in Nat /\ place' = place /\ seen' = place /\ place \in Int
      BY <2>4, <3>1 DEF Look, ActionTypeOK
    <3>3. MaxSpeed * lag' \in Nat
      <4> DEFINE n == lag'
      <4>1. n \in Nat /\ n <= n
        BY <3>2
      <4>2. MaxSpeed * n \in Nat
        BY <3>1, <4>1, TimesMono
      <4>3. QED
        BY <4>2
    <3>4. Drift'
      BY <3>2, <3>3 DEF Drift
    <3>5. Within'
      BY <2>4 DEF Look, Within, StaysNear, Reach
    <3>6. QED
      BY <3>4, <3>5
  <2>5. CASE Period
    BY <2>5, PeriodDrift, PeriodWithin
  <2>6. CASE UNCHANGED actionVars
    BY <2>6 DEF actionVars, Drift, Within, StaysNear, Reach
  <2>7. QED
    BY <2>1, <2>2, <2>3, <2>4, <2>5, <2>6 DEF ActionNext
<1>3. Within => StaysNear
  BY DEF Within
<1>4. QED
  BY <1>1, <1>2, <1>3, ActionTypes, PTL DEF ActionSpec

(* The limits hold for the arm, whatever the policy asks, however old the    *)
(* observations are and whichever calls the driver drops.                    *)
THEOREM ActionLimitsHold == ActionSpec => []LimitsHold
<1>1. ActionTypeOK /\ StaysNear => LimitsHold
  BY DEF LimitsHold
<1> QED
  BY <1>1, ActionTypes, ActionStaysNear, PTL

-----------------------------------------------------------------------------
\* The driver lags the commands by no more than one change for each it missed.
Near == left > 0 => Abs(last) <= Abs(drive) + missed * MaxChange

LEMMA NearInit == ActionInit => Near
  BY DEF ActionInit, Near

(* A command the driver gets is faster than the one it executes by at most  *)
(* one change for each it missed, and one.                                  *)
THEOREM ActionNoSurge == ActionSpec => NoSurge
<1>1. ActionTypeOK /\ Near /\ [ActionNext]_actionVars
      => Near' /\ (left > 0 => Abs(drive') <= Abs(drive) + (missed + 1) * MaxChange)
  <2> SUFFICES ASSUME ActionTypeOK, Near, [ActionNext]_actionVars
               PROVE  /\ Near'
                      /\ left > 0 => Abs(drive') <= Abs(drive) + (missed + 1) * MaxChange
    OBVIOUS
  <2>1. /\ MaxSpeed \in Nat /\ MaxChange \in Nat /\ WatchTicks \in Nat \ {0}
        /\ last \in Int /\ drive \in Int /\ left \in Nat /\ missed \in Nat
    BY ActionAssumption DEF ActionTypeOK
  <2>2. /\ (missed + 1) * MaxChange = missed * MaxChange + MaxChange
        /\ missed * MaxChange \in Nat
    BY <2>1
  <2>3. Abs(last) \in Nat /\ Abs(drive) \in Nat /\ Abs(0) = 0
    BY <2>1 DEF Abs
  <2>4. ASSUME NEW v \in Speeds, NEW g \in Jaws \cup {"hold"}, TickAct(v, g)
        PROVE  /\ Near'
               /\ left > 0 => Abs(drive') <= Abs(drive) + (missed + 1) * MaxChange
    <3>1. Abs(Command(v)) <= Abs(last) + MaxChange /\ Abs(Command(v)) \in Nat
      BY CommandLimits, ActionAssumption DEF ActionTypeOK
    <3>2. last' = Command(v) /\ Deliver(Command(v))
      BY <2>4 DEF TickAct
    <3>3. CASE drive' = Command(v) /\ left' = WatchTicks /\ missed' = 0
      BY <2>1, <2>2, <2>3, <3>1, <3>2, <3>3 DEF Near
    <3>4. CASE /\ drive' = drive /\ left' = left
               /\ missed' = IF Command(v) = 0 \/ left = 0 THEN 0 ELSE missed + 1
      BY <2>1, <2>2, <2>3, <3>1, <3>2, <3>4 DEF Near
    <3>5. QED
      BY <3>2, <3>3, <3>4 DEF Deliver
  <2>5. CASE Stop
    BY <2>1, <2>2, <2>3, <2>5 DEF Stop, Deliver, Near
  <2>6. CASE BeginEpisode
    BY <2>1, <2>2, <2>3, <2>6 DEF BeginEpisode, Near
  <2>7. CASE Look
    BY <2>1, <2>2, <2>3, <2>7 DEF Look, Near
  <2>8. CASE Period
    BY <2>1, <2>2, <2>3, <2>8 DEF Period, Near
  <2>9. CASE UNCHANGED actionVars
    BY <2>1, <2>2, <2>3, <2>9 DEF actionVars, Near
  <2>10. QED
    BY <2>4, <2>5, <2>6, <2>7, <2>8, <2>9 DEF ActionNext
<1>2. QED
  BY <1>1, NearInit, ActionTypes, PTL DEF ActionSpec, NoSurge

-----------------------------------------------------------------------------
(* The gripper was told what is believed of it.                             *)
THEOREM ActionGripperFollows == ActionSpec => []GripperFollows
<1>1. ActionInit => GripperFollows
  BY DEF ActionInit, GripperFollows
<1>2. GripperFollows /\ [ActionNext]_actionVars => GripperFollows'
  BY DEF GripperFollows, ActionNext, TickAct, Aim, Stop, BeginEpisode, Look, Period, actionVars
<1>3. QED
  BY <1>1, <1>2, PTL DEF ActionSpec
-----------------------------------------------------------------------------

-----------------------------------------------------------------------------
(* The single-node policies.                                               *)

USE SizesAssumption, CarefulAssumption, NoGoalAssumption
    DEF SizesAssumption, CarefulAssumption, NoGoalAssumption

UnderWay(g) == pc[g] \notin {"unsent", "released", "leaving", "done"}

\* An answer is handled by one thread, and what it read was not too high.
CountInv ==
  /\ cb = {} \/ \E n \in Nat : cb = {n}
  /\ client # "closed" =>
       /\ \A n \in cb : n <= Len(calls) + 1
       /\ inflight <= Len(calls) + (IF cb = {} THEN 0 ELSE 1)

\* With clients that wait, one goal is under way; its loop finds an empty queue
\* or actions of its own.
OneInv ==
  Careful =>
    /\ \A g, h \in Episodes : UnderWay(g) /\ UnderWay(h) => g = h
    /\ \A g \in Holding : holder = g
    /\ \A g \in Episodes : pc[g] \in {"top", "act"} => queue.left = 0 \/ queue.by = g
    /\ ~foreign

QueueInv == QueueTypeOK /\ CountInv /\ OneInv /\ StatusSettles

-----------------------------------------------------------------------------
(* pi05_node repeats smolvla_node: a checkpoint of another kind is a set-up  *)
(* that is refused.                                                          *)
LEMMA SameSteps == [PI05Next]_queueVars => [QueueNext]_queueVars
<1>1. ASSUME NEW g \in Episodes, PI05Reload(g) PROVE Episode(g)
  BY <1>1 DEF PI05Reload, Episode
<1>2. ASSUME NEW g \in Episodes, PI05Execute(g) \/ PI05Setup(g) \/ PI05Run(g) \/ PI05Infer(g)
      PROVE  Episode(g)
  BY <1>2 DEF PI05Execute, PI05Setup, PI05Run, PI05Infer, Episode
<1>3. ASSUME NEW g \in Episodes, PI05OnGoal(g) \/ PI05OnCancel(g) PROVE QueueNext
  BY <1>3 DEF PI05OnGoal, PI05OnCancel, QueueNext
<1>4. PI05OnVelDone \/ MoveExpires \/ PI05Callback \/ PI05Shutdown => QueueNext
  BY DEF PI05OnVelDone, PI05Callback, PI05Shutdown, QueueNext
<1> QED BY <1>1, <1>2, <1>3, <1>4 DEF PI05Next, PI05Episode, QueueNext

-----------------------------------------------------------------------------
(* Types.                                                                  *)

(* A command that is sent or dropped. *)
LEMMA SendTyped ==
  ASSUME QueueTypeOK, NEW cmd \in {"move", "stop"}, Out(cmd)
  PROVE  /\ inflight' \in Nat /\ calls' \in Seq({"move", "stop"})
         /\ UNCHANGED <<cb, arm, client>>
         /\ \/ UNCHANGED <<calls, inflight>>
            \/ Len(calls') = Len(calls) + 1 /\ inflight' = inflight + 1
<1>1. inflight \in Nat /\ calls \in Seq({"move", "stop"})
  BY DEF QueueTypeOK
<1> QED BY SMTT(30), <1>1 DEF Out, Send

(* What every step of an episode does to the commands. *)
LEMMA EpisodeSends ==
  ASSUME QueueTypeOK, NEW g \in Episodes, OnGoal(g) \/ OnCancel(g) \/ Episode(g)
  PROVE  /\ inflight' \in Nat /\ calls' \in Seq({"move", "stop"})
         /\ UNCHANGED <<cb, arm, client, obs>>
         /\ \/ UNCHANGED <<calls, inflight>>
            \/ Len(calls') = Len(calls) + 1 /\ inflight' = inflight + 1
<1>0. inflight \in Nat /\ calls \in Seq({"move", "stop"})
  BY DEF QueueTypeOK
<1>1. CASE Silent /\ obs' = obs
  BY <1>0, <1>1 DEF Silent, driver
<1>2. CASE (Out("move") \/ Out("stop")) /\ obs' = obs
  BY <1>2, SendTyped
<1>3. OnGoal(g) \/ OnCancel(g) => Silent /\ obs' = obs
  BY DEF OnGoal, OnCancel
<1>4. ActStale(g) \/ ActQueue(g) \/ End(g) \/ LastStop(g) => (Out("move") \/ Out("stop")) /\ obs' = obs
  BY DEF ActStale, ActQueue, End, LastStop
<1>5. \/ ExecuteEpisode(g) \/ KeepRunner(g) \/ Reload(g) \/ SetupRefused(g) \/ Begin(g) \/ Stopped(g)
      \/ TimeIsUp(g) \/ Pass(g) \/ InferFails(g) \/ RunRaises(g) \/ Release(g) \/ Leave(g)
      => Silent /\ obs' = obs
  BY DEF ExecuteEpisode, KeepRunner, Reload, SetupRefused, Begin, Stopped, TimeIsUp, Pass, InferFails, RunRaises,
     Release, Leave
<1> QED BY <1>1, <1>2, <1>3, <1>4, <1>5 DEF Episode, Finally

(* What every other step leaves alone. *)
LEMMA OthersLeave ==
  ASSUME DriverExecutes \/ MoveExpires \/ AnswerWrite \/ (\E to \in {"fresh", "stale"} : Hear(to))
         \/ Shutdown \/ CloseClient \/ UNCHANGED queueVars
  PROVE  UNCHANGED <<pc, passes, canceled, holder, shownStatus, queue, foreign>>
<1>1. CASE DriverExecutes \/ MoveExpires \/ AnswerWrite \/ CloseClient
  BY <1>1 DEF DriverExecutes, MoveExpires, AnswerWrite, CloseClient, episodeVars
<1>2. CASE \E to \in {"fresh", "stale"} : Hear(to)
  BY <1>2 DEF Hear, episodeVars
<1>3. CASE Shutdown \/ UNCHANGED queueVars
  BY <1>3 DEF Shutdown, queueVars
<1> QED BY <1>1, <1>2, <1>3

(* Every step keeps the types. *)
LEMMA QueueTypeStep == QueueTypeOK /\ [QueueNext]_queueVars => QueueTypeOK'
<1> SUFFICES ASSUME QueueTypeOK, [QueueNext]_queueVars PROVE QueueTypeOK'
  OBVIOUS
<1>0. /\ pc \in [Episodes -> Pcs] /\ passes \in [Episodes -> 0..MaxPasses]
      /\ canceled \in [Episodes -> BOOLEAN] /\ holder \in Episodes \cup {Nobody}
      /\ stopFlag \in BOOLEAN /\ shownStatus \in {"idle", "running", "stopped", "aborted"}
      /\ queue \in [left : 0..ChunkLen, by : Episodes \cup {Nobody}]
      /\ obs \in {"none", "fresh", "stale"} /\ inflight \in Nat
      /\ calls \in Seq({"move", "stop"}) /\ cb \in SUBSET Nat
      /\ arm \in {"still", "moving"} /\ client \in {"up", "stopping", "closed"}
      /\ foreign \in BOOLEAN
  BY DEF QueueTypeOK
<1>1. ASSUME NEW g \in Episodes, OnGoal(g) \/ OnCancel(g) \/ Episode(g) PROVE QueueTypeOK'
  <2>1. pc' \in [Episodes -> Pcs]
    <3>1. \E to \in Pcs : pc' = [pc EXCEPT ![g] = to]
      <4>1. CASE OnGoal(g)
        BY <4>1 DEF OnGoal, Go, Pcs
      <4>2. CASE OnCancel(g)
        <5>1. pc' = [pc EXCEPT ![g] = pc[g]] /\ pc[g] \in Pcs
          BY <1>0, <4>2 DEF OnCancel
        <5> QED BY <5>1
      <4>3. CASE Episode(g)
        BY <4>3 DEF Episode, ExecuteEpisode, KeepRunner, Reload, SetupRefused, Begin, Stopped, TimeIsUp, Pass,
           ActStale, ActQueue, InferFails, RunRaises, End, Finally, Release, LastStop, Leave,
           Go, Pcs
      <4> QED BY <1>1, <4>1, <4>2, <4>3
    <3> QED BY <1>0, <3>1
  <2>2. passes' \in [Episodes -> 0..MaxPasses]
    <3>1. CASE Pass(g)
      <4>1. passes[g] + 1 \in 0..MaxPasses /\ passes' = [passes EXCEPT ![g] = passes[g] + 1]
        BY <1>0, <3>1 DEF Pass
      <4> QED BY <1>0, <4>1
    <3>2. CASE Finally(g)
      <4>1. 0 \in 0..MaxPasses /\ passes' \in {passes, [passes EXCEPT ![g] = 0]}
        BY <3>2 DEF Finally, Release, LastStop, Leave, Forget
      <4> QED BY <1>0, <4>1
    <3>3. CASE ~Pass(g) /\ ~Finally(g)
      BY <1>0, <1>1, <3>3 DEF OnGoal, OnCancel, Episode, ExecuteEpisode, KeepRunner, Reload, SetupRefused, Begin,
         Stopped, TimeIsUp, ActStale, ActQueue, InferFails, RunRaises, End
    <3> QED BY <3>1, <3>2, <3>3
  <2>3. canceled' \in [Episodes -> BOOLEAN]
    <3>1. canceled' \in {canceled, [canceled EXCEPT ![g] = TRUE], [canceled EXCEPT ![g] = FALSE]}
      BY <1>1 DEF OnGoal, OnCancel, Episode, ExecuteEpisode, KeepRunner, Reload, SetupRefused, Begin,
         Stopped, TimeIsUp, Pass, ActStale, ActQueue, InferFails, RunRaises, End, Finally, Release, LastStop, Leave, Forget
    <3> QED BY <1>0, <3>1
  <2>4. holder' \in Episodes \cup {Nobody} /\ stopFlag' \in BOOLEAN
    BY <1>0, <1>1 DEF OnGoal, OnCancel, Episode, ExecuteEpisode, KeepRunner, Reload, SetupRefused, Begin,
       Stopped, TimeIsUp, Pass, ActStale, ActQueue, InferFails, RunRaises, End, Finally, Release, LastStop, Leave
  <2>5. shownStatus' \in {"idle", "running", "stopped", "aborted"}
    BY <1>0, <1>1 DEF OnGoal, OnCancel, Episode, ExecuteEpisode, KeepRunner, Reload, SetupRefused, Begin,
       Stopped, TimeIsUp, Pass, ActStale, ActQueue, InferFails, RunRaises, End, Finally, Release, LastStop, Leave
  <2>6. queue' \in [left : 0..ChunkLen, by : Episodes \cup {Nobody}] /\ foreign' \in BOOLEAN
    <3>1. CASE ActQueue(g)
      <4> DEFINE full == IF queue.left = 0 THEN [left |-> ChunkLen, by |-> g] ELSE queue
      <4>1. queue' = [full EXCEPT !.left = full.left - 1] /\ foreign' = (foreign \/ full.by # g)
        BY <3>1 DEF ActQueue
      <4>2. full \in [left : 0..ChunkLen, by : Episodes \cup {Nobody}] /\ full.left \in 1..ChunkLen
        BY <1>0
      <4>3. full.left - 1 \in 0..ChunkLen
        BY <4>2
      <4> HIDE DEF full
      <4> QED BY <1>0, <4>1, <4>2, <4>3
    <3>2. CASE Reload(g) \/ Begin(g)
      <4>1. queue' = [left |-> 0, by |-> Nobody] /\ foreign' = foreign /\ 0 \in 0..ChunkLen
        BY <3>2 DEF Reload, Begin
      <4> QED BY <1>0, <4>1
    <3>3. CASE ~ActQueue(g) /\ ~Reload(g) /\ ~Begin(g)
      BY <1>0, <1>1, <3>3 DEF OnGoal, OnCancel, Episode, ExecuteEpisode, KeepRunner, SetupRefused,
         Stopped, TimeIsUp, Pass, ActStale, InferFails, RunRaises, End, Finally, Release, LastStop, Leave
    <3> QED BY <3>1, <3>2, <3>3
  <2>7. /\ inflight' \in Nat /\ calls' \in Seq({"move", "stop"}) /\ UNCHANGED <<cb, arm, client, obs>>
    BY <1>1, EpisodeSends
  <2> QED BY <1>0, <2>1, <2>2, <2>3, <2>4, <2>5, <2>6, <2>7 DEF QueueTypeOK
<1>2. ASSUME DriverExecutes \/ MoveExpires \/ AnswerWrite \/ (\E to \in {"fresh", "stale"} : Hear(to))
             \/ Shutdown \/ CloseClient \/ UNCHANGED queueVars
      PROVE  QueueTypeOK'
  <2>1. UNCHANGED <<pc, passes, canceled, holder, shownStatus, queue, foreign>>
    BY <1>2, OthersLeave
  <2>2. /\ stopFlag' \in BOOLEAN /\ obs' \in {"none", "fresh", "stale"} /\ inflight' \in Nat
        /\ calls' \in Seq({"move", "stop"}) /\ cb' \in SUBSET Nat
        /\ arm' \in {"still", "moving"} /\ client' \in {"up", "stopping", "closed"}
    <3>1. CASE DriverExecutes
      BY <1>0, <3>1, HeadTailProperties DEF DriverExecutes, episodeVars
    <3>2. CASE AnswerWrite
      <4>1. PICK n \in cb : inflight' = IF n = 0 THEN 0 ELSE n - 1
        BY <3>2 DEF AnswerWrite
      <4>2. inflight' \in Nat
        BY <1>0, <4>1
      <4> QED BY <1>0, <3>2, <4>2 DEF AnswerWrite, episodeVars
    <3>3. CASE MoveExpires \/ CloseClient \/ UNCHANGED queueVars
      BY <1>0, <3>3 DEF MoveExpires, CloseClient, queueVars, episodeVars, driver
    <3>4. CASE \E to \in {"fresh", "stale"} : Hear(to)
      BY <1>0, <3>4 DEF Hear, episodeVars, driver
    <3>5. CASE Shutdown
      <4>1. Append(calls, "stop") \in Seq({"move", "stop"})
        BY <1>0
      <4> QED BY <1>0, <3>5, <4>1 DEF Shutdown
    <3> QED BY <1>2, <3>1, <3>2, <3>3, <3>4, <3>5
  <2> QED BY <1>0, <2>1, <2>2 DEF QueueTypeOK
<1> QED BY <1>1, <1>2 DEF QueueNext

-----------------------------------------------------------------------------
(* The calls in flight.                                                    *)

(* The loop and the answers may both be at the count, without a lock: what *)
(* gets lost is an increment.                                              *)
LEMMA CountStep == QueueTypeOK /\ CountInv /\ [QueueNext]_queueVars => CountInv'
<1> SUFFICES ASSUME QueueTypeOK, CountInv, [QueueNext]_queueVars PROVE CountInv'
  OBVIOUS
<1>0. inflight \in Nat /\ calls \in Seq({"move", "stop"}) /\ Len(calls) \in Nat /\ cb \in SUBSET Nat
  BY DEF QueueTypeOK
<1>1. ASSUME NEW g \in Episodes, OnGoal(g) \/ OnCancel(g) \/ Episode(g) PROVE CountInv'
  <2>1. /\ UNCHANGED <<cb, client>>
        /\ \/ UNCHANGED <<calls, inflight>>
           \/ Len(calls') = Len(calls) + 1 /\ inflight' = inflight + 1
    BY <1>1, EpisodeSends
  <2> QED BY <1>0, <2>1 DEF CountInv
<1>2. CASE DriverExecutes
  <2>1. calls # <<>> /\ cb = {} /\ calls' = Tail(calls) /\ UNCHANGED <<inflight, client>>
        /\ cb' = IF client = "closed" THEN {} ELSE {inflight}
    BY <1>2 DEF DriverExecutes
  <2>2. Len(calls') = Len(calls) - 1
    BY <1>0, <2>1
  <2> QED BY <1>0, <2>1, <2>2 DEF CountInv
<1>3. CASE AnswerWrite
  <2>1. PICK n \in cb : inflight' = IF n = 0 THEN 0 ELSE n - 1
    BY <1>3 DEF AnswerWrite
  <2>2. cb' = {} /\ UNCHANGED <<calls, client>> /\ n \in Nat
    BY <1>0, <1>3 DEF AnswerWrite
  <2> QED BY <1>0, <2>1, <2>2 DEF CountInv
<1>4. CASE Shutdown
  <2>1. UNCHANGED <<inflight, cb>> /\ client # "closed" /\ calls' \in {calls, Append(calls, "stop")}
    BY <1>4 DEF Shutdown
  <2>2. Len(calls') \in {Len(calls), Len(calls) + 1}
    BY <1>0, <2>1
  <2> QED BY <1>0, <2>1, <2>2 DEF CountInv
<1>5. CASE MoveExpires \/ CloseClient \/ (\E to \in {"fresh", "stale"} : Hear(to)) \/ UNCHANGED queueVars
  <2>1. UNCHANGED <<inflight, calls, cb>> /\ (client' = client \/ client' = "closed")
    BY <1>5 DEF MoveExpires, CloseClient, Hear, driver, queueVars
  <2> QED BY <2>1 DEF CountInv
<1> QED BY <1>1, <1>2, <1>3, <1>4, <1>5 DEF QueueNext

-----------------------------------------------------------------------------
(* Episodes.                                                               *)

(* One step moves one episode, and who leaves clears the handle. *)
LEMMA OneStep == QueueTypeOK /\ OneInv /\ [QueueNext]_queueVars => OneInv'
<1> SUFFICES ASSUME QueueTypeOK, OneInv, [QueueNext]_queueVars, Careful PROVE OneInv'
  BY DEF OneInv
<1>0. /\ pc \in [Episodes -> Pcs] /\ queue \in [left : 0..ChunkLen, by : Episodes \cup {Nobody}]
      /\ foreign \in BOOLEAN /\ \A g \in Episodes : g # Nobody
      /\ \A g, h \in Episodes : UnderWay(g) /\ UnderWay(h) => g = h
      /\ \A g \in Holding : holder = g
      /\ \A g \in Episodes : pc[g] \in {"top", "act"} => queue.left = 0 \/ queue.by = g
      /\ ~foreign
  BY DEF QueueTypeOK, OneInv, Episodes
\* A goal that is under way goes on: no other one is.
<1>a. ASSUME NEW g \in Episodes, UnderWay(g), NEW to, pc' = [pc EXCEPT ![g] = to],
             to \notin {"unsent", "accepted", "released", "leaving", "done"} => holder' = g,
             to \in {"top", "act"} => queue'.left = 0 \/ queue'.by = g,
             ~foreign'
      PROVE  OneInv'
  <2>1. \A h \in Episodes : h # g => pc'[h] \in {"unsent", "released", "leaving", "done"}
    BY <1>0, <1>a DEF UnderWay
  <2>2. pc'[g] = to
    BY <1>0, <1>a
  <2> QED BY <1>a, <2>1, <2>2 DEF OneInv, UnderWay, Running, Holding
<1>1. ASSUME NEW g \in Episodes, OnGoal(g) PROVE OneInv'
  <2>1. /\ pc[g] = "unsent" /\ pc' = [pc EXCEPT ![g] = "accepted"] /\ holder = Nobody
        /\ \A h \in Episodes : pc[h] # "accepted"
        /\ UNCHANGED <<holder, queue, foreign>>
    BY <1>1 DEF OnGoal, Go
  <2>2. \A h \in Episodes : pc[h] \in {"unsent", "released", "leaving", "done"}
    BY <1>0, <2>1 DEF Running, Holding
  <2>3. \A h \in Episodes : \/ pc'[h] \in {"unsent", "released", "leaving", "done"}
                            \/ h = g /\ pc'[h] = "accepted"
    BY <1>0, <2>1, <2>2
  <2> QED BY <1>0, <2>1, <2>3 DEF OneInv, UnderWay, Running, Holding
<1>2. ASSUME NEW g \in Episodes, OnCancel(g) PROVE OneInv'
  BY <1>0, <1>2 DEF OnCancel, OneInv, UnderWay, Running, Holding
<1>3. ASSUME NEW g \in Episodes, ExecuteEpisode(g) PROVE OneInv'
  BY <1>0, <1>3, <1>a DEF ExecuteEpisode, Go, UnderWay
<1>4. ASSUME NEW g \in Episodes,
             KeepRunner(g) \/ Reload(g) \/ SetupRefused(g) \/ RunRaises(g) \/ InferFails(g) \/ End(g)
             \/ Stopped(g) \/ TimeIsUp(g)
      PROVE  OneInv'
  <2>1. g \in Holding /\ ~foreign' /\ holder' = holder
    BY <1>0, <1>4 DEF KeepRunner, Reload, SetupRefused, RunRaises, InferFails, End, Stopped, TimeIsUp,
       Running, Holding
  <2>2. \E to \in {"ready", "final", "ended"} : pc' = [pc EXCEPT ![g] = to]
    BY <1>4 DEF KeepRunner, Reload, SetupRefused, RunRaises, InferFails, End, Stopped, TimeIsUp, Go
  <2> QED BY <1>0, <1>a, <2>1, <2>2 DEF Running, Holding, UnderWay
<1>5. ASSUME NEW g \in Episodes, Begin(g) \/ Pass(g) \/ ActStale(g) PROVE OneInv'
  <2>1. g \in Holding /\ ~foreign' /\ holder' = holder /\ (queue'.left = 0 \/ queue'.by = g)
    BY <1>0, <1>5 DEF Begin, Pass, ActStale, Running, Holding
  <2>2. \E to \in {"top", "act"} : pc' = [pc EXCEPT ![g] = to]
    BY <1>5 DEF Begin, Pass, ActStale, Go
  <2> QED BY <1>0, <1>a, <2>1, <2>2 DEF Running, Holding, UnderWay
<1>6. ASSUME NEW g \in Episodes, ActQueue(g) PROVE OneInv'
  <2> DEFINE full == IF queue.left = 0 THEN [left |-> ChunkLen, by |-> g] ELSE queue
  <2>1. /\ queue' = [full EXCEPT !.left = full.left - 1] /\ foreign' = (foreign \/ full.by # g)
        /\ pc' = [pc EXCEPT ![g] = "top"] /\ pc[g] = "act" /\ holder' = holder
    BY <1>6 DEF ActQueue, Go
  <2>2. full \in [left : 0..ChunkLen, by : Episodes \cup {Nobody}] /\ full.by = g
    BY <1>0, <2>1
  <2> HIDE DEF full
  <2>3. queue'.by = g /\ ~foreign'
    BY <1>0, <2>1, <2>2
  <2>4. g \in Holding
    BY <2>1 DEF Running, Holding
  <2> QED BY <1>0, <1>a, <2>1, <2>3, <2>4 DEF Running, Holding, UnderWay
<1>7. ASSUME NEW g \in Episodes, Release(g) PROVE OneInv'
  BY <1>0, <1>7, <1>a DEF Release, Go, UnderWay
\* The last two steps touch what the others look at no more.
<1>9. ASSUME NEW g \in Episodes, LastStop(g) \/ Leave(g) PROVE OneInv'
  <2>1. /\ pc[g] \in {"released", "leaving"} /\ UNCHANGED <<holder, queue, foreign>>
        /\ pc' \in {[pc EXCEPT ![g] = "leaving"], [pc EXCEPT ![g] = "done"]}
    BY <1>9 DEF LastStop, Leave, Go
  <2>2. /\ pc'[g] \in {"leaving", "done"}
        /\ \A h \in Episodes : h # g => pc'[h] = pc[h]
    BY <1>0, <2>1
  <2> QED BY <1>0, <2>1, <2>2 DEF OneInv, UnderWay, Running, Holding
<1>8. ASSUME DriverExecutes \/ MoveExpires \/ AnswerWrite \/ (\E to \in {"fresh", "stale"} : Hear(to))
             \/ Shutdown \/ CloseClient \/ UNCHANGED queueVars
      PROVE  OneInv'
  BY <1>0, <1>8, OthersLeave DEF OneInv, UnderWay, Running, Holding
<1> QED BY <1>1, <1>2, <1>3, <1>4, <1>5, <1>6, <1>7, <1>8, <1>9 DEF QueueNext, Episode, Finally

(* Only an episode that leaves makes the running ones fewer, and it takes   *)
(* the status "running" with it.                                            *)
LEMMA StatusStep == QueueTypeOK /\ StatusSettles /\ [QueueNext]_queueVars => StatusSettles'
<1> SUFFICES ASSUME QueueTypeOK, StatusSettles, [QueueNext]_queueVars, shownStatus' = "running"
             PROVE  Running' # {}
  BY DEF StatusSettles
<1>0. pc \in [Episodes -> Pcs] /\ (shownStatus = "running" => Running # {})
  BY DEF QueueTypeOK, StatusSettles
\* An episode that moves on, but not out.
<1>a. ASSUME NEW g \in Episodes, NEW to \in Pcs \ {"unsent", "accepted", "done"}, pc' = [pc EXCEPT ![g] = to]
      PROVE  Running' # {}
  <2>1. pc'[g] = to
    BY <1>0, <1>a
  <2> QED BY <1>a, <2>1 DEF Running
<1>1. ASSUME NEW g \in Episodes, OnGoal(g) \/ OnCancel(g) PROVE Running' # {}
  <2>1. shownStatus = "running" /\ \A h \in Running : pc'[h] = pc[h]
    BY <1>0, <1>1 DEF OnGoal, OnCancel, Go, Running
  <2> QED BY <1>0, <2>1 DEF Running
<1>2. ASSUME NEW g \in Episodes, Episode(g), ~Leave(g) PROVE Running' # {}
  <2>1. \E to \in {"begun", "ready", "final", "top", "act", "ended", "released", "leaving"} :
          pc' = [pc EXCEPT ![g] = to]
    BY <1>2 DEF Episode, ExecuteEpisode, KeepRunner, Reload, SetupRefused, Begin, Stopped, TimeIsUp, Pass,
       ActStale, ActQueue, InferFails, RunRaises, End, Finally, Release, LastStop, Go
  <2> QED BY <1>a, <2>1 DEF Pcs
<1>3. ASSUME NEW g \in Episodes, Leave(g) PROVE FALSE
  BY <1>3 DEF Leave
<1>4. ASSUME DriverExecutes \/ MoveExpires \/ AnswerWrite \/ (\E to \in {"fresh", "stale"} : Hear(to))
             \/ Shutdown \/ CloseClient \/ UNCHANGED queueVars
      PROVE  Running' # {}
  BY <1>0, <1>4, OthersLeave DEF Running
<1> QED BY <1>1, <1>2, <1>3, <1>4 DEF QueueNext

-----------------------------------------------------------------------------
(* The invariant, and what follows from it.                                *)

LEMMA InitQueue == QueueInit => QueueInv
<1> SUFFICES ASSUME QueueInit PROVE QueueInv
  OBVIOUS
<1>1. QueueTypeOK
  <2>1. <<>> \in Seq({"move", "stop"}) /\ 0 \in 0..MaxPasses /\ 0 \in 0..ChunkLen
    OBVIOUS
  <2>2. /\ pc \in [Episodes -> Pcs] /\ passes \in [Episodes -> 0..MaxPasses]
        /\ canceled \in [Episodes -> BOOLEAN]
        /\ queue \in [left : 0..ChunkLen, by : Episodes \cup {Nobody}]
    BY <2>1 DEF QueueInit, Pcs
  <2> QED BY <2>1, <2>2 DEF QueueInit, QueueTypeOK
<1>2. \A g \in Episodes : pc[g] = "unsent"
  BY DEF QueueInit
<1>3. CountInv /\ StatusSettles
  BY DEF QueueInit, CountInv, StatusSettles
<1>4. OneInv
  BY <1>2 DEF QueueInit, OneInv, UnderWay, Running, Holding
<1> QED BY <1>1, <1>3, <1>4 DEF QueueInv

LEMMA InvStep == QueueInv /\ [PI05Next]_queueVars => QueueInv'
BY SameSteps, QueueTypeStep, CountStep, OneStep, StatusStep DEF QueueInv

LEMMA Invariant == PI05Spec => []QueueInv
BY InitQueue, InvStep, PTL DEF PI05Spec, PI05Init

(* However the loop and the answers interleave at the count of calls in     *)
(* flight, it is never above the calls that are out, so that the limit      *)
(* cannot shut out commands, stops included, for ever                       *)
(* (smolvla_node.py:492-520).                                               *)
THEOREM CountHonest == PI05Spec => []CountBelowCalls
<1>1. QueueInv => CountBelowCalls
  <2> SUFFICES ASSUME QueueInv, client # "closed" PROVE inflight <= Len(calls) + Cardinality(cb)
    BY DEF CountBelowCalls
  <2>1. cb = {} \/ \E n \in Nat : cb = {n}
    BY DEF QueueInv, CountInv
  <2>2. Cardinality(cb) = IF cb = {} THEN 0 ELSE 1
    BY <2>1, FS_EmptySet, FS_Singleton
  <2> QED BY <2>2 DEF QueueInv, CountInv
<1> QED BY <1>1, Invariant, PTL

(* Clients that wait until an accepted goal has begun get one episode at a  *)
(* time that holds the arm, named by the handle, which executes no action   *)
(* that was inferred in another, although the one before may still be       *)
(* leaving; and with any clients no status "running" outlives the episodes  *)
(* (smolvla_node.py:248-262, 305-309).                                      *)
THEOREM EpisodesSafe == PI05Spec => []QueueSafe
<1>1. QueueInv => QueueSafe
  <2> SUFFICES ASSUME QueueInv PROVE QueueSafe
    OBVIOUS
  <2>1. QueueTypeOK /\ StatusSettles /\ OneInv
    BY DEF QueueInv
  <2>2. OneEpisode
    <3> SUFFICES ASSUME Careful PROVE Cardinality(Holding) <= 1 /\ \A g \in Holding : holder = g
      BY DEF OneEpisode
    <3>1. \A g, h \in Holding : g = h
      BY <2>1 DEF OneInv, Running, Holding, UnderWay
    <3>2. Holding = {} \/ \E g : Holding = {g}
      BY <3>1
    <3>3. Cardinality(Holding) \in {0, 1}
      BY <3>2, FS_EmptySet, FS_Singleton
    <3> QED BY <2>1, <3>3 DEF OneInv
  <2>3. OwnActions
    BY <2>1 DEF OwnActions, OneInv
  <2> QED BY <2>1, <2>2, <2>3 DEF QueueSafe
<1> QED BY <1>1, Invariant, PTL
=============================================================================
