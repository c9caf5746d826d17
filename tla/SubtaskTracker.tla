--------------------------- MODULE SubtaskTracker ---------------------------
(***************************************************************************)
(* One rollout as SubtaskTracker sees it: the plan, the verifications it   *)
(* asks of the recognizer at the boundaries, and the verdicts that come    *)
(* back.  ManagerNode._pump feeds it (policy messages, then verdicts) and  *)
(* ManagerNode._apply sends its requests afterwards; the recognizer node   *)
(* takes the captures in the meantime.                                     *)
(*                                                                         *)
(* TaskManager is not part of the repository: its plans, the two verdicts  *)
(* it takes to decide and its retry budgets are those the tests and        *)
(* max_ai/README.md show.  What a request and its captures and verdicts     *)
(* are about is the boundary at which they were asked for; `mine` says     *)
(* that the plan has not passed another one since.                         *)
(***************************************************************************)
EXTENDS Naturals, Sequences, FiniteSets, SequencesExt

CONSTANTS
  Starts,        \* "recognizer", or states the start is fixed to
  Verified,      \* subtasks that are verified: verify_flip, verify_place
  Hysteresis,    \* mvla.hysteresis
  Consecutive,   \* mvla.completion_consecutive
  Captures,      \* captures asked for at a boundary
  MayRefuse,     \* whether the recognizer may have no model, refuse a request
                 \* or not answer it
  MaxLeft,       \* bound: captures that an earlier rollout left in the recognizer
  PerSubtask,    \* retry budget of a subtask
  MaxRetries     \* retry budget of the rollout

ASSUME ConstantsAssumption ==
  /\ Starts \subseteq {"recognizer", "target", "flipped", "in_gripper"}
  /\ Verified \subseteq {"flip", "place"} /\ MayRefuse \in BOOLEAN
  /\ {Hysteresis, Consecutive, Captures} \subseteq Nat \ {0}
  /\ {MaxLeft, PerSubtask, MaxRetries} \subseteq Nat

VARIABLES
  phase,     \* where _pump is: "policy", "verdicts", "apply"
  plan,      \* TaskManager: remaining subtasks
  outcome,   \* "starting" (no plan yet), "running", "done", "needs_operator"
  retries,   \* TaskManager: retries of each subtask
  votes,     \* TaskManager: the verdict that would decide if it came again
  hits,      \* _pending or completion_streak
  released,  \* released_at is set
  frames,    \* labels in _frames["start"], later in _frames["place"]
  requests,  \* _requests: the id known for a purpose, 0 when none filters
  outbox,    \* schedule_recognition events not yet applied
  hasModel,  \* the recognizer node loaded its model
  pending,   \* CaptureScheduler._pending
  nextId,    \* CaptureScheduler._next_id
  verdicts,  \* judged and not yet taken: worker, topic and _verdict_q
  spoiled    \* the request of this boundary may not get all its verdicts

taskVars    == <<plan, outcome, retries, votes>>
trackerVars == <<hits, released, frames, requests>>
recogVars   == <<hasModel, pending, nextId>>
vars == <<phase, taskVars, trackerVars, outbox, recogVars, verdicts, spoiled>>

FlipPlan == <<"approach_flip", "flip", "approach_pick", "pick", "move", "place">>
PickPlan == <<"approach_pick", "pick", "move", "place">>
HeldPlan == <<"move", "place">>
TrayPlan == <<"approach_pick", "pick", "place">>
Subtasks == {"approach_flip", "flip", "approach_pick", "pick", "move", "place"}
Purposes == {"start", "flip", "place"}

\* What a probe may say; "none" stands for empty, unknown pose and abstain.
Labels(purpose) == IF purpose = "place" THEN {"ok", "bad"} ELSE {"target", "flipped", "none"}
Started == outcome # "starting"
Subtask == IF plan = <<>> THEN "none" ELSE Head(plan)
\* What the frames are about that are counted now.
Counted == IF Started THEN "place" ELSE "start"
\* A capture, and the verdict on it; the label is drawn when it is taken.
CaptureOf == [purpose : Purposes, id : Nat, mine : BOOLEAN, total : 1..Captures]
\* The scheduler lives as long as its node: an earlier rollout may have left
\* captures.  Their requests, whichever they were, are numbered 0 here.
Leftover == [purpose : Purposes, id : {0}, mine : {FALSE}, total : 1..Captures]
Pass(queue) == [i \in DOMAIN queue |-> [queue[i] EXCEPT !.mine = FALSE]]

Asks == [purpose : Purposes, mine : BOOLEAN]

PlanOK ==
  /\ phase \in {"policy", "verdicts", "apply"}
  /\ plan \in Seq(Subtasks) /\ outcome \in {"starting", "running", "done", "needs_operator"}
  /\ ~Started => plan = <<>>
  /\ retries \in [Subtasks -> 0..PerSubtask]
  /\ votes \in {"none", "unflipped"} \cup Labels("place")
CountOK ==
  /\ hits \in 0..(IF Len(plan) = 1 THEN Consecutive ELSE Hysteresis - 1)
  /\ released \in BOOLEAN
  /\ frames \in Seq(Labels(Counted)) /\ Len(frames) < Captures
  /\ requests \in [Purposes -> Nat]
QueueOK ==
  /\ hasModel \in BOOLEAN /\ nextId \in Nat /\ spoiled \in BOOLEAN
  /\ outbox \in Seq(Asks) /\ pending \in Seq(CaptureOf) /\ verdicts \in Seq(CaptureOf)
TypeOK == PlanOK /\ CountOK /\ QueueOK

PlanFor(state) == CASE state = "target"  -> FlipPlan
                    [] state = "flipped" -> PickPlan
                    [] OTHER             -> HeldPlan

Ask(purpose) == [purpose |-> purpose, mine |-> TRUE]

Init ==
  /\ \E s \in Starts :
       IF s = "recognizer"
       THEN /\ phase = "apply" /\ plan = <<>> /\ outcome = "starting"
            /\ outbox = <<Ask("start")>>
       ELSE /\ phase = "policy" /\ plan = PlanFor(s) /\ outcome = "running" /\ outbox = <<>>
  /\ retries = [s \in Subtasks |-> 0] /\ votes = "none"
  /\ hits = 0 /\ released = FALSE
  /\ frames = <<>> /\ requests = [p \in Purposes |-> 0]
  /\ hasModel \in {TRUE, ~MayRefuse}
  /\ \E n \in 0..(IF hasModel THEN MaxLeft ELSE 0) : pending \in [1..n -> Leftover]
  /\ nextId = 1 /\ verdicts = <<>> /\ spoiled = FALSE

-----------------------------------------------------------------------------
(* Changes of the plan: TaskManager and _sync.  `rest` is the verdicts that *)
(* the step leaves.                                                        *)

\* Mutant: the completion streak of the last stay is kept.
BoundaryKept(rest) ==
  /\ UNCHANGED hits /\ released' = FALSE /\ frames' = <<>>
  /\ requests' = [requests EXCEPT !["flip"] = 0, !["place"] = 0]
  /\ pending' = Pass(pending) /\ verdicts' = Pass(rest) /\ spoiled' = FALSE
\* _sync at a boundary: what the last subtask waited for is dropped, but the
\* recognizer is not told.
Boundary(rest) ==
  /\ hits' = 0 /\ released' = FALSE /\ frames' = <<>>
  /\ requests' = [requests EXCEPT !["flip"] = 0, !["place"] = 0]
  /\ pending' = Pass(pending) /\ verdicts' = Pass(rest) /\ spoiled' = FALSE

\* The subtask is finished; after flip its result is verified.  Whether
\* TaskManager keeps its vote is not known.
Advance(rest) ==
  /\ plan' = Tail(plan)
  /\ outcome' = IF Len(plan) = 1 THEN "done" ELSE outcome
  /\ votes' \in {votes, "none"}
  /\ Boundary(rest)
  /\ outbox' = Pass(outbox) \o IF Subtask = "flip" /\ "flip" \in Verified
                              THEN <<Ask("flip")>> ELSE <<>>
  /\ UNCHANGED retries

\* A failed flip starts again, a failed place is retried on the tray; where
\* the planner resumes after another failure is its own affair.
Replans(failed) ==
  CASE failed = "flip"  -> {FlipPlan}
    [] failed = "place" -> {TrayPlan}
    [] OTHER            -> {FlipPlan, PickPlan}

BudgetLeft(failed) ==
  retries[failed] < PerSubtask /\ SumFunctionOnSet(retries, Subtasks) < MaxRetries

\* Replanned to one of plans, or the operator is asked.
Fail(failed, plans, rest) ==
  \/ /\ BudgetLeft(failed)
     /\ retries' = [retries EXCEPT ![failed] = @ + 1]
     /\ plan' \in plans /\ votes' = "none"
     /\ Boundary(rest) /\ outbox' = Pass(outbox)
     /\ UNCHANGED outcome
  \/ /\ ~BudgetLeft(failed)
     /\ outcome' = "needs_operator" /\ verdicts' = rest
     /\ UNCHANGED <<plan, retries, votes, trackerVars, outbox, pending, spoiled>>

-----------------------------------------------------------------------------
(* _pump: the policy's messages.                                           *)

Reading == phase = "policy" /\ outcome = "running"

\* observe_value: the value has stalled.
Stall ==
  /\ Reading
  /\ Fail(Subtask, Replans(Subtask), verdicts)
  /\ UNCHANGED <<phase, hasModel, nextId>>

\* A head read that speaks neither for the next subtask nor for completion.
ReadMiss ==
  /\ Reading
  /\ hits' = 0
  /\ UNCHANGED <<phase, taskVars, released, frames, requests, outbox, recogVars,
                 verdicts, spoiled>>

\* The read is counted and changes nothing yet.
Count(n) ==
  /\ hits' = n
  /\ UNCHANGED <<taskVars, released, frames, requests, outbox, pending, verdicts, spoiled>>

\* A read for the next subtask.
ReadNext ==
  /\ Reading /\ Len(plan) > 1
  /\ IF hits + 1 < Hysteresis THEN Count(hits + 1) ELSE Advance(verdicts)
  /\ UNCHANGED <<phase, hasModel, nextId>>

\* Mutant: value may complete a placement whose release was seen.
ValueAlways == TRUE
\* Value completes the last subtask unless its release was seen: then the
\* recognizer decides.
ValueMayComplete == ~released

\* A read for completion of the last subtask.  A subtask that is verified and
\* was not released is completed after unverified_timeout_s.
ReadComplete ==
  /\ Reading /\ Len(plan) = 1
  /\ LET streak == IF hits < Consecutive THEN hits + 1 ELSE hits
     IN \/ streak = Consecutive /\ ValueMayComplete /\ Advance(verdicts)
        \/ (streak < Consecutive \/ Subtask \in Verified) /\ Count(streak)
  /\ UNCHANGED <<phase, hasModel, nextId>>

\* watch: the gripper opens during place.
Release ==
  /\ Reading /\ Subtask = "place" /\ "place" \in Verified /\ ~released
  /\ released' = TRUE
  /\ requests' = [requests EXCEPT !["place"] = 0]
  /\ outbox' = Append(outbox, Ask("place"))
  /\ UNCHANGED <<phase, taskVars, hits, frames, recogVars, verdicts, spoiled>>

-----------------------------------------------------------------------------
(* _pump: verdicts.                                                        *)

\* _stale: only a known id filters.
Stale(v) == requests[v.purpose] > 0 /\ requests[v.purpose] # v.id

\* aggregate(): frames that agree give their label, others any of the probe's.
Aggregates(purpose, seen) ==
  LET said == ToSet(seen) IN IF Cardinality(said) = 1 THEN said ELSE Labels(purpose)

Ignored(v) ==
  /\ \/ Stale(v)
     \/ ~Started /\ v.purpose # "start"
     \/ Started /\ v.purpose = "start"
     \/ v.purpose = "place" /\ Subtask # "place"
  /\ verdicts' = Tail(verdicts)
  /\ UNCHANGED <<taskVars, trackerVars, outbox, pending, spoiled>>

\* All the captures of the start together decide, or the gripper's effort.
StartVerdict(v, label) ==
  /\ ~Stale(v) /\ v.purpose = "start" /\ ~Started
  /\ LET seen == Append(frames, label)
     IN IF Len(seen) < v.total
        THEN frames' = seen /\ UNCHANGED <<plan, outcome>>
        ELSE \E state \in Aggregates("start", seen) \cup {"in_gripper"} :
               /\ frames' = <<>>
               /\ plan' = IF state = "none" THEN <<>> ELSE PlanFor(state)
               /\ outcome' = IF state = "none" THEN "needs_operator" ELSE "running"
  /\ verdicts' = Tail(verdicts)
  /\ UNCHANGED <<retries, votes, hits, released, requests, outbox, pending, spoiled>>

\* Two in a row that do not say flipped start the flip again.
FlipVerdict(v, label) ==
  /\ ~Stale(v) /\ v.purpose = "flip" /\ Started
  /\ IF label # "flipped" /\ votes = "unflipped"
     THEN Fail("flip", Replans("flip"), Tail(verdicts))
     ELSE /\ votes' = IF label = "flipped" THEN "none" ELSE "unflipped"
          /\ verdicts' = Tail(verdicts)
          /\ UNCHANGED <<plan, outcome, retries, trackerVars, outbox, pending, spoiled>>

\* Mutant: frames that disagree wait for another one.
AllSeenNever(v) == FALSE
\* Every frame of the request has been counted, and no two in a row agreed.
AllSeen(v) == Len(frames) + 1 >= v.total

PlaceDecided(label, plans) ==
  IF label = "ok" THEN Advance(Tail(verdicts)) ELSE Fail("place", plans, Tail(verdicts))

\* Two in a row decide; else, with the last frame, their aggregate, which is
\* reported twice: when it repeats the last frame's label, the second report
\* meets the first subtask of the retry.
PlaceVerdict(v, label) ==
  /\ ~Stale(v) /\ v.purpose = "place" /\ Subtask = "place"
  /\ CASE votes = label -> PlaceDecided(label, {TrayPlan})
       [] votes # label /\ AllSeen(v) ->
            \E agg \in Aggregates("place", Append(frames, label)) :
              PlaceDecided(agg, IF agg = label THEN {TrayPlan, Tail(TrayPlan)} ELSE {TrayPlan})
       [] OTHER -> /\ votes' = label /\ frames' = Append(frames, label)
                   /\ verdicts' = Tail(verdicts)
                   /\ UNCHANGED <<plan, outcome, retries, hits, released, requests, outbox,
                                  pending, spoiled>>

TakeVerdict ==
  /\ phase = "verdicts" /\ verdicts # <<>> /\ outcome \in {"starting", "running"}
  /\ LET v == Head(verdicts)
     IN \/ Ignored(v)
        \/ \E label \in Labels(v.purpose) :
             StartVerdict(v, label) \/ FlipVerdict(v, label) \/ PlaceVerdict(v, label)
  /\ UNCHANGED <<phase, hasModel, nextId>>

-----------------------------------------------------------------------------
(* _apply and the recognizer node.                                         *)

Purpose == Head(outbox).purpose
Batch(n) == [i \in 1..n |-> [purpose |-> Purpose, id |-> nextId,
                             mine |-> Head(outbox).mine, total |-> n]]
\* Mutant: a request leaves the captures of the last one.
KeptAll == pending
\* cancel_pending drops every capture not yet taken, whatever it is for.
Kept == IF Purpose = "start" THEN pending ELSE <<>>
CancelsMine == Kept # pending /\ \E i \in DOMAIN pending : pending[i].mine

Applying == phase = "apply" /\ outbox # <<>>

\* Without a model every request is refused.
ScheduleNoModel ==
  /\ Applying /\ ~hasModel
  /\ spoiled' = (spoiled \/ Head(outbox).mine)
  /\ outbox' = Tail(outbox)
  /\ UNCHANGED <<phase, taskVars, trackerVars, recogVars, verdicts>>

\* The captures that are not too late are scheduled and the id is noted.
Schedule ==
  /\ Applying /\ hasModel
  /\ \E n \in 1..Captures : pending' = Kept \o Batch(n)
  /\ nextId' = nextId + 1
  /\ requests' = [requests EXCEPT ![Purpose] = nextId]
  /\ spoiled' = (spoiled \/ CancelsMine)
  /\ outbox' = Tail(outbox)
  /\ UNCHANGED <<phase, taskVars, hits, released, frames, hasModel, verdicts>>

\* Scheduled, but the answer takes longer than 1 s: no id is noted.  The id
\* of a request applied since the last boundary, when there is one, then
\* filters the verdicts.
ScheduleUnanswered ==
  /\ MayRefuse /\ Applying /\ hasModel
  /\ pending' = Kept \o Batch(Captures) /\ nextId' = nextId + 1
  /\ spoiled' = (spoiled \/ CancelsMine \/ (Head(outbox).mine /\ requests[Purpose] > 0))
  /\ outbox' = Tail(outbox)
  /\ UNCHANGED <<phase, taskVars, trackerVars, hasModel, verdicts>>

\* Every capture is too late.
ScheduleRefused ==
  /\ MayRefuse /\ Applying /\ hasModel
  /\ pending' = Kept /\ nextId' = nextId + 1
  /\ spoiled' = (spoiled \/ CancelsMine \/ Head(outbox).mine)
  /\ outbox' = Tail(outbox)
  /\ UNCHANGED <<phase, taskVars, trackerVars, hasModel, verdicts>>

\* The captures of a request fall due in their order, those of two requests in
\* any order: the schedule is sorted by time.
Due(i) == \A j \in 1..(i - 1) : pending[j].id # pending[i].id

\* A capture is taken and judged.
Capture ==
  /\ \E i \in DOMAIN pending :
       Due(i) /\ verdicts' = Append(verdicts, pending[i]) /\ pending' = RemoveAt(pending, i)
  /\ UNCHANGED <<phase, taskVars, trackerVars, outbox, hasModel, nextId, spoiled>>

\* The cameras are not ready, the model fails, or the best-effort message is lost.
CaptureLost ==
  /\ \E i \in DOMAIN pending :
       Due(i) /\ spoiled' = (spoiled \/ pending[i].mine) /\ pending' = RemoveAt(pending, i)
  /\ UNCHANGED <<phase, taskVars, trackerVars, outbox, hasModel, nextId, verdicts>>

\* The next part of _pump; the rollout's loop ends with the outcome.
NextPhase ==
  /\ outcome \in {"starting", "running"} \/ outbox # <<>>
  /\ phase' = CASE phase = "policy" -> "verdicts"
                [] phase = "verdicts" -> "apply"
                [] OTHER -> "policy"
  /\ phase = "apply" => outbox = <<>>
  /\ UNCHANGED <<taskVars, trackerVars, outbox, recogVars, verdicts, spoiled>>

Next ==
  \/ Stall \/ ReadMiss \/ ReadNext \/ ReadComplete \/ Release
  \/ TakeVerdict
  \/ Schedule \/ ScheduleUnanswered \/ ScheduleRefused \/ ScheduleNoModel
  \/ Capture \/ CaptureLost
  \/ NextPhase

Spec == Init /\ [][Next]_vars

\* The rollout's loop goes round and takes what has arrived, and the
\* recognizer takes what is due.
Fairness ==
  /\ WF_vars(NextPhase) /\ SF_vars(TakeVerdict)
  /\ SF_vars(Schedule \/ ScheduleUnanswered \/ ScheduleRefused \/ ScheduleNoModel)
  /\ WF_vars(Capture \/ CaptureLost)
FairSpec == Spec /\ Fairness

-----------------------------------------------------------------------------
(* Correctness.                                                            *)

(* A placement whose release was seen is never completed on the policy's
   value: a tray frame counted since the last boundary said ok. *)
ReleasedNeedsOk ==
  [][released /\ outcome' = "done" /\ outcome # "done" =>
       phase = "verdicts" /\ \/ "ok" \in ToSet(frames)
                             \/ PlaceVerdict(Head(verdicts), "ok")]_vars

(* A release that was seen is decided, also by frames that disagree: unless
   a capture or verdict asked for at this boundary was lost or cancelled. *)
ReleaseIsDecided == released ~> (~released \/ spoiled \/ outcome # "running")

(* The recognizer works for one request of this rollout at a time, and for none
   of an earlier rollout once a boundary's request was sent: only what was left
   before the rollout began is pending beside the start's captures. *)
OneRequestPending ==
  \A i, j \in DOMAIN pending :
    pending[i].id > 0 /\ pending[j].id # pending[i].id =>
      pending[j].id = 0 /\ pending[i].purpose = "start"
=============================================================================
