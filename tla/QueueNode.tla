----------------------------- MODULE QueueNode -----------------------------
(* The single-node policies (smolvla_node, pi05_node): the goal's own       *)
(* callback runs the control loop, which takes one action per pass from a   *)
(* queue that one inference fills, and calls the arm's velocity service     *)
(* without waiting for the answers.                                         *)
(*                                                                          *)
(* Threads: two workers for the action server (goal and cancel callbacks,   *)
(* and each running episode), one for subscriptions, one for the answers of *)
(* the velocity service.                                                    *)
EXTENDS Integers, Sequences, FiniteSets

CONSTANTS MaxGoals,     \* bound: goals that are accepted
          Workers,      \* threads of act_exec
          ChunkLen,     \* actions that one inference puts in the queue
          MaxInflight,  \* calls that may be in flight when one more is made
          MaxPasses,    \* passes of the loop within max_episode_s
          Nobody,       \* no goal handle
          Careful       \* do clients wait until an accepted goal has begun?

ASSUME SizesAssumption == /\ MaxGoals \in Nat /\ Workers \in Nat \ {0}
                          /\ ChunkLen \in Nat \ {0} /\ MaxInflight \in Nat
                          /\ MaxPasses \in Nat
ASSUME CarefulAssumption == Careful \in BOOLEAN
ASSUME NoGoalAssumption == Nobody \notin 1..MaxGoals

VARIABLES pc,        \* pc[g]: where the episode of g is
          passes,    \* passes[g]: passes its loop has made
          canceled,  \* canceled[g]: is_cancel_requested
          holder,    \* _goal_handle
          stopFlag,  \* _stop_flag
          shownStatus, \* _status
          queue,     \* the policy's action queue: left, and who inferred it
          obs,       \* what the subscriptions hold: nothing yet, fresh or stale
          inflight,  \* _inflight
          calls,     \* velocity calls the driver has not executed
          cb,        \* what a running _on_vel_done has read of _inflight
          arm,       \* is the arm moving (a command lasts command_duration_s)
          client,    \* is the velocity client usable: up, stopping, closed
          foreign    \* has an action been executed in another episode (history)

episodeVars == <<pc, passes, canceled, holder, stopFlag, shownStatus, queue, foreign>>
driver == <<calls, cb, arm>>
queueVars == <<pc, passes, canceled, holder, stopFlag, shownStatus, queue, obs,
          inflight, calls, cb, arm, client, foreign>>

Episodes == 1..MaxGoals
Pcs == {"unsent", "accepted", "begun", "ready", "top", "act", "ended", "final",
        "released", "leaving", "done"}
\* Episodes with a thread of their own; those that have not given the handle back.
Running == {g \in Episodes : pc[g] \notin {"unsent", "accepted", "done"}}
Holding == {g \in Running : pc[g] \notin {"released", "leaving"}}
FreeWorker == Cardinality(Running) < Workers
Go(g, to) == pc' = [pc EXCEPT ![g] = to]

QueueInit ==
  /\ pc = [g \in Episodes |-> "unsent"] /\ passes = [g \in Episodes |-> 0]
  /\ canceled = [g \in Episodes |-> FALSE]
  /\ holder = Nobody /\ stopFlag = FALSE /\ shownStatus = "idle"
  /\ queue = [left |-> 0, by |-> Nobody] /\ obs = "none"
  /\ inflight = 0 /\ calls = <<>> /\ cb = {} /\ arm = "still"
  /\ client = "up" /\ foreign = FALSE

----------------------------------------------------------------------------
(* Sending a command: dropped when too many calls are in flight, also a stop. *)
(* The interpreter changes threads at calls and at jumps back: never inside   *)
(* "+= 1" or the conditional expression of the status, but inside max().      *)

\* Mutant: a dropped call is counted too.
SendCountsDrops(cmd) ==
  /\ inflight' = IF client = "closed" THEN inflight ELSE inflight + 1
  /\ calls' = IF client = "closed" \/ inflight > MaxInflight THEN calls
              ELSE Append(calls, cmd)
Send(cmd) ==
  IF client = "closed" \/ inflight > MaxInflight THEN UNCHANGED <<calls, inflight>>
  ELSE calls' = Append(calls, cmd) /\ inflight' = inflight + 1

\* The service may be away: nothing is sent.
Out(cmd) ==
  /\ \/ Send(cmd)
     \/ UNCHANGED <<calls, inflight>>
  /\ UNCHANGED <<cb, arm, client>>
Silent == UNCHANGED <<driver, inflight, client>>

----------------------------------------------------------------------------
(* The action server's callbacks need a free worker. *)

\* Mutant: the handle is not looked at.
OnGoalAlways(g) ==
  /\ pc[g] = "unsent" /\ \A h \in 1..(g - 1) : pc[h] # "unsent"
  /\ FreeWorker /\ client = "up" /\ obs # "none"
  /\ Careful => \A h \in Episodes : pc[h] # "accepted"
  /\ Go(g, "accepted")
  /\ UNCHANGED <<passes, canceled, holder, stopFlag, shownStatus, queue, obs, foreign>>
  /\ Silent
OnGoal(g) ==
  /\ pc[g] = "unsent" /\ \A h \in 1..(g - 1) : pc[h] # "unsent"
  /\ FreeWorker /\ client = "up" /\ holder = Nobody /\ obs # "none"
  /\ Careful => \A h \in Episodes : pc[h] # "accepted"
  /\ Go(g, "accepted")
  /\ UNCHANGED <<passes, canceled, holder, stopFlag, shownStatus, queue, obs, foreign>>
  /\ Silent

OnCancel(g) ==
  /\ pc[g] \notin {"unsent", "released", "leaving", "done"} /\ ~canceled[g] /\ FreeWorker
  /\ stopFlag' = TRUE /\ canceled' = [canceled EXCEPT ![g] = TRUE]
  /\ UNCHANGED <<pc, passes, holder, shownStatus, queue, obs, foreign>> /\ Silent

----------------------------------------------------------------------------
(* One episode. *)

ExecuteEpisode(g) ==
  /\ pc[g] = "accepted" /\ FreeWorker
  /\ holder' = g /\ stopFlag' = FALSE /\ Go(g, "begun")
  /\ UNCHANGED <<passes, canceled, shownStatus, queue, obs, foreign>> /\ Silent

\* The goal names no other checkpoint, or one that loads; its queue is empty.
KeepRunner(g) ==
  /\ pc[g] = "begun" /\ Go(g, "ready")
  /\ UNCHANGED <<passes, canceled, holder, stopFlag, shownStatus, queue, obs, foreign>>
  /\ Silent
Reload(g) ==
  /\ pc[g] = "begun" /\ Go(g, "ready")
  /\ queue' = [left |-> 0, by |-> Nobody]
  /\ UNCHANGED <<passes, canceled, holder, stopFlag, shownStatus, obs, foreign>> /\ Silent
\* It does not load or is refused, or the arm does not go to velocity mode.
SetupRefused(g) ==
  /\ pc[g] \in {"begun", "ready"} /\ Go(g, "final")
  /\ UNCHANGED <<passes, canceled, holder, stopFlag, shownStatus, queue, obs, foreign>>
  /\ Silent
Begin(g) ==
  /\ pc[g] = "ready" /\ Go(g, "top") /\ shownStatus' = "running"
  /\ queue' = [left |-> 0, by |-> Nobody]
  /\ UNCHANGED <<passes, canceled, holder, stopFlag, obs, foreign>> /\ Silent

\* The head of the loop: stop, timeout, or a pass.
Stopped(g) ==
  /\ pc[g] = "top" /\ (stopFlag \/ canceled[g])
  /\ shownStatus' = "stopped" /\ Go(g, "ended")
  /\ UNCHANGED <<passes, canceled, holder, stopFlag, queue, obs, foreign>> /\ Silent
TimeIsUp(g) ==
  /\ pc[g] = "top" /\ ~stopFlag /\ ~canceled[g]
  /\ shownStatus' = "aborted" /\ Go(g, "ended")
  /\ UNCHANGED <<passes, canceled, holder, stopFlag, queue, obs, foreign>> /\ Silent
\* Mutant: the loop looks at no clock.
PassForever(g) ==
  /\ pc[g] = "top" /\ ~stopFlag /\ ~canceled[g] /\ Go(g, "act")
  /\ UNCHANGED <<passes, canceled, holder, stopFlag, shownStatus, queue, obs, foreign>>
  /\ Silent
Pass(g) ==
  /\ pc[g] = "top" /\ ~stopFlag /\ ~canceled[g] /\ passes[g] < MaxPasses
  /\ passes' = [passes EXCEPT ![g] = @ + 1] /\ Go(g, "act")
  /\ UNCHANGED <<canceled, holder, stopFlag, shownStatus, queue, obs, foreign>> /\ Silent

\* No fresh observation: a stop; the queue stays as it is.
ActStale(g) ==
  /\ pc[g] = "act" /\ obs = "stale" /\ Go(g, "top") /\ Out("stop")
  /\ UNCHANGED <<passes, canceled, holder, stopFlag, shownStatus, queue, obs, foreign>>
\* select_action: an empty queue is filled first.
ActQueue(g) ==
  /\ pc[g] = "act" /\ obs = "fresh" /\ Go(g, "top")
  /\ LET full == IF queue.left = 0 THEN [left |-> ChunkLen, by |-> g] ELSE queue
     IN  /\ queue' = [full EXCEPT !.left = @ - 1]
         /\ foreign' = (foreign \/ full.by # g)
  /\ \/ Out("move")
     \/ Out("stop")
  /\ UNCHANGED <<passes, canceled, holder, stopFlag, shownStatus, obs>>
InferFails(g) ==
  /\ pc[g] = "act" /\ obs = "fresh" /\ shownStatus' = "aborted" /\ Go(g, "ended")
  /\ UNCHANGED <<passes, canceled, holder, stopFlag, queue, obs, foreign>> /\ Silent
\* Anything else that raises leaves the loop without an end.
RunRaises(g) ==
  /\ pc[g] \in {"ready", "top", "act", "ended"} /\ Go(g, "final")
  /\ UNCHANGED <<passes, canceled, holder, stopFlag, shownStatus, queue, obs, foreign>>
  /\ Silent

End(g) ==
  /\ pc[g] = "ended" /\ Go(g, "final") /\ Out("stop")
  /\ UNCHANGED <<passes, canceled, holder, stopFlag, shownStatus, queue, obs, foreign>>
\* The locals of _run are gone, and the goal has ended: no cancel reaches it.
Forget(g) == /\ passes' = [passes EXCEPT ![g] = 0]
             /\ canceled' = [canceled EXCEPT ![g] = FALSE]
\* finally: the handle is given back, and the next goal may be accepted, before the
\* last stop is sent and the status, whoever has set it by then, is put to rest.
Release(g) ==
  /\ pc[g] = "final" /\ Go(g, "released") /\ holder' = Nobody /\ Forget(g)
  /\ UNCHANGED <<stopFlag, shownStatus, queue, obs, foreign>> /\ Silent
LastStop(g) ==
  /\ pc[g] = "released" /\ Go(g, "leaving") /\ Out("stop")
  /\ UNCHANGED <<passes, canceled, holder, stopFlag, shownStatus, queue, obs, foreign>>
Leave(g) ==
  /\ pc[g] = "leaving" /\ Go(g, "done")
  /\ shownStatus' = IF shownStatus = "running" THEN "idle" ELSE shownStatus
  /\ UNCHANGED <<passes, canceled, holder, stopFlag, queue, obs, foreign>> /\ Silent
Finally(g) == Release(g) \/ LastStop(g) \/ Leave(g)

----------------------------------------------------------------------------
(* The driver, the answers, the sensors, the end of the process. *)

\* The driver executes the calls in order, a move for its duration, and answers.
\* _on_vel_done reads the count, calls max, and writes: the loop may raise the
\* count in between, and that is lost.  One thread takes the answers.
DriverExecutes ==
  /\ calls # <<>> /\ cb = {} /\ calls' = Tail(calls)
  /\ arm' = IF Head(calls) = "move" THEN "moving" ELSE "still"
  /\ cb' = IF client = "closed" THEN {} ELSE {inflight}
  /\ UNCHANGED <<episodeVars, obs, inflight, client>>
MoveExpires ==
  /\ arm = "moving" /\ arm' = "still"
  /\ UNCHANGED <<episodeVars, obs, inflight, calls, cb, client>>
\* Mutant: an answer that reports an error is not counted.
AnswerSkips ==
  /\ cb # {} /\ cb' = {}
  /\ UNCHANGED <<episodeVars, obs, inflight, calls, arm, client>>
AnswerWrite ==
  /\ cb # {} /\ cb' = {}
  /\ \E n \in cb : inflight' = IF n = 0 THEN 0 ELSE n - 1
  /\ UNCHANGED <<episodeVars, obs, calls, arm, client>>

Hear(to) ==
  /\ to # obs /\ to # "none" /\ obs' = to
  /\ UNCHANGED <<episodeVars, driver, inflight, client>>

\* shutdown(): the flag, a stop that is not counted, then the client goes.
Shutdown ==
  /\ client = "up" /\ client' = "stopping" /\ stopFlag' = TRUE
  /\ calls' \in {calls, Append(calls, "stop")}
  /\ UNCHANGED <<pc, passes, canceled, holder, shownStatus, queue, obs, foreign,
                 inflight, cb, arm>>
CloseClient ==
  /\ client = "stopping" /\ client' = "closed"
  /\ UNCHANGED <<episodeVars, driver, obs, inflight>>

----------------------------------------------------------------------------
Episode(g) ==
  \/ ExecuteEpisode(g) \/ KeepRunner(g) \/ Reload(g) \/ SetupRefused(g) \/ Begin(g)
  \/ Stopped(g) \/ TimeIsUp(g) \/ Pass(g) \/ ActStale(g) \/ ActQueue(g)
  \/ InferFails(g) \/ RunRaises(g) \/ End(g) \/ Finally(g)
QueueNext ==
  \/ \E g \in Episodes : OnGoal(g) \/ OnCancel(g) \/ Episode(g)
  \/ DriverExecutes \/ MoveExpires \/ AnswerWrite
  \/ \E to \in {"fresh", "stale"} : Hear(to)
  \/ Shutdown \/ CloseClient

----------------------------------------------------------------------------
QueueTypeOK ==
  /\ pc \in [Episodes -> Pcs] /\ passes \in [Episodes -> 0..MaxPasses]
  /\ canceled \in [Episodes -> BOOLEAN] /\ holder \in Episodes \cup {Nobody}
  /\ stopFlag \in BOOLEAN /\ shownStatus \in {"idle", "running", "stopped", "aborted"}
  /\ queue \in [left : 0..ChunkLen, by : Episodes \cup {Nobody}]
  /\ obs \in {"none", "fresh", "stale"} /\ inflight \in Nat
  /\ calls \in Seq({"move", "stop"}) /\ cb \in SUBSET Nat
  /\ arm \in {"still", "moving"} /\ client \in {"up", "stopping", "closed"}
  /\ foreign \in BOOLEAN

\* The loop raises the count of calls in flight and the answers lower it, on two
\* threads and without a lock.  What is lost is only ever an increment, so the
\* count never exceeds the calls that are out: it cannot lock the velocity
\* commands, stops included, out for ever.
CountBelowCalls ==
  client # "closed" => inflight <= Len(calls) + Cardinality(cb)

\* An action is executed in the episode in which it was inferred, if clients
\* wait until an accepted goal has begun: begin empties the queue.
OwnActions == Careful => ~foreign

\* At most one episode holds the arm, if clients do, and the handle names it; the
\* ones that leave have given the handle back and take it from nobody.
OneEpisode ==
  Careful => /\ Cardinality(Holding) <= 1
             /\ \A g \in Holding : holder = g

\* However episodes overlap, raise or end, no status "running" is left behind.
\* The opposite happens: an episode may run under the status "idle" that
\* the one before it writes as it leaves.
StatusSettles == shownStatus = "running" => Running # {}

\* Every accepted goal ends and frees its worker, also when no cancel gets through.
EpisodesEnd == []<>(\A g \in Episodes : pc[g] \in {"unsent", "done"})

\* When nothing runs any more the arm comes to rest and stays there, and the
\* count returns to zero while the client lives: the last stop may have been
\* dropped.
ComesToRest ==
  <>[](\A g \in Episodes : pc[g] \in {"unsent", "done"}) =>
    <>[](arm = "still" /\ (client # "closed" => inflight = 0))

\* Episodes on two workers and callbacks that look at a handle that is set
\* later (smolvla_node.py:248-262) amount to one episode with its own actions,
\* and the status tells.
QueueSafe == QueueTypeOK /\ OneEpisode /\ OwnActions /\ StatusSettles
=============================================================================
