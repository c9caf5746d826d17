----------------------------- MODULE MaxServer -----------------------------
(* max_server: one node that loads a policy (action load_policy), runs the  *)
(* inference loop (action run), unloads (service unload_policy) and moves   *)
(* to preset poses (service move_to_pose).                                  *)
(*                                                                          *)
(* Executor: multi-threaded.  The goal callbacks and the services look at   *)
(* the state; an accepted goal is executed later, by a task of its own, so  *)
(* what was looked at may have changed.  Services exclude each other.       *)
EXTENDS Naturals, FiniteSets

CONSTANTS MaxGoals,      \* bound: action goals that are accepted
          MaxRash,       \* bound: the same, from clients that are not careful
          Roles,         \* inputs: robot and gripper topics, cameras
          Reprs,         \* representation types that are supported
          Other,         \* any other representation type
          Needs,         \* Needs[r]: the inputs that r waits for
          None

ASSUME NeedsAssumption == Needs \in [Reprs \cup {Other} -> SUBSET Roles]
ASSUME NoneAssumption == None \notin Nat
ASSUME OtherAssumption == Other \notin Reprs
ASSUME MaxGoalsAssumption == MaxGoals \in Nat /\ MaxRash \in Nat

VARIABLES state,      \* _server_state
          policy,     \* InferenceManager.policy: the goal that loaded it
          pre,        \* InferenceManager._preprocessor, likewise
          repr,       \* _representation_type, set by each START
          have,       \* inputs received so far
          kind,       \* kind[g]: what g asks for
          pc,         \* pc[g]: where the execution of g is
          cancel,     \* cancel[g]: is_cancel_requested
          prep,       \* prep[g]: the preprocessor a prediction has used
          svc,        \* where the service in progress is
          command,    \* the last command published; own: its policy acted on
                      \* the output of its own preprocessor
          careful     \* do clients wait for the effect of a request?

server == <<state, repr>>
manager == <<policy, pre>>
goalVars == <<kind, pc, cancel, prep>>
vars == <<state, policy, pre, repr, have, kind, pc, cancel, prep, svc,
          command, careful>>

Goals == 1..MaxGoals     \* in the order in which they are accepted
States == {"idle", "loading", "ready", "running", "error"}
LoadPcs == {"accepted", "begun", "clear", "cleared", "reading", "named",
            "undo", "undone", "loaded", "failed"}
LoopPcs == {"top", "tick", "prepared", "broken"}
Alive(g) == pc[g] \in LoopPcs
Loops == {g \in Goals : kind[g] = "run" /\ Alive(g)}
Loads == {g \in Goals : kind[g] = "load" /\ pc[g] \in LoadPcs \ {"accepted"}}
Pending == {g \in Goals : pc[g] = "accepted"}
Quiet == Loops \cup Loads \cup Pending = {} /\ svc = "free"

Init ==
  /\ state = "idle" /\ policy = None /\ pre = None
  /\ repr \in Reprs /\ have = {}
  /\ kind = [g \in Goals |-> "unsent"] /\ pc = [g \in Goals |-> "unsent"]
  /\ cancel = [g \in Goals |-> FALSE]
  /\ prep = [g \in Goals |-> None]
  /\ svc = "free" /\ command = [by |-> "nobody", own |-> TRUE]
  /\ careful \in BOOLEAN

Go(g, to) == pc' = [pc EXCEPT ![g] = to]

\* A careful client waits until the last request shows in the state.
FirstUnsent(g) ==
  /\ pc[g] = "unsent" /\ \A h \in 1..(g - 1) : pc[h] # "unsent"
  /\ ~careful => g <= MaxRash
MaySend == careful => Loads \cup Pending = {} /\ svc = "free"

----------------------------------------------------------------------------
(* Goal callbacks.  A refused goal leaves nothing behind. *)

\* Mutant: a load is accepted during inference.
LoadAnyTime == state # "loading"
LoadAllowed == state \notin {"running", "loading"}
SendLoad(g) ==
  /\ FirstUnsent(g) /\ MaySend /\ LoadAllowed
  /\ kind' = [kind EXCEPT ![g] = "load"] /\ Go(g, "accepted")
  /\ UNCHANGED <<server, manager, have, cancel, prep, svc, command, careful>>

RunAllowed == policy # None /\ state # "running"
SendRun(g) ==
  /\ FirstUnsent(g) /\ MaySend /\ RunAllowed
  /\ kind' = [kind EXCEPT ![g] = "run"] /\ Go(g, "accepted")
  /\ UNCHANGED <<server, manager, have, cancel, prep, svc, command, careful>>

\* A STOP goal is accepted and succeeds; it changes nothing else.
SendStop(g) ==
  /\ FirstUnsent(g) /\ MaySend
  /\ kind' = [kind EXCEPT ![g] = "stop"] /\ Go(g, "done")
  /\ UNCHANGED <<server, manager, have, cancel, prep, svc, command, careful>>

\* Cancelling a load is rejected.
SendCancel(g) ==
  /\ kind[g] = "run" /\ pc[g] # "done" /\ ~cancel[g]
  /\ cancel' = [cancel EXCEPT ![g] = TRUE]
  /\ UNCHANGED <<server, manager, have, kind, pc, prep, svc, command, careful>>

----------------------------------------------------------------------------
(* Execution of a load goal. *)

BeginLoad(g) ==
  /\ kind[g] = "load" /\ pc[g] = "accepted"
  /\ state' = "loading" /\ Go(g, "begun")
  /\ UNCHANGED <<repr, manager, have, kind, cancel, prep, svc, command, careful>>

\* Arguments that are not known are refused; a checkpoint that is not named
\* raises, and the handler unloads.  Otherwise the old policy goes first.
CheckLoad(g) ==
  /\ kind[g] = "load" /\ pc[g] = "begun"
  /\ \/ Go(g, "failed")
     \/ Go(g, "undo")
     \/ Go(g, IF policy # None THEN "clear" ELSE "reading")
  /\ UNCHANGED <<server, manager, have, kind, cancel, prep, svc, command, careful>>

\* unload(): first the policy, then the processors.
DropPolicy(g) ==
  /\ kind[g] = "load" /\ pc[g] \in {"clear", "undo"}
  /\ policy' = None /\ Go(g, IF pc[g] = "clear" THEN "cleared" ELSE "undone")
  /\ UNCHANGED <<server, pre, have, kind, cancel, prep, svc, command, careful>>
DropProcessors(g) ==
  /\ kind[g] = "load" /\ pc[g] \in {"cleared", "undone"}
  /\ pre' = None /\ Go(g, IF pc[g] = "cleared" THEN "reading" ELSE "failed")
  /\ UNCHANGED <<server, policy, have, kind, cancel, prep, svc, command, careful>>

\* The weights are read, or cannot be; then the two are put in place.
ReadFails(g) ==
  /\ kind[g] = "load" /\ pc[g] = "reading" /\ Go(g, "undo")
  /\ UNCHANGED <<server, manager, have, kind, cancel, prep, svc, command, careful>>
SetPolicy(g) ==
  /\ kind[g] = "load" /\ pc[g] = "reading"
  /\ policy' = g /\ Go(g, "named")
  /\ UNCHANGED <<server, pre, have, kind, cancel, prep, svc, command, careful>>
SetProcessors(g) ==
  /\ kind[g] = "load" /\ pc[g] = "named"
  /\ pre' = g /\ Go(g, "loaded")
  /\ UNCHANGED <<server, policy, have, kind, cancel, prep, svc, command, careful>>

EndLoad(g) ==
  /\ kind[g] = "load" /\ pc[g] \in {"loaded", "failed"}
  /\ state' = IF pc[g] = "loaded" THEN "ready" ELSE "error"
  /\ Go(g, "done")
  /\ UNCHANGED <<repr, manager, have, kind, cancel, prep, svc, command, careful>>

----------------------------------------------------------------------------
(* Execution of a START goal. *)

\* representation_type is the goal's, or what it was.
BeginRun(g, r) ==
  /\ kind[g] = "run" /\ pc[g] = "accepted"
  /\ repr' = r /\ state' = "running" /\ Go(g, "top")
  /\ UNCHANGED <<manager, have, kind, cancel, prep, svc, command, careful>>

\* The finally block of the loop, when no tick has failed.
Leave(g) == /\ state' = IF policy # None THEN "ready" ELSE "idle"
            /\ Go(g, "done")
Canceled(g) ==
  /\ kind[g] = "run" /\ pc[g] = "top" /\ cancel[g] /\ Leave(g)
  /\ UNCHANGED <<repr, manager, have, kind, cancel, prep, svc, command, careful>>

\* get_latest_observation: until every input has come once, ticks are skipped.
Observe(g) ==
  /\ kind[g] = "run" /\ pc[g] = "top" /\ ~cancel[g]
  /\ repr \in Reprs /\ Needs[repr] \subseteq have /\ Go(g, "tick")
  /\ UNCHANGED <<server, manager, have, kind, cancel, prep, svc, command, careful>>
\* Another type leaves robot_data unset: the exception leaves the loop, whose
\* finally block has no error to show.
ObserveRaises(g) ==
  /\ kind[g] = "run" /\ pc[g] = "top" /\ ~cancel[g]
  /\ repr = Other /\ Needs[Other] \subseteq have /\ Leave(g)
  /\ UNCHANGED <<repr, manager, have, kind, cancel, prep, svc, command, careful>>

\* predict reads the policy, the preprocessor, and the policy again.
Prepare(g) ==
  /\ kind[g] = "run" /\ pc[g] = "tick" /\ policy # None
  /\ prep' = [prep EXCEPT ![g] = pre] /\ Go(g, "prepared")
  /\ UNCHANGED <<server, manager, have, kind, cancel, svc, command, careful>>
PredictFails(g) ==
  /\ kind[g] = "run" /\ pc[g] \in {"tick", "prepared"} /\ Go(g, "broken")
  /\ prep' = [prep EXCEPT ![g] = None]
  /\ UNCHANGED <<server, manager, have, kind, cancel, svc, command, careful>>
\* _publish_action: with a type that is not supported nothing goes out, and the
\* step counts.
LoopCommand(g) ==
  IF repr \in Reprs THEN [by |-> "loop", own |-> prep[g] = policy] ELSE command
Act(g) ==
  /\ kind[g] = "run" /\ pc[g] = "prepared" /\ policy # None /\ Go(g, "top")
  /\ command' = LoopCommand(g)
  /\ prep' = [prep EXCEPT ![g] = None]
  /\ UNCHANGED <<server, manager, have, kind, cancel, svc, careful>>
Fail(g) ==
  /\ kind[g] = "run" /\ pc[g] = "broken"
  /\ state' = "error" /\ Go(g, "done")
  /\ UNCHANGED <<repr, manager, have, kind, cancel, prep, svc, command, careful>>

----------------------------------------------------------------------------
(* Services and subscriptions. *)

UnloadCall ==
  /\ svc = "free" /\ MaySend /\ state \notin {"running", "loading"}
  /\ svc' = IF policy # None THEN "unload" ELSE "unloaded"
  /\ UNCHANGED <<server, manager, have, goalVars, command, careful>>
UnloadPolicy ==
  /\ svc = "unload" /\ policy' = None /\ svc' = "processors"
  /\ UNCHANGED <<server, pre, have, goalVars, command, careful>>
UnloadProcessors ==
  /\ svc = "processors" /\ pre' = None /\ svc' = "unloaded"
  /\ UNCHANGED <<server, policy, have, goalVars, command, careful>>
UnloadEnds ==
  /\ svc = "unloaded" /\ state' = "idle" /\ svc' = "free"
  /\ UNCHANGED <<repr, manager, have, goalVars, command, careful>>

MoveCall ==
  /\ svc = "free" /\ MaySend /\ state # "running" /\ svc' = "move"
  /\ UNCHANGED <<server, manager, have, goalVars, command, careful>>
\* The pose is known and long enough for the type (or the gripper), or refused.
PoseCommand(fits) == IF fits THEN [by |-> "pose", own |-> TRUE] ELSE command
MoveEnds ==
  /\ svc = "move" /\ svc' = "free"
  /\ \E fits \in BOOLEAN : command' = PoseCommand(fits)
  /\ UNCHANGED <<server, manager, have, goalVars, careful>>

Receive(r) ==
  /\ r \notin have /\ have' = have \cup {r}
  /\ UNCHANGED <<server, manager, goalVars, svc, command, careful>>
----------------------------------------------------------------------------
LoadStep(g) ==
  \/ BeginLoad(g) \/ CheckLoad(g) \/ DropPolicy(g) \/ DropProcessors(g)
  \/ ReadFails(g) \/ SetPolicy(g) \/ SetProcessors(g) \/ EndLoad(g)
LoopStep(g) ==
  \/ \E r \in Reprs \cup {Other} : BeginRun(g, r)
  \/ Canceled(g) \/ Observe(g) \/ ObserveRaises(g) \/ Prepare(g)
  \/ PredictFails(g) \/ Act(g) \/ Fail(g)
ServiceStep ==
  \/ UnloadPolicy \/ UnloadProcessors \/ UnloadEnds
  \/ MoveEnds
ClientStep ==
  \/ \E g \in Goals : SendLoad(g) \/ SendRun(g) \/ SendStop(g) \/ SendCancel(g)
  \/ UnloadCall \/ MoveCall
Next ==
  \/ ClientStep \/ ServiceStep
  \/ \E g \in Goals : LoadStep(g) \/ LoopStep(g)
  \/ \E r \in Roles : Receive(r)

Spec == Init /\ [][Next]_vars

----------------------------------------------------------------------------
TypeOK ==
  /\ state \in States /\ repr \in Reprs \cup {Other}
  /\ policy \in Goals \cup {None} /\ pre \in Goals \cup {None}
  /\ have \subseteq Roles
  /\ kind \in [Goals -> {"unsent", "load", "run", "stop"}]
  /\ pc \in [Goals -> {"unsent", "done"} \cup LoadPcs \cup LoopPcs]
  /\ cancel \in [Goals -> BOOLEAN] /\ prep \in [Goals -> Goals \cup {None}]
  /\ svc \in {"free", "unload", "processors", "unloaded", "move"}
  /\ command \in [by : {"nobody", "pose", "loop"}, own : BOOLEAN]
  /\ careful \in BOOLEAN

\* Whatever the clients do, the status never stays at running or loading when
\* nothing runs or loads: each execution ends by setting another state, also
\* when a tick fails, raises or is cancelled.
StatusHonest ==
  /\ state = "running" => Loops # {}
  /\ state = "loading" => Loads # {}

\* With careful clients the two checks of the state at the goal callbacks are
\* enough: one loop at most, alone, and the status says so.
OneLoop ==
  careful => /\ Cardinality(Loops) <= 1
             /\ Loops # {} => state = "running" /\ Loads = {} /\ svc = "free"

\* With careful clients an action is computed by a policy with its own
\* preprocessor, although both are replaced piecemeal and read piecemeal.
OwnProcessors == careful => command.own

\* With careful clients, between requests the status tells whether a policy can
\* be run: idle has none, ready has a whole one.
StatusAtRest ==
  careful /\ Quiet =>
    /\ pre = policy /\ state \notin {"running", "loading"}
    /\ state = "idle" => policy = None
    /\ state = "ready" => policy # None


\* Every accepted load is answered, and every cancelled loop ends: nothing that
\* somebody waits for is left over.
Unanswered == {g \in Goals : (kind[g] = "load" \/ cancel[g]) /\ pc[g] # "done"}
GoalsAnswered == []<>(Unanswered = {})

\* The state machine of the server holds what its callbacks rely on, although
\* each looks at the state first and acts on it later (max_server.py:440-640).
MaxServerSafe == TypeOK /\ StatusHonest /\ OneLoop /\ OwnProcessors /\ StatusAtRest
=============================================================================
