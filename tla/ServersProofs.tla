--------------------------- MODULE ServersProofs ----------------------------
(***************************************************************************)
(* Proofs about the servers: max_server's state machine, the bridge with    *)
(* the page that moves the arm, and the model server.  Each part has its    *)
(* own inductive invariant; Servers moves one of the three at a time, so    *)
(* their conjunction is an invariant of ServersSpec.                        *)
(***************************************************************************)
EXTENDS Servers, SequenceTheorems, FiniteSetTheorems, TLAPS

USE NeedsAssumption, NoneAssumption, OtherAssumption, MaxGoalsAssumption
    DEF NeedsAssumption, NoneAssumption, OtherAssumption, MaxGoalsAssumption

-----------------------------------------------------------------------------
(* max_server.                                                             *)

\* An accepted goal that is not over.
Open(g) == pc[g] \notin {"unsent", "done"}

\* With careful clients one request is open at a time; a loop is seen in the state.
AloneInv ==
  careful =>
    /\ \A g, h \in Goals : Open(g) /\ Open(h) => g = h
    /\ svc # "free" => \A g \in Goals : ~Open(g)
    /\ Loops # {} => state = "running"

\* Goals are where their kind allows.
KindInv ==
  \A g \in Goals :
    /\ pc[g] \in LoopPcs => kind[g] = "run"
    /\ pc[g] \in LoadPcs \ {"accepted"} => kind[g] = "load"
    /\ pc[g] = "accepted" => kind[g] \in {"load", "run"}

\* What careful clients find in the place of the policy, at each step of a goal.
PartsInv ==
  careful =>
    /\ command.own
    /\ \A g \in Goals :
         /\ pc[g] \in {"accepted", "begun", "clear", "failed", "reading", "loaded"} \cup LoopPcs => pre = policy
         /\ pc[g] \in LoopPcs \cup {"loaded"} \/ (pc[g] = "accepted" /\ kind[g] = "run") => policy # None
         /\ pc[g] \in {"cleared", "undone", "reading"} => policy = None
         /\ pc[g] = "named" => policy = g
         /\ pc[g] = "prepared" => prep[g] = policy
    /\ svc \in {"processors", "unloaded"} => policy = None
    /\ svc \in {"unload", "unloaded", "move"} => pre = policy
    /\ (\A g \in Goals : ~Open(g)) /\ svc = "free" => pre = policy
    /\ (\A g \in Goals : ~Open(g)) /\ svc \in {"free", "move"} =>
         (state = "idle" => policy = None) /\ (state = "ready" => policy # None)

MaxInv == TypeOK /\ StatusHonest /\ KindInv /\ AloneInv /\ PartsInv

(* Initially nothing is loaded, nothing runs and no request is open. *)
LEMMA InitMax == Init => MaxInv
<1> SUFFICES ASSUME Init PROVE MaxInv
  OBVIOUS
<1> USE DEF Init
<1>1. TypeOK
  BY DEF TypeOK, States, LoadPcs, LoopPcs
<1>2. KindInv
  BY DEF KindInv, LoadPcs, LoopPcs
<1>3. Loops = {} /\ \A g \in Goals : ~Open(g)
  BY DEF Loops, Alive, LoopPcs, Open
<1>4. StatusHonest /\ AloneInv
  BY <1>3 DEF StatusHonest, AloneInv
<1>5. PartsInv
  BY <1>3 DEF PartsInv, LoopPcs
<1> QED BY <1>1, <1>2, <1>4, <1>5 DEF MaxInv

(* Every step keeps the types. *)
LEMMA TypeStep == TypeOK /\ [Next]_vars => TypeOK'
<1> SUFFICES ASSUME TypeOK, [Next]_vars PROVE TypeOK'
  OBVIOUS
<1> USE DEF TypeOK, States, LoadPcs, LoopPcs, Go, server, manager, goalVars
<1>1. ASSUME NEW g \in Goals, SendLoad(g) \/ SendRun(g) \/ SendStop(g) \/ SendCancel(g) PROVE TypeOK'
  BY ZenonT(30), <1>1 DEF SendLoad, SendRun, SendStop, SendCancel
<1>2. ASSUME UnloadCall \/ MoveCall \/ ServiceStep PROVE TypeOK'
  <2>1. CASE UnloadCall \/ MoveCall
    BY <2>1 DEF UnloadCall, MoveCall
  <2>2. CASE UnloadPolicy \/ UnloadProcessors \/ UnloadEnds
    BY <2>2 DEF UnloadPolicy, UnloadProcessors, UnloadEnds
  <2>3. CASE MoveEnds
    BY <2>3 DEF MoveEnds, PoseCommand
  <2> QED BY <1>2, <2>1, <2>2, <2>3 DEF ServiceStep
<1>3. ASSUME NEW g \in Goals, LoadStep(g) PROVE TypeOK'
  <2>1. CASE BeginLoad(g) \/ CheckLoad(g) \/ ReadFails(g) \/ EndLoad(g)
    BY <2>1 DEF BeginLoad, CheckLoad, ReadFails, EndLoad
  <2>2. CASE DropPolicy(g) \/ DropProcessors(g) \/ SetPolicy(g) \/ SetProcessors(g)
    BY <2>2 DEF DropPolicy, DropProcessors, SetPolicy, SetProcessors
  <2> QED BY <1>3, <2>1, <2>2 DEF LoadStep
<1>4. ASSUME NEW g \in Goals, LoopStep(g) PROVE TypeOK'
  <2>1. ASSUME NEW r \in Reprs \cup {Other}, BeginRun(g, r) PROVE TypeOK'
    BY <2>1 DEF BeginRun
  <2>2. CASE Canceled(g) \/ Observe(g) \/ ObserveRaises(g) \/ Fail(g)
    BY <2>2 DEF Canceled, Observe, ObserveRaises, Fail, Leave
  <2>3. CASE Prepare(g) \/ PredictFails(g)
    BY <2>3 DEF Prepare, PredictFails
  <2>4. CASE Act(g)
    BY <2>4 DEF Act, LoopCommand
  <2> QED BY <1>4, <2>1, <2>2, <2>3, <2>4 DEF LoopStep
<1>5. ASSUME NEW r \in Roles, Receive(r) PROVE TypeOK'
  BY <1>5 DEF Receive
<1>6. ASSUME UNCHANGED vars PROVE TypeOK'
  BY <1>6 DEF vars
<1> QED BY <1>1, <1>2, <1>3, <1>4, <1>5, <1>6 DEF Next, ClientStep

(* Every step keeps goals where their kind allows. *)
LEMMA KindStep == TypeOK /\ KindInv /\ [Next]_vars => KindInv'
<1> SUFFICES ASSUME TypeOK, KindInv, [Next]_vars PROVE KindInv'
  OBVIOUS
<1> USE DEF TypeOK, KindInv, LoadPcs, LoopPcs, Go, server, manager, goalVars
<1>1. ASSUME NEW g \in Goals, SendLoad(g) \/ SendRun(g) \/ SendStop(g) \/ SendCancel(g) PROVE KindInv'
  BY <1>1 DEF SendLoad, SendRun, SendStop, SendCancel, FirstUnsent
<1>2. ASSUME UnloadCall \/ MoveCall \/ ServiceStep PROVE KindInv'
  BY <1>2 DEF UnloadCall, MoveCall, ServiceStep, UnloadPolicy, UnloadProcessors, UnloadEnds, MoveEnds
<1>3. ASSUME NEW g \in Goals, LoadStep(g) PROVE KindInv'
  <2>1. CASE BeginLoad(g) \/ CheckLoad(g) \/ ReadFails(g) \/ EndLoad(g)
    BY <2>1 DEF BeginLoad, CheckLoad, ReadFails, EndLoad
  <2>2. CASE DropPolicy(g) \/ DropProcessors(g) \/ SetPolicy(g) \/ SetProcessors(g)
    BY <2>2 DEF DropPolicy, DropProcessors, SetPolicy, SetProcessors
  <2> QED BY <1>3, <2>1, <2>2 DEF LoadStep
<1>4. ASSUME NEW g \in Goals, LoopStep(g) PROVE KindInv'
  <2>1. ASSUME NEW r \in Reprs \cup {Other}, BeginRun(g, r) PROVE KindInv'
    BY <2>1 DEF BeginRun
  <2>2. CASE Canceled(g) \/ Observe(g) \/ ObserveRaises(g) \/ Fail(g)
    BY <2>2 DEF Canceled, Observe, ObserveRaises, Fail, Leave
  <2>3. CASE Prepare(g) \/ PredictFails(g) \/ Act(g)
    BY <2>3 DEF Prepare, PredictFails, Act
  <2> QED BY <1>4, <2>1, <2>2, <2>3 DEF LoopStep
<1>5. ASSUME NEW r \in Roles, Receive(r) PROVE KindInv'
  BY <1>5 DEF Receive
<1>6. ASSUME UNCHANGED vars PROVE KindInv'
  BY <1>6 DEF vars
<1> QED BY <1>1, <1>2, <1>3, <1>4, <1>5, <1>6 DEF Next, ClientStep

(* Only BeginRun and BeginLoad set running and loading; who leaves sets
   another state. *)
LEMMA HonestStep == TypeOK /\ KindInv /\ StatusHonest /\ [Next]_vars => StatusHonest'
<1> SUFFICES ASSUME TypeOK, KindInv, StatusHonest, [Next]_vars PROVE StatusHonest'
  OBVIOUS
<1> USE DEF TypeOK, KindInv, LoadPcs, LoopPcs, Go, server, manager, goalVars, Loops, Loads, Alive, StatusHonest
<1>1. ASSUME NEW g \in Goals, SendLoad(g) \/ SendRun(g) \/ SendStop(g) \/ SendCancel(g) PROVE StatusHonest'
  BY <1>1 DEF SendLoad, SendRun, SendStop, SendCancel, FirstUnsent
<1>2. ASSUME UnloadCall \/ MoveCall \/ ServiceStep PROVE StatusHonest'
  BY <1>2 DEF UnloadCall, MoveCall, ServiceStep, UnloadPolicy, UnloadProcessors, UnloadEnds, MoveEnds
<1>3. ASSUME NEW g \in Goals, LoadStep(g) PROVE StatusHonest'
  <2>1. CASE BeginLoad(g) \/ EndLoad(g)
    BY <2>1 DEF BeginLoad, EndLoad
  <2>2. CASE CheckLoad(g) \/ ReadFails(g)
    BY <2>2 DEF CheckLoad, ReadFails
  <2>3. CASE DropPolicy(g) \/ DropProcessors(g) \/ SetPolicy(g) \/ SetProcessors(g)
    BY <2>3 DEF DropPolicy, DropProcessors, SetPolicy, SetProcessors
  <2> QED BY <1>3, <2>1, <2>2, <2>3 DEF LoadStep
<1>4. ASSUME NEW g \in Goals, LoopStep(g) PROVE StatusHonest'
  <2>1. ASSUME NEW r \in Reprs \cup {Other}, BeginRun(g, r) PROVE StatusHonest'
    BY <2>1 DEF BeginRun
  <2>2. CASE Canceled(g) \/ ObserveRaises(g) \/ Fail(g)
    BY <2>2 DEF Canceled, ObserveRaises, Fail, Leave
  <2>3. CASE Prepare(g) \/ PredictFails(g) \/ Act(g) \/ Observe(g)
    BY <2>3 DEF Prepare, PredictFails, Act, Observe
  <2> QED BY <1>4, <2>1, <2>2, <2>3 DEF LoopStep
<1>5. ASSUME NEW r \in Roles, Receive(r) PROVE StatusHonest'
  BY <1>5 DEF Receive
<1>6. ASSUME UNCHANGED vars PROVE StatusHonest'
  BY <1>6 DEF vars
<1> QED BY <1>1, <1>2, <1>3, <1>4, <1>5, <1>6 DEF Next, ClientStep

(* A careful client that may send while nothing runs finds no goal open. *)
LEMMA NothingOpen ==
  ASSUME TypeOK, KindInv, AloneInv, careful, MaySend, state # "running"
  PROVE  svc = "free" /\ \A g \in Goals : ~Open(g)
BY DEF TypeOK, KindInv, AloneInv, MaySend, Open, Pending, Loads, Loops, Alive, LoadPcs, LoopPcs

(* A careful client sends nothing while a request is open or a loop runs. *)
LEMMA AloneStep == TypeOK /\ KindInv /\ AloneInv /\ [Next]_vars => AloneInv'
<1> SUFFICES ASSUME TypeOK, KindInv, AloneInv, [Next]_vars, careful' PROVE AloneInv'
  BY DEF AloneInv
<1> USE DEF LoadPcs, LoopPcs, Go, server, manager, goalVars, Loops, Alive, Open
<1>0. careful
  BY DEF Next, vars, ClientStep, ServiceStep, LoadStep, LoopStep, SendLoad, SendRun, SendStop, SendCancel,
     UnloadCall, MoveCall, UnloadPolicy, UnloadProcessors, UnloadEnds, MoveEnds, Receive,
     BeginLoad, CheckLoad, ReadFails, EndLoad, DropPolicy, DropProcessors, SetPolicy, SetProcessors,
     BeginRun, Canceled, Observe, ObserveRaises, Fail, Prepare, PredictFails, Act
<1>1. ASSUME NEW g \in Goals, SendLoad(g) \/ SendRun(g) PROVE AloneInv'
  <2>1. MaySend /\ state # "running" /\ UNCHANGED <<state, svc>>
    BY <1>1 DEF SendLoad, SendRun, LoadAllowed, RunAllowed
  <2>2. svc = "free" /\ \A h \in Goals : ~Open(h)
    BY <1>0, <2>1, NothingOpen
  <2>3. pc'[g] = "accepted" /\ \A h \in Goals \ {g} : pc'[h] = pc[h]
    BY <1>1 DEF SendLoad, SendRun, TypeOK
  <2>4. \A h \in Goals : pc'[h] \notin LoopPcs
    BY <2>2, <2>3
  <2> QED BY <2>1, <2>2, <2>3, <2>4 DEF AloneInv
<1>2. ASSUME NEW g \in Goals, SendStop(g) \/ SendCancel(g) PROVE AloneInv'
  BY <1>0, <1>2 DEF SendStop, SendCancel, FirstUnsent, AloneInv, TypeOK
<1>3. ASSUME UnloadCall \/ MoveCall PROVE AloneInv'
  <2>1. MaySend /\ state # "running" /\ UNCHANGED <<state, pc, kind>>
    BY <1>3 DEF UnloadCall, MoveCall
  <2>2. \A h \in Goals : ~Open(h)
    BY <1>0, <2>1, NothingOpen
  <2>3. Loops' = Loops
    BY <2>1
  <2> QED BY <1>0, <2>1, <2>2, <2>3 DEF AloneInv
<1>4. ASSUME ServiceStep PROVE AloneInv'
  <2>1. svc # "free" /\ UNCHANGED <<pc, kind>>
    BY <1>4 DEF ServiceStep, UnloadPolicy, UnloadProcessors, UnloadEnds, MoveEnds
  <2> QED BY <1>0, <2>1 DEF AloneInv
<1>5. ASSUME NEW g \in Goals, LoadStep(g) PROVE AloneInv'
  <2>1. Open(g) /\ pc'[g] \in LoadPcs \cup {"done"} /\ (\A h \in Goals \ {g} : pc'[h] = pc[h]) /\ kind' = kind
        /\ svc' = svc /\ kind[g] = "load"
    <3>1. CASE BeginLoad(g) \/ CheckLoad(g) \/ ReadFails(g) \/ EndLoad(g)
      BY <3>1 DEF BeginLoad, CheckLoad, ReadFails, EndLoad, TypeOK
    <3>2. CASE DropPolicy(g) \/ DropProcessors(g) \/ SetPolicy(g) \/ SetProcessors(g)
      BY <3>2 DEF DropPolicy, DropProcessors, SetPolicy, SetProcessors, TypeOK
    <3> QED BY <1>5, <3>1, <3>2 DEF LoadStep
  <2> QED BY <1>0, <2>1 DEF AloneInv, KindInv
<1>6. ASSUME NEW g \in Goals, LoopStep(g) PROVE AloneInv'
  <2>1. /\ Open(g) /\ pc'[g] \in LoopPcs \cup {"done"} /\ (\A h \in Goals \ {g} : pc'[h] = pc[h])
        /\ kind' = kind /\ svc' = svc /\ kind[g] = "run" /\ pc[g] \in LoopPcs \cup {"accepted"}
        /\ pc'[g] = "done" \/ state' = state \/ state' = "running"
        /\ pc[g] = "accepted" => state' = "running"
    <3>1. ASSUME NEW r \in Reprs \cup {Other}, BeginRun(g, r) PROVE <2>1!:
      BY <3>1 DEF BeginRun, TypeOK
    <3>2. CASE Canceled(g) \/ ObserveRaises(g) \/ Fail(g)
      BY <3>2 DEF Canceled, ObserveRaises, Fail, Leave, TypeOK
    <3>3. CASE Prepare(g) \/ PredictFails(g) \/ Act(g) \/ Observe(g)
      BY <3>3 DEF Prepare, PredictFails, Act, Observe, TypeOK
    <3> QED BY <1>6, <3>1, <3>2, <3>3 DEF LoopStep
  <2>2. \A h \in Goals \ {g} : ~Open(h) /\ h \notin Loops'
    BY <1>0, <2>1 DEF AloneInv
  <2> QED BY <1>0, <2>1, <2>2 DEF AloneInv, KindInv
<1>7. ASSUME NEW r \in Roles, Receive(r) PROVE AloneInv'
  BY <1>0, <1>7 DEF Receive, AloneInv
<1>8. ASSUME UNCHANGED vars PROVE AloneInv'
  BY <1>0, <1>8 DEF vars, AloneInv
<1> QED BY <1>1, <1>2, <1>3, <1>4, <1>5, <1>6, <1>7, <1>8 DEF Next, ClientStep

(* Every step keeps what is found in the place of the policy. *)
LEMMA PartsStep == MaxInv /\ [Next]_vars => PartsInv'
<1> SUFFICES ASSUME MaxInv, [Next]_vars, careful' PROVE PartsInv'
  BY DEF PartsInv
<1> USE DEF LoadPcs, LoopPcs, Go, server, manager, goalVars, Open
<1>0. /\ careful /\ TypeOK /\ KindInv /\ AloneInv /\ PartsInv
  BY DEF MaxInv, Next, vars, ClientStep, ServiceStep, LoadStep, LoopStep, SendLoad, SendRun, SendStop, SendCancel,
     UnloadCall, MoveCall, UnloadPolicy, UnloadProcessors, UnloadEnds, MoveEnds, Receive,
     BeginLoad, CheckLoad, ReadFails, EndLoad, DropPolicy, DropProcessors, SetPolicy, SetProcessors,
     BeginRun, Canceled, Observe, ObserveRaises, Fail, Prepare, PredictFails, Act
<1>1. ASSUME NEW g \in Goals, SendLoad(g) \/ SendRun(g) PROVE PartsInv'
  <2>1. MaySend /\ state # "running" /\ UNCHANGED <<state, svc, policy, pre, prep, command>>
    BY <1>1 DEF SendLoad, SendRun, LoadAllowed, RunAllowed
  <2>2. svc = "free" /\ \A h \in Goals : ~Open(h)
    BY <1>0, <2>1, NothingOpen
  <2>3. /\ pc'[g] = "accepted" /\ \A h \in Goals \ {g} : pc'[h] = pc[h]
        /\ kind'[g] = "run" => policy # None
    BY <1>0, <1>1 DEF SendLoad, SendRun, RunAllowed, TypeOK
  <2> QED BY <1>0, <2>1, <2>2, <2>3 DEF PartsInv
<1>2. ASSUME NEW g \in Goals, SendStop(g) \/ SendCancel(g) PROVE PartsInv'
  <2>1. /\ UNCHANGED <<state, svc, policy, pre, prep, command>>
        /\ \A h \in Goals : (pc'[h] = pc[h] /\ kind'[h] = kind[h]) \/ (pc'[h] = "done" /\ pc[h] = "unsent")
    BY <1>0, <1>2 DEF SendStop, SendCancel, FirstUnsent, TypeOK
  <2> QED BY <1>0, <2>1 DEF PartsInv
<1>3. ASSUME UnloadCall \/ MoveCall PROVE PartsInv'
  <2>1. /\ MaySend /\ state # "running" /\ UNCHANGED <<state, pc, kind, policy, pre, prep, command>>
        /\ svc' \in {"unload", "unloaded", "move"} /\ (svc' = "unloaded" => policy = None)
    BY <1>3 DEF UnloadCall, MoveCall
  <2>2. svc = "free" /\ \A h \in Goals : ~Open(h)
    BY <1>0, <2>1, NothingOpen
  <2> QED BY <1>0, <2>1, <2>2 DEF PartsInv
<1>4. ASSUME ServiceStep PROVE PartsInv'
  <2>1. svc # "free" /\ UNCHANGED <<pc, kind, prep>> /\ \A h \in Goals : ~Open(h)
    BY <1>0, <1>4 DEF AloneInv, ServiceStep, UnloadPolicy, UnloadProcessors, UnloadEnds, MoveEnds
  <2>2. CASE UnloadPolicy \/ UnloadProcessors \/ UnloadEnds
    BY <1>0, <2>1, <2>2 DEF PartsInv, UnloadPolicy, UnloadProcessors, UnloadEnds
  <2>3. CASE MoveEnds
    BY <1>0, <2>1, <2>3 DEF PartsInv, MoveEnds, PoseCommand
  <2> QED BY <1>4, <2>2, <2>3 DEF ServiceStep
<1>5. ASSUME NEW g \in Goals, LoadStep(g) PROVE PartsInv'
  <2>1. Open(g) /\ kind[g] = "load" /\ UNCHANGED <<kind, svc, command, prep>>
        /\ svc = "free" /\ \A h \in Goals \ {g} : ~Open(h)
    <3>1. CASE BeginLoad(g) \/ CheckLoad(g) \/ ReadFails(g) \/ EndLoad(g)
      BY <1>0, <3>1 DEF AloneInv, BeginLoad, CheckLoad, ReadFails, EndLoad, TypeOK
    <3>2. CASE DropPolicy(g) \/ DropProcessors(g) \/ SetPolicy(g) \/ SetProcessors(g)
      BY <1>0, <3>2 DEF AloneInv, DropPolicy, DropProcessors, SetPolicy, SetProcessors, TypeOK
    <3> QED BY <1>5, <3>1, <3>2 DEF LoadStep
  <2>2. \A h \in Goals \ {g} : pc'[h] = pc[h]
    <3>1. CASE BeginLoad(g) \/ CheckLoad(g) \/ ReadFails(g) \/ EndLoad(g)
      BY <1>0, <3>1 DEF BeginLoad, CheckLoad, ReadFails, EndLoad, TypeOK
    <3>2. CASE DropPolicy(g) \/ DropProcessors(g) \/ SetPolicy(g) \/ SetProcessors(g)
      BY <1>0, <3>2 DEF DropPolicy, DropProcessors, SetPolicy, SetProcessors, TypeOK
    <3> QED BY <1>5, <3>1, <3>2 DEF LoadStep
  <2>3. /\ pc'[g] \in {"begun", "clear", "reading", "failed", "loaded"} => pre' = policy'
        /\ pc'[g] \in {"cleared", "undone", "reading"} => policy' = None
        /\ pc'[g] = "named" => policy' = g
        /\ pc'[g] = "loaded" => policy' # None
        /\ pc'[g] = "done" => /\ pre' = policy'
                              /\ state' = "idle" => policy' = None
                              /\ state' = "ready" => policy' # None
        /\ pc'[g] \notin LoopPcs \cup {"accepted", "unsent"}
    <3>1. CASE BeginLoad(g)
      BY <1>0, <3>1 DEF PartsInv, BeginLoad, TypeOK
    <3>2. CASE CheckLoad(g)
      BY <1>0, <3>2 DEF PartsInv, CheckLoad, TypeOK
    <3>3. CASE DropPolicy(g)
      BY <1>0, <3>3 DEF PartsInv, DropPolicy, TypeOK
    <3>4. CASE DropProcessors(g)
      BY <1>0, <3>4 DEF PartsInv, DropProcessors, TypeOK
    <3>5. CASE ReadFails(g) \/ SetPolicy(g)
      BY <1>0, <3>5 DEF PartsInv, ReadFails, SetPolicy, TypeOK
    <3>6. CASE SetProcessors(g)
      BY <1>0, <3>6 DEF PartsInv, SetProcessors, TypeOK, Goals
    <3>7. CASE EndLoad(g)
      BY <1>0, <3>7 DEF PartsInv, EndLoad, TypeOK
    <3> QED BY <1>5, <3>1, <3>2, <3>3, <3>4, <3>5, <3>6, <3>7 DEF LoadStep
  <2> QED BY <1>0, <2>1, <2>2, <2>3 DEF PartsInv
<1>6. ASSUME NEW g \in Goals, LoopStep(g) PROVE PartsInv'
  <2>1. /\ Open(g) /\ kind[g] = "run" /\ UNCHANGED <<kind, svc, policy, pre>>
        /\ svc = "free" /\ (\A h \in Goals \ {g} : ~Open(h))
        /\ pre = policy /\ policy # None
    <3>1. ASSUME NEW r \in Reprs \cup {Other}, BeginRun(g, r) PROVE <2>1!:
      BY <1>0, <3>1 DEF AloneInv, PartsInv, BeginRun, TypeOK
    <3>2. CASE Canceled(g) \/ ObserveRaises(g) \/ Fail(g)
      BY <1>0, <3>2 DEF AloneInv, PartsInv, Canceled, ObserveRaises, Fail, Leave, TypeOK
    <3>3. CASE Prepare(g) \/ PredictFails(g) \/ Act(g) \/ Observe(g)
      BY <1>0, <3>3 DEF AloneInv, PartsInv, Prepare, PredictFails, Act, Observe, TypeOK
    <3> QED BY <1>6, <3>1, <3>2, <3>3 DEF LoopStep
  <2>2. /\ \A h \in Goals \ {g} : pc'[h] = pc[h]
        /\ pc'[g] \in LoopPcs \cup {"done"} /\ (pc'[g] = "prepared" => prep'[g] = policy) /\ command'.own
        /\ pc'[g] = "done" => state' \in {"ready", "error"}
    <3>0. command.own
      BY <1>0 DEF PartsInv
    <3>1. ASSUME NEW r \in Reprs \cup {Other}, BeginRun(g, r) PROVE <2>2!:
      BY <1>0, <3>0, <3>1 DEF BeginRun, TypeOK
    <3>2. CASE Canceled(g) \/ ObserveRaises(g) \/ Fail(g)
      BY <1>0, <2>1, <3>0, <3>2 DEF Canceled, ObserveRaises, Fail, Leave, TypeOK
    <3>3. CASE Prepare(g) \/ PredictFails(g) \/ Observe(g)
      BY <1>0, <2>1, <3>0, <3>3 DEF Prepare, PredictFails, Observe, TypeOK
    <3>4. CASE Act(g)
      BY <1>0, <2>1, <3>0, <3>4 DEF PartsInv, Act, LoopCommand, TypeOK
    <3> QED BY <1>6, <3>1, <3>2, <3>3, <3>4 DEF LoopStep
  <2> QED BY <1>0, <2>1, <2>2 DEF PartsInv
<1>7. ASSUME NEW r \in Roles, Receive(r) PROVE PartsInv'
  BY <1>0, <1>7 DEF Receive, PartsInv
<1>8. ASSUME UNCHANGED vars PROVE PartsInv'
  BY <1>0, <1>8 DEF vars, PartsInv
<1> QED BY <1>1, <1>2, <1>3, <1>4, <1>5, <1>6, <1>7, <1>8 DEF Next, ClientStep

(* The invariant of max_server is inductive. *)
LEMMA MaxStep == MaxInv /\ [Next]_vars => MaxInv'
BY TypeStep, KindStep, HonestStep, AloneStep, PartsStep DEF MaxInv

(* A set whose elements are all equal. *)
LEMMA AtMostOne == ASSUME NEW S, \A x, y \in S : x = y PROVE Cardinality(S) <= 1
<1>1. CASE S = {}
  BY <1>1, FS_EmptySet
<1>2. ASSUME NEW x \in S PROVE Cardinality(S) <= 1
  <2>1. S = {x}
    OBVIOUS
  <2>2. Cardinality({x}) = 1
    BY FS_Singleton, Zenon
  <2> QED BY <2>1, <2>2
<1> QED BY <1>1, <1>2

(* It implies what is checked of max_server. *)
LEMMA MaxImplies == MaxInv => MaxServerSafe
<1> SUFFICES ASSUME MaxInv PROVE MaxServerSafe
  OBVIOUS
<1>0. TypeOK /\ StatusHonest /\ KindInv /\ AloneInv /\ PartsInv
  BY DEF MaxInv
<1>1. ASSUME careful PROVE OneLoop
  <2>1. \A g, h \in Loops : g = h
    BY <1>0, <1>1 DEF AloneInv, Loops, Alive, LoopPcs, Open
  <2>4. Loops # {} => Loads = {} /\ svc = "free"
    BY <1>0, <1>1 DEF AloneInv, KindInv, Loops, Loads, Alive, LoopPcs, LoadPcs, Open
  <2>5. Loops # {} => state = "running"
    BY <1>0, <1>1 DEF AloneInv
  <2>6. Cardinality(Loops) <= 1
    BY <2>1, AtMostOne
  <2> QED BY <2>4, <2>5, <2>6, Zenon DEF OneLoop
<1>2. OwnProcessors
  BY <1>0 DEF OwnProcessors, PartsInv
<1>3. StatusAtRest
  <2> SUFFICES ASSUME careful, Quiet PROVE StatusAtRest!2
    BY DEF StatusAtRest
  <2>1. svc = "free" /\ \A g \in Goals : ~Open(g)
    BY <1>0 DEF Quiet, TypeOK, KindInv, Open, Pending, Loads, Loops, Alive, LoadPcs, LoopPcs
  <2>2. Loops = {} /\ Loads = {}
    BY DEF Quiet
  <2> QED BY <1>0, <2>1, <2>2 DEF PartsInv, StatusHonest
<1> QED BY <1>0, <1>1, <1>2, <1>3 DEF MaxServerSafe, OneLoop
-----------------------------------------------------------------------------

-----------------------------------------------------------------------------
(* The bridge and its page.                                                *)

USE NobodyAssumption, ClientsAssumption, BoundsAssumption
    DEF NobodyAssumption, ClientsAssumption, BoundsAssumption

News == [event : {"granted", "revoked"}, source : Clients]
Message == [topic : Topics \cup {"robot", "gripper"}, command : Clients \X Nat]

\* c is the owner that a page which knows of o shows after the notifications s.
ShownAfter(o, s, c) ==
  \E i \in 0..Len(s) :
    /\ IF i = 0 THEN o = c ELSE s[i] = Granted(c)
    /\ \A k \in (i + 1)..Len(s) : s[k].event = "revoked" /\ s[k].source # c

\* A page that does not listen yet has heard nothing.
OwnerInv ==
  /\ told \in Seq(News) /\ owner \in Clients \cup {NoClient} /\ holder \in Clients \cup {NoClient}
  /\ listening \in BOOLEAN /\ lapsed \in BOOLEAN
  /\ ~listening => told = <<>> /\ owner = NoClient
  /\ OwnerKnown

(* One more notification. *)
LEMMA ShownAppend ==
  ASSUME NEW s \in Seq(News), NEW n \in News, NEW o, NEW c \in Clients,
         ShownAfter(o, Append(s, n), c)
  PROVE  n = Granted(c) \/ (n.event = "revoked" /\ n.source # c /\ ShownAfter(o, s, c))
<1> DEFINE t == Append(s, n)
<1>1. /\ Len(s) \in Nat /\ Len(t) = Len(s) + 1 /\ t[Len(s) + 1] = n
      /\ \A i \in 1..Len(s) : t[i] = s[i]
  OBVIOUS
<1>2. PICK i \in 0..Len(t) :
        /\ IF i = 0 THEN o = c ELSE t[i] = Granted(c)
        /\ \A k \in (i + 1)..Len(t) : t[k].event = "revoked" /\ t[k].source # c
  BY DEF ShownAfter
<1> HIDE DEF t
<1>3. CASE i = Len(s) + 1
  BY <1>1, <1>2, <1>3
<1>4. CASE i # Len(s) + 1
  <2>1. i \in 0..Len(s) /\ Len(s) + 1 \in (i + 1)..Len(t)
    BY <1>1, <1>4
  <2>2. n.event = "revoked" /\ n.source # c
    BY <1>1, <1>2, <2>1
  <2>3. IF i = 0 THEN o = c ELSE s[i] = Granted(c)
    BY <1>1, <1>2, <2>1
  <2>4. \A k \in (i + 1)..Len(s) : s[k].event = "revoked" /\ s[k].source # c
    BY <1>1, <1>2, <2>1
  <2> QED BY <2>1, <2>2, <2>3, <2>4 DEF ShownAfter
<1> QED BY <1>3, <1>4

(* The page has heard the first notification. *)
LEMMA ShownTail ==
  ASSUME NEW s \in Seq(News), s # <<>>, NEW o, NEW c \in Clients,
         ShownAfter(OwnerAfter(o, Head(s)), Tail(s), c)
  PROVE  ShownAfter(o, s, c)
<1> DEFINE t == Tail(s)
<1>1. /\ Len(s) \in Nat \ {0} /\ Len(t) = Len(s) - 1 /\ Head(s) = s[1] /\ s[1] \in News
      /\ \A i \in 1..Len(t) : t[i] = s[i + 1]
  OBVIOUS
<1>2. PICK i \in 0..Len(t) :
        /\ IF i = 0 THEN OwnerAfter(o, s[1]) = c ELSE t[i] = Granted(c)
        /\ \A k \in (i + 1)..Len(t) : t[k].event = "revoked" /\ t[k].source # c
  BY <1>1 DEF ShownAfter
<1> HIDE DEF t
<1>3. \A k \in (i + 2)..Len(s) : s[k].event = "revoked" /\ s[k].source # c
  <2> SUFFICES ASSUME NEW k \in (i + 2)..Len(s) PROVE s[k].event = "revoked" /\ s[k].source # c
    OBVIOUS
  <2>1. k - 1 \in (i + 1)..Len(t) /\ k - 1 \in 1..Len(t) /\ (k - 1) + 1 = k
    BY <1>1
  <2>2. t[k - 1].event = "revoked" /\ t[k - 1].source # c
    BY <1>2, <2>1
  <2>3. t[k - 1] = s[(k - 1) + 1]
    BY <1>1, <2>1
  <2>4. t[k - 1] = s[k]
    BY <2>1, <2>3
  <2> QED BY <2>2, <2>4
<1>4. CASE i > 0
  <2>1. i + 1 \in 0..Len(s) /\ i + 1 # 0 /\ s[i + 1] = Granted(c) /\ (i + 1) + 1 = i + 2
    BY <1>1, <1>2, <1>4
  <2> QED BY <1>3, <2>1 DEF ShownAfter
<1>5. CASE i = 0 /\ s[1] = Granted(c)
  <2>1. 1 \in 0..Len(s) /\ i + 2 = 1 + 1
    BY <1>1, <1>5
  <2> QED BY <1>3, <1>5, <2>1 DEF ShownAfter
<1>6. CASE i = 0 /\ s[1] # Granted(c)
  <2>1. OwnerAfter(o, s[1]) = c
    BY <1>2, <1>6
  <2>2. s[1].event = "granted" => s[1] = Granted(s[1].source)
    BY <1>1 DEF News, Granted
  <2>3. s[1].event # "granted"
    BY <1>6, <2>1, <2>2 DEF OwnerAfter
  <2>4. s[1].event = "revoked" /\ s[1].source # c /\ o = c
    BY <1>1, <2>1, <2>3 DEF OwnerAfter, News
  <2>5. \A k \in (0 + 1)..Len(s) : s[k].event = "revoked" /\ s[k].source # c
    <3> SUFFICES ASSUME NEW k \in 1..Len(s) PROVE s[k].event = "revoked" /\ s[k].source # c
      OBVIOUS
    <3>1. k = 1 \/ k \in (i + 2)..Len(s)
      BY <1>1, <1>6
    <3> QED BY <1>3, <2>4, <3>1
  <2>6. 0 \in 0..Len(s)
    BY <1>1
  <2> QED BY <2>4, <2>5, <2>6 DEF ShownAfter
<1> QED BY <1>2, <1>4, <1>5, <1>6

(* Control goes to c, or comes free: what the page will show is true again. *)
LEMMA Acquired ==
  ASSUME OwnerInv, NEW c \in Clients, Acquire(c), UNCHANGED <<listening, owner>>
  PROVE  OwnerInv'
<1>0. told \in Seq(News) /\ holder \in Clients \cup {NoClient} /\ Granted(c) \in News
      /\ (holder # NoClient => Revoked(holder) \in News)
      /\ \A d \in Clients : ShownAfter(owner, told, d) => d = holder
  BY DEF OwnerInv, OwnerKnown, WillShow, ShownAfter, News, Granted, Revoked
<1>1. \A d \in Clients : Granted(c) = Granted(d) => d = c
  BY DEF Granted
<1>2. CASE holder = c /\ ~lapsed
  <2>1. <<>> \o <<>> = <<>> /\ told \o <<>> = told
    BY <1>0
  <2>2. told' = told /\ holder' = holder /\ lapsed' = FALSE
    BY <1>0, <1>2, <2>1 DEF Acquire, Notify
  <2>3. OwnerKnown'
    BY <2>2 DEF OwnerInv, OwnerKnown, WillShow
  <2> QED BY <2>2, <2>3 DEF OwnerInv
<1>3. CASE ~(holder = c /\ ~lapsed)
  <2>1. CASE ~listening
    <3>1. told' = told /\ holder' = c /\ lapsed' = FALSE /\ told = <<>> /\ owner = NoClient
      BY <2>1 DEF Acquire, Notify, OwnerInv
    <3>2. \A d \in Clients : ~WillShow(d)'
      BY <3>1 DEF WillShow
    <3> QED BY <3>1, <3>2 DEF OwnerInv, OwnerKnown
  <2>2. CASE listening
    <3> DEFINE first == IF holder \notin {NoClient, c} \/ (holder = c /\ lapsed)
                        THEN Append(told, Revoked(holder)) ELSE told
    <3>1. told' = Append(first, Granted(c)) /\ holder' = c /\ lapsed' = FALSE
      <4>1. CASE holder \notin {NoClient, c} \/ (holder = c /\ lapsed)
        <5>1. told' = told \o (<<Revoked(holder)>> \o <<Granted(c)>>)
          BY <1>3, <2>2, <4>1 DEF Acquire, Notify
        <5>2. Revoked(holder) \in News
          BY <1>0, <4>1
        <5>3. told \o (<<Revoked(holder)>> \o <<Granted(c)>>) = Append(Append(told, Revoked(holder)), Granted(c))
          BY <1>0, <5>2
        <5> QED BY <4>1, <5>1, <5>3 DEF Acquire
      <4>2. CASE ~(holder \notin {NoClient, c} \/ (holder = c /\ lapsed))
        <5>1. told' = told \o (<<>> \o <<Granted(c)>>)
          BY <1>3, <2>2, <4>2 DEF Acquire, Notify
        <5>2. told \o (<<>> \o <<Granted(c)>>) = Append(told, Granted(c))
          BY <1>0
        <5> QED BY <4>2, <5>1, <5>2 DEF Acquire
      <4> QED BY <4>1, <4>2
    <3>2. first \in Seq(News)
      BY <1>0
    <3> HIDE DEF first
    <3>3. told' \in Seq(News)
      BY <1>0, <3>1, <3>2
    <3>4. ASSUME NEW d \in Clients, WillShow(d)' PROVE d = c
      <4>1. ShownAfter(owner, Append(first, Granted(c)), d)
        BY <3>1, <3>4 DEF WillShow, ShownAfter
      <4>2. Granted(c) = Granted(d) \/ Granted(c).event = "revoked"
        BY <1>0, <3>2, <4>1, ShownAppend
      <4> QED BY <1>1, <4>2 DEF Granted
    <3>5. OwnerKnown'
      BY <3>1, <3>4 DEF OwnerKnown
    <3> QED BY <2>2, <3>1, <3>3, <3>5 DEF OwnerInv
  <2> QED BY <2>1, <2>2
<1> QED BY <1>2, <1>3

(* The arbiter frees control and says so: nobody is shown any more. *)
LEMMA Released == ASSUME OwnerInv, Release, owner' = owner PROVE OwnerInv'
<1>0. told \in Seq(News) /\ holder \in Clients /\ Revoked(holder) \in News
      /\ \A d \in Clients : ShownAfter(owner, told, d) => d = holder
  BY DEF OwnerInv, OwnerKnown, WillShow, ShownAfter, News, Revoked, Release
<1>1. holder' = NoClient /\ lapsed' = FALSE /\ listening' = listening
  BY DEF Release
<1>2. CASE ~listening
  <2>1. told' = told /\ told = <<>> /\ owner = NoClient
    BY <1>2 DEF Release, Notify, OwnerInv
  <2>2. \A d \in Clients : ~WillShow(d)'
    BY <2>1 DEF WillShow
  <2> QED BY <1>1, <2>1, <2>2 DEF OwnerInv, OwnerKnown
<1>3. CASE listening
  <2>1. told' = Append(told, Revoked(holder))
    BY <1>0, <1>3 DEF Release, Notify
  <2>2. told' \in Seq(News)
    BY <1>0, <2>1
  <2>3. ASSUME NEW d \in Clients, WillShow(d)' PROVE FALSE
    <3>1. ShownAfter(owner, Append(told, Revoked(holder)), d)
      BY <2>1, <2>3 DEF WillShow, ShownAfter
    <3>2. Revoked(holder) = Granted(d) \/ (Revoked(holder).source # d /\ ShownAfter(owner, told, d))
      BY <1>0, <3>1, ShownAppend
    <3> QED BY <1>0, <3>2 DEF Revoked, Granted
  <2> QED BY <1>1, <1>3, <2>2, <2>3 DEF OwnerInv, OwnerKnown
<1> QED BY <1>2, <1>3

(* Every step keeps what the page knows of the owner. *)
LEMMA OwnerStep == OwnerInv /\ [PoseNext]_poseVars => OwnerInv'
<1> SUFFICES ASSUME OwnerInv, [PoseNext]_poseVars PROVE OwnerInv'
  OBVIOUS
<1> USE DEF lease, commVars, burstVars
<1>1. ASSUME UNCHANGED <<told, owner, holder, lapsed, listening>> PROVE OwnerInv'
  BY <1>1 DEF OwnerInv, OwnerKnown, WillShow
<1>2. CASE StartListeners
  BY <1>2 DEF StartListeners, OwnerInv, OwnerKnown, WillShow
<1>3. CASE CtrlListen
  <2>1. /\ told # <<>> /\ told' = Tail(told) /\ owner' = OwnerAfter(owner, Head(told))
        /\ UNCHANGED <<holder, lapsed, listening>>
    BY <1>3 DEF CtrlListen
  <2>2. told \in Seq(News) /\ Head(told) \in News
    BY <2>1 DEF OwnerInv
  <2>3. told' \in Seq(News)
    BY <2>1, <2>2
  <2>4. owner' \in Clients \cup {NoClient} /\ listening
    BY <2>1, <2>2 DEF OwnerInv, OwnerAfter, News
  <2>5. ASSUME NEW c \in Clients, WillShow(c)' PROVE WillShow(c)
    <3>1. ShownAfter(OwnerAfter(owner, Head(told)), Tail(told), c)
      BY <2>1, <2>5 DEF WillShow, ShownAfter
    <3>2. ShownAfter(owner, told, c)
      BY <2>1, <2>2, <3>1, ShownTail
    <3> QED BY <3>2 DEF WillShow, ShownAfter
  <2> QED BY <2>1, <2>3, <2>4, <2>5 DEF OwnerInv, OwnerKnown
<1>4. CASE RestartWeb
  <2>1. /\ told' = <<>> /\ owner' = NoClient /\ listening' = FALSE
        /\ UNCHANGED <<holder, lapsed>>
    BY <1>4 DEF RestartWeb
  <2>2. \A c \in Clients : ~WillShow(c)'
    BY <2>1 DEF WillShow
  <2>3. told' \in Seq(News)
    BY <2>1
  <2> QED BY <2>1, <2>2, <2>3 DEF OwnerInv, OwnerKnown
<1>5. CASE Bridge
  <2>1. ASSUME NEW c \in Clients, Arbitrate(c) PROVE OwnerInv'
    BY <1>5, <2>1, Acquired DEF Bridge, Arbitrate
  <2>2. CASE LeaseLapses
    <3>1. UNCHANGED <<told, owner, holder, listening>> /\ lapsed' = TRUE
      BY <1>5, <2>2 DEF Bridge, LeaseLapses
    <3> QED BY <3>1 DEF OwnerInv, OwnerKnown, WillShow
  <2>3. CASE Release
    BY <1>5, <2>3, Released DEF Bridge
  <2> QED BY <1>5, <2>1, <2>2, <2>3 DEF Bridge
<1>6. CASE UpdateRobot \/ ModelSends \/ \E t \in Topics : SendPose(t)
  BY <1>1, <1>6 DEF UpdateRobot, ModelSends, SendPose
<1>7. CASE \E b \in Clicks : BurstCheck(b) \/ BurstSends(b)
  BY <1>1, <1>7 DEF BurstCheck, BurstSends
<1>8. CASE UNCHANGED poseVars
  BY <1>1, <1>8 DEF poseVars
<1> QED BY <1>2, <1>3, <1>4, <1>5, <1>6, <1>7, <1>8 DEF PoseNext

\* The numbers of the clicks, and which threads may still send.
ClickInv ==
  /\ clicks \in 0..MaxClicks /\ sends \in Nat
  /\ burst \in [Clicks -> {"none", "check", "send", "over"}] /\ sent \in [Clicks -> 0..BurstLen]
  /\ topic \in [Clicks -> Topics \cup {"robot"}]
  /\ lastPose \in 0..MaxClicks /\ current \in 0..MaxClicks
  /\ current <= clicks /\ cancelSet \subseteq 1..clicks
  /\ known \in BOOLEAN
  /\ \A b \in Clicks :
       /\ b > clicks => burst[b] = "none" /\ sent[b] = 0
       /\ burst[b] = "send" => sent[b] < BurstLen
       /\ burst[b] \in {"check", "send"} => b = current \/ b \in cancelSet

\* Only the two clients send, and a pose is on its topic when it has arrived.
PullInv ==
  /\ pull \in [Clients -> Seq(Message)]
  /\ \A c \in Clients \ {Web, Model} : pull[c] = <<>>
  /\ ros \in [Topics -> (Clients \X Nat) \cup {NoCommand}]

\* Where the burst of the last click is, and that nothing is behind its last message.
LastInv ==
  lastPose # NoClick =>
    /\ lastPose = current /\ current \notin cancelSet /\ topic[lastPose] \in Topics
    /\ pull[Model] = <<>>
    /\ burst[lastPose] # "none"
    /\ burst[lastPose] = "send" /\ sent[lastPose] = BurstLen - 1 => AtSend = {lastPose}
    /\ burst[lastPose] = "over" => sent[lastPose] = BurstLen
    /\ sent[lastPose] = BurstLen =>
         /\ AtSend = {}
         /\ pull[Web] = <<>> => ros[topic[lastPose]] = <<Web, lastPose>>
         /\ pull[Web] # <<>> =>
              pull[Web][Len(pull[Web])] = [topic |-> topic[lastPose], command |-> <<Web, lastPose>>]

PoseInv == OwnerInv /\ ClickInv /\ PullInv /\ LastInv

(* Initially nobody has clicked, sent or been told anything. *)
LEMMA InitPose == PoseInit => PoseInv
<1> SUFFICES ASSUME PoseInit PROVE PoseInv
  OBVIOUS
<1> USE DEF PoseInit, CommInit
<1>1. OwnerInv
  <2>1. told \in Seq(News) /\ Len(told) = 0
    OBVIOUS
  <2>2. \A c \in Clients : ~WillShow(c)
    BY <2>1 DEF WillShow
  <2> QED BY <2>1, <2>2 DEF OwnerInv, OwnerKnown
<1>2. ClickInv
  <2>1. \A b \in Clicks : burst[b] = "none" /\ sent[b] = 0
    OBVIOUS
  <2>2. sent \in [Clicks -> 0..BurstLen] /\ burst \in [Clicks -> {"none", "check", "send", "over"}]
    OBVIOUS
  <2>3. current = 0 /\ lastPose = 0 /\ clicks = 0 /\ cancelSet = {} /\ sends = 0 /\ known = FALSE
    BY DEF NoClick
  <2>4. topic \in [Clicks -> Topics \cup {"robot"}]
    OBVIOUS
  <2>5. 0 \in 0..MaxClicks /\ 0 \in Nat /\ {} \subseteq 1..0 /\ 0 <= 0 /\ FALSE \in BOOLEAN
    OBVIOUS
  <2>6. /\ clicks \in 0..MaxClicks /\ sends \in Nat /\ current <= clicks /\ cancelSet \subseteq 1..clicks
        /\ lastPose \in 0..MaxClicks /\ current \in 0..MaxClicks /\ known \in BOOLEAN
    BY <2>3, <2>5
  <2>7. \A b \in Clicks : burst[b] # "send" /\ burst[b] # "check"
    BY <2>1
  <2> HIDE DEF PoseInit, CommInit
  <2> QED BY <2>1, <2>2, <2>4, <2>6, <2>7 DEF ClickInv
<1>3. PullInv
  BY DEF PullInv
<1>4. LastInv
  BY DEF LastInv
<1> QED BY <1>1, <1>2, <1>3, <1>4 DEF PoseInv

(* A click cancels the burst before it; a burst that is over stays so. *)
LEMMA ClickStep == ClickInv /\ [PoseNext]_poseVars => ClickInv'
<1> SUFFICES ASSUME ClickInv, [PoseNext]_poseVars PROVE ClickInv'
  OBVIOUS
<1> USE DEF lease, commVars, burstVars, Clicks, NoClick
<1>1. ASSUME UNCHANGED <<burstVars, clicks>>, known' \in BOOLEAN, sends' \in Nat PROVE ClickInv'
  BY <1>1 DEF ClickInv
<1>2. CASE StartListeners \/ CtrlListen \/ UpdateRobot \/ Bridge
  <2>1. UNCHANGED <<burstVars, clicks, sends>> /\ (known' = known \/ known' = TRUE)
    BY <1>2 DEF StartListeners, CtrlListen, UpdateRobot, Bridge
  <2>2. sends \in Nat /\ known \in BOOLEAN
    BY DEF ClickInv
  <2> QED BY <1>1, <2>1, <2>2
<1>3. CASE ModelSends
  BY <1>3 DEF ModelSends, ClickInv
<1>4. CASE RestartWeb
  <2>1. /\ UNCHANGED <<sent, topic, clicks, sends>> /\ known' = FALSE
        /\ burst' = [b \in Clicks |-> IF burst[b] = "none" THEN "none" ELSE "over"]
        /\ current' = 0 /\ cancelSet' = {} /\ lastPose' = 0
    BY <1>4 DEF RestartWeb
  <2>2. \A b \in Clicks : burst'[b] = IF burst[b] = "none" THEN "none" ELSE "over"
    BY <2>1
  <2>3. burst' \in [Clicks -> {"none", "check", "send", "over"}]
    BY <2>1
  <2>4. clicks \in 0..MaxClicks /\ sends \in Nat
    BY DEF ClickInv
  <2>5. \A b \in Clicks : (b > clicks => burst'[b] = "none" /\ sent[b] = 0) /\ burst'[b] \notin {"check", "send"}
    BY <2>2 DEF ClickInv
  <2>6. 0 \in 0..MaxClicks /\ 0 <= clicks /\ {} \subseteq 1..clicks
    BY <2>4
  <2>7. sent \in [Clicks -> 0..BurstLen] /\ topic \in [Clicks -> Topics \cup {"robot"}]
    BY DEF ClickInv
  <2>8. \A b \in Clicks : burst'[b] # "send"
    BY <2>5
  <2>9. clicks' = clicks /\ sends' = sends /\ sent' = sent /\ topic' = topic
    BY <2>1
  <2> QED BY <2>1, <2>3, <2>4, <2>5, <2>6, <2>7, <2>8, <2>9 DEF ClickInv
<1>5. ASSUME NEW t \in Topics, SendPose(t) PROVE ClickInv'
  <2>1. /\ clicks' = clicks + 1 /\ clicks' \in Clicks /\ current' = clicks'
        /\ burst' = [burst EXCEPT ![clicks'] = "check"] /\ topic' = [topic EXCEPT ![clicks'] = t]
        /\ cancelSet' = cancelSet \cup ({current} \ {NoClick}) /\ lastPose' \in {clicks', NoClick}
        /\ UNCHANGED <<sent, known, sends>>
    BY <1>5 DEF SendPose, BurstSend, ClickInv
  <2>2. \A b \in Clicks : b # clicks' => burst'[b] = burst[b]
    BY <2>1 DEF ClickInv
  <2>3. burst'[clicks'] = "check" /\ sent[clicks'] = 0
    BY <2>1 DEF ClickInv
  <2>4. current \in 0..clicks /\ cancelSet' \subseteq 1..clicks'
    BY <2>1 DEF ClickInv
  <2>5. \A b \in Clicks : burst'[b] \in {"check", "send"} => b = current' \/ b \in cancelSet'
    BY <2>1, <2>2 DEF ClickInv
  <2> QED BY <2>1, <2>2, <2>3, <2>4, <2>5 DEF ClickInv
<1>6. ASSUME NEW b \in Clicks, BurstCheck(b) \/ BurstSends(b) PROVE ClickInv'
  <2>1. CASE BurstCheck(b)
    <3>1. /\ UNCHANGED <<sent, topic, current, cancelSet, lastPose, known, clicks, sends>>
          /\ burst[b] = "check"
          /\ \/ burst' = [burst EXCEPT ![b] = "send"] /\ sent[b] < BurstLen
             \/ burst' = [burst EXCEPT ![b] = "over"]
      BY <2>1 DEF BurstCheck
    <3> QED BY <3>1 DEF ClickInv
  <2>2. CASE BurstSends(b)
    <3>1. /\ UNCHANGED <<topic, current, cancelSet, lastPose, known, clicks, sends>>
          /\ burst[b] = "send" /\ burst' = [burst EXCEPT ![b] = "check"]
          /\ sent' = [sent EXCEPT ![b] = @ + 1]
      BY <2>2 DEF BurstSends
    <3>2. sent[b] \in 0..BurstLen /\ sent[b] < BurstLen /\ b <= clicks
      BY <3>1 DEF ClickInv
    <3> QED BY <3>1, <3>2 DEF ClickInv
  <2> QED BY <1>6, <2>1, <2>2
<1>7. CASE UNCHANGED poseVars
  BY <1>1, <1>7 DEF poseVars, ClickInv
<1> QED BY <1>2, <1>3, <1>4, <1>5, <1>6, <1>7 DEF PoseNext

(* Every step keeps the types of what is on its way and on the topics. *)
LEMMA PullStep == ClickInv /\ PullInv /\ [PoseNext]_poseVars => PullInv'
<1> SUFFICES ASSUME ClickInv, PullInv, [PoseNext]_poseVars PROVE PullInv'
  OBVIOUS
<1> USE DEF lease, commVars, burstVars
<1>1. ASSUME UNCHANGED <<pull, ros>> PROVE PullInv'
  BY <1>1 DEF PullInv
<1>2. CASE StartListeners \/ CtrlListen \/ UpdateRobot \/ RestartWeb \/ \E t \in Topics : SendPose(t)
  BY <1>1, <1>2 DEF StartListeners, CtrlListen, UpdateRobot, RestartWeb, SendPose
<1>3. CASE ModelSends
  <2>1. sends' \in Nat /\ ros' = ros
        /\ pull' = [pull EXCEPT ![Model] = @ \o <<ActionCommand("robot", sends'), ActionCommand("gripper", sends')>>]
    BY <1>3 DEF ModelSends, Push, ClickInv
  <2>2. ActionCommand("robot", sends') \in Message /\ ActionCommand("gripper", sends') \in Message
    BY <2>1 DEF ActionCommand, Message
  <2>3. <<ActionCommand("robot", sends'), ActionCommand("gripper", sends')>> \in Seq(Message)
    BY <2>2
  <2> QED BY <2>1, <2>3 DEF PullInv
<1>4. CASE Bridge
  <2>1. ASSUME NEW c \in Clients, Arbitrate(c) PROVE PullInv'
    <3>1. pull[c] \in Seq(Message) /\ pull[c] # <<>> /\ pull' = [pull EXCEPT ![c] = Tail(@)] /\ Publish(Head(pull[c]))
      BY <2>1 DEF Arbitrate, PullInv
    <3>2. Tail(pull[c]) \in Seq(Message) /\ Head(pull[c]) \in Message
      BY <3>1
    <3>3. ros' \in [Topics -> (Clients \X Nat) \cup {NoCommand}]
      BY <3>1, <3>2 DEF Publish, Message, PullInv
    <3> QED BY <3>1, <3>2, <3>3 DEF PullInv
  <2>2. CASE LeaseLapses \/ Release
    BY <1>1, <2>2 DEF LeaseLapses, Release
  <2> QED BY <1>4, <2>1, <2>2 DEF Bridge
<1>5. ASSUME NEW b \in Clicks, BurstSends(b) PROVE PullInv'
  <2>1. pull' = [pull EXCEPT ![Web] = @ \o <<[topic |-> topic[b], command |-> <<Web, b>>]>>] /\ ros' = ros
    BY <1>5 DEF BurstSends, Push
  <2>2. [topic |-> topic[b], command |-> <<Web, b>>] \in Message
    BY DEF Message, ClickInv, Clicks
  <2>3. <<[topic |-> topic[b], command |-> <<Web, b>>]>> \in Seq(Message)
    BY <2>2
  <2> QED BY <2>1, <2>3 DEF PullInv
<1>6. ASSUME NEW b \in Clicks, BurstCheck(b) PROVE PullInv'
  BY <1>1, <1>6 DEF BurstCheck
<1>7. CASE UNCHANGED poseVars
  BY <1>1, <1>7 DEF poseVars
<1> QED BY <1>2, <1>3, <1>4, <1>5, <1>6, <1>7 DEF PoseNext

(* A queue of one message. *)
LEMMA OnlyElement ==
  ASSUME NEW S, NEW q \in Seq(S), q # <<>>, Tail(q) = <<>> PROVE Head(q) = q[Len(q)]
<1>1. Len(q) \in Nat /\ Len(q) > 0 /\ Len(Tail(q)) = Len(q) - 1
  OBVIOUS
<1>2. Len(q) = 1
  BY <1>1
<1> QED BY <1>2

(* The last message of a queue stays the last when the first is taken. *)
LEMMA LastOfTail ==
  ASSUME NEW S, NEW q \in Seq(S), q # <<>>, Tail(q) # <<>>
  PROVE  Tail(q)[Len(Tail(q))] = q[Len(q)]
<1>1. Len(q) \in Nat /\ Len(q) > 0 /\ Len(Tail(q)) = Len(q) - 1 /\ Tail(q) \in Seq(S)
  OBVIOUS
<1>2. Len(q) > 1
  BY <1>1
<1> QED BY <1>1, <1>2

(* Nothing comes behind the last message of the last click. *)
LEMMA LastStep == ClickInv /\ PullInv /\ LastInv /\ ClickInv' /\ PullInv' /\ [PoseNext]_poseVars => LastInv'
<1> SUFFICES ASSUME ClickInv, PullInv, LastInv, ClickInv', PullInv', [PoseNext]_poseVars, lastPose' # NoClick
             PROVE  LastInv'
  BY DEF LastInv
<1> USE DEF lease, commVars, burstVars, NoClick
<1>1. ASSUME UNCHANGED <<burstVars, pull, ros>> PROVE LastInv'
  BY <1>1 DEF LastInv, AtSend
<1>2. CASE StartListeners \/ CtrlListen \/ UpdateRobot
  BY <1>1, <1>2 DEF StartListeners, CtrlListen, UpdateRobot
<1>3. CASE ModelSends \/ RestartWeb
  BY <1>3 DEF ModelSends, RestartWeb
<1>4. ASSUME NEW t \in Topics, SendPose(t) PROVE LastInv'
  <2>1. /\ lastPose' = clicks + 1 /\ current' = clicks + 1 /\ pull[Model] = <<>> /\ clicks + 1 \in Clicks
        /\ burst' = [burst EXCEPT ![clicks + 1] = "check"] /\ topic' = [topic EXCEPT ![clicks + 1] = t]
        /\ cancelSet' = cancelSet \cup ({current} \ {NoClick})
        /\ UNCHANGED <<sent, pull>>
    BY <1>4 DEF SendPose, BurstSend, ClickInv, Clicks
  <2>2. sent[clicks + 1] = 0 /\ burst'[clicks + 1] = "check" /\ topic'[clicks + 1] = t
    BY <2>1 DEF ClickInv
  <2>3. clicks + 1 \notin cancelSet'
    BY <2>1 DEF ClickInv
  <2> QED BY <2>1, <2>2, <2>3 DEF LastInv
<1>5. CASE Bridge
  <2>0. UNCHANGED burstVars /\ lastPose # 0 /\ AtSend' = AtSend
    BY <1>5 DEF Bridge, AtSend
  <2>1. ASSUME NEW c \in Clients, Arbitrate(c) PROVE LastInv'
    <3>1. c = Web /\ pull[Web] \in Seq(Message) /\ pull[Web] # <<>>
      BY <2>0, <2>1 DEF Arbitrate, PullInv, LastInv
    <3>2. pull'[Web] = Tail(pull[Web]) /\ pull'[Model] = pull[Model] /\ Publish(Head(pull[Web]))
      BY <2>1, <3>1 DEF Arbitrate, PullInv
    <3>3. CASE Tail(pull[Web]) = <<>>
      <4>1. Head(pull[Web]) = pull[Web][Len(pull[Web])]
        BY <3>1, <3>3, OnlyElement
      <4>2. sent[lastPose] = BurstLen => ros'[topic[lastPose]] = <<Web, lastPose>>
        BY <2>0, <3>1, <3>2, <4>1 DEF LastInv, Publish, PullInv
      <4> QED BY <2>0, <3>2, <3>3, <4>2 DEF LastInv
    <3>4. CASE Tail(pull[Web]) # <<>>
      <4>1. Tail(pull[Web])[Len(Tail(pull[Web]))] = pull[Web][Len(pull[Web])]
        BY <3>1, <3>4, LastOfTail
      <4> QED BY <2>0, <3>1, <3>2, <3>4, <4>1 DEF LastInv
    <3> QED BY <3>3, <3>4
  <2>2. CASE LeaseLapses \/ Release
    BY <1>1, <2>0, <2>2 DEF LeaseLapses, Release
  <2> QED BY <1>5, <2>1, <2>2 DEF Bridge
<1>6. ASSUME NEW b \in Clicks, BurstCheck(b) PROVE LastInv'
  <2>1. /\ UNCHANGED <<pull, ros, sent, topic, current, cancelSet, lastPose>> /\ burst[b] = "check" /\ lastPose # 0
        /\ \A a \in Clicks \ {b} : burst'[a] = burst[a]
        /\ \/ /\ b \notin cancelSet /\ sent[b] < BurstLen /\ (sent[b] = BurstLen - 1 => AtSend = {}) /\ burst'[b] = "send"
           \/ (b \in cancelSet \/ sent[b] = BurstLen) /\ burst'[b] = "over"
    BY <1>6 DEF BurstCheck, ClickInv
  <2>2. lastPose \in Clicks
    BY <2>1 DEF ClickInv, Clicks
  <2>3. CASE burst'[b] = "send"
    <3>1. b = lastPose /\ AtSend' = AtSend \cup {b}
      BY <2>1, <2>3 DEF ClickInv, LastInv, AtSend
    <3> QED BY <2>1, <2>2, <2>3, <3>1 DEF LastInv
  <2>4. CASE burst'[b] = "over"
    <3>1. AtSend' = AtSend
      BY <2>1, <2>4 DEF AtSend
    <3> QED BY <2>1, <2>2, <2>4, <3>1 DEF LastInv
  <2> QED BY <2>1, <2>3, <2>4
<1>7. ASSUME NEW b \in Clicks, BurstSends(b) PROVE LastInv'
  <2> DEFINE m == [topic |-> topic[b], command |-> <<Web, b>>]
  <2>1. /\ UNCHANGED <<ros, topic, current, cancelSet, lastPose>> /\ burst[b] = "send" /\ lastPose # 0
        /\ \A a \in Clicks \ {b} : burst'[a] = burst[a] /\ sent'[a] = sent[a]
        /\ burst'[b] = "check" /\ sent'[b] = sent[b] + 1 /\ sent[b] \in 0..BurstLen
    BY <1>7 DEF BurstSends, ClickInv
  <2>2. m \in Message /\ pull'[Web] = pull[Web] \o <<m>> /\ pull'[Model] = pull[Model] /\ pull[Web] \in Seq(Message)
    BY <1>7 DEF BurstSends, Push, PullInv, Message, ClickInv
  <2>3. pull'[Web] # <<>> /\ pull'[Web][Len(pull'[Web])] = m
    BY <2>2
  <2>4. AtSend' = AtSend \ {b} /\ b \in AtSend
    BY <2>1 DEF AtSend
  <2>5. lastPose \in Clicks
    BY <2>1 DEF ClickInv, Clicks
  <2>6. CASE b = lastPose
    BY <2>1, <2>2, <2>3, <2>4, <2>5, <2>6 DEF LastInv
  <2>7. CASE b # lastPose
    <3>1. sent[lastPose] # BurstLen /\ ~(burst[lastPose] = "send" /\ sent[lastPose] = BurstLen - 1)
      BY <2>1, <2>4, <2>5, <2>7 DEF LastInv
    <3> QED BY <2>1, <2>2, <2>5, <2>7, <3>1 DEF LastInv
  <2> QED BY <2>6, <2>7
<1>8. CASE UNCHANGED poseVars
  BY <1>1, <1>8 DEF poseVars
<1> QED BY <1>2, <1>3, <1>4, <1>5, <1>6, <1>7, <1>8 DEF PoseNext

(* The invariant of the bridge and its page is inductive. *)
LEMMA PoseStep == PoseInv /\ [PoseNext]_poseVars => PoseInv'
BY OwnerStep, ClickStep, PullStep, LastStep DEF PoseInv

(* It implies what is checked of the two. *)
LEMMA PoseImplies == PoseInv => PoseSafe
<1> SUFFICES ASSUME PoseInv PROVE PoseSafe
  OBVIOUS
<1>1. OwnerInv /\ ClickInv /\ PullInv /\ LastInv
  BY DEF PoseInv
<1>2. PoseTypeOK
  BY <1>1 DEF OwnerInv, ClickInv, PoseTypeOK, Clicks
<1>3. LastPoseStands
  <2> SUFFICES ASSUME lastPose # NoClick, \A c \in Clients : pull[c] = <<>>,
                      \A b \in Clicks : burst[b] \in {"none", "over"}
               PROVE  ros[topic[lastPose]] = <<Web, lastPose>>
    BY DEF LastPoseStands
  <2>1. lastPose \in Clicks
    BY <1>1 DEF ClickInv, Clicks, NoClick
  <2>2. burst[lastPose] = "over" /\ pull[Web] = <<>>
    BY <1>1, <2>1 DEF LastInv
  <2> QED BY <1>1, <2>2 DEF LastInv
<1> QED BY <1>1, <1>2, <1>3 DEF OwnerInv, PoseSafe
-----------------------------------------------------------------------------

-----------------------------------------------------------------------------
(* The older model server.                                                 *)

USE MaxAssumption DEF MaxAssumption

PartNames == {"policy", "pre", "post"}
LoadStates == {"none", "begun", "policy", "pre", "post", "whole", "over"}
LoopStates == {"none", "top", "infer", "act", "end", "over"}
Acting == {i \in Runs : loop[i] \in {"infer", "act"}}
WholeNow == parts.policy = parts.pre /\ parts.pre = parts.post /\ parts.post > 0

\* Every variable has a value of its kind, and no run acts beyond the bound.
ServerTyped ==
  /\ ModelTypeOK
  /\ actions \in Nat /\ actions + Cardinality(Acting) <= MaxActions + MaxStarts
  /\ used \in [Runs -> 0..MaxLoads]

\* While no load meets another load or a run: one of them at a time, and what
\* a run uses, and a load has put in place so far, is of one load.
CalmInv ==
  calm =>
    /\ ~mixed
    /\ \A i, j \in Runs : i \in RunsAlive /\ j \in RunsAlive => i = j
    /\ \A k, l \in LoadIds : k \in Loading /\ l \in Loading => k = l
    /\ RunsAlive # {} => Loading = {} /\ modelState \in {"running", "error"} /\ WholeNow
    /\ modelState = "running" => RunsAlive # {}
    /\ modelState = "ready" => WholeNow
    /\ \A i \in Runs : loop[i] = "act" => used[i] = parts.policy
    /\ \A l \in LoadIds :
         /\ load[l] \in {"policy", "pre", "post", "whole"} => modelState = "loading"
         /\ load[l] \in {"pre", "post", "whole"} => parts.policy = l
         /\ load[l] \in {"post", "whole"} => parts.pre = l
         /\ load[l] = "whole" => parts.post = l

ModelInv == ServerTyped /\ CalmInv

(* Initially one load has begun. *)
LEMMA InitModel == ModelInit => ModelInv
<1> SUFFICES ASSUME ModelInit PROVE ModelInv
  OBVIOUS
<1> USE DEF ModelInit
<1>1. Acting = {} /\ RunsAlive = {} /\ Loading \subseteq {1}
  BY DEF Acting, RunsAlive, Loading
<1>2. Cardinality(Acting) = 0
  BY <1>1, FS_EmptySet
<1>3. ModelTypeOK
  <2>1. /\ load \in [LoadIds -> {"none", "begun", "policy", "pre", "post", "whole", "over"}]
        /\ loop \in [Runs -> {"none", "top", "infer", "act", "end", "over"}]
        /\ parts \in [{"policy", "pre", "post"} -> 0..MaxLoads]
    OBVIOUS
  <2> QED BY <2>1 DEF ModelTypeOK, ModelStates
<1>4. ServerTyped
  BY <1>2, <1>3 DEF ServerTyped
<1>5. CalmInv
  BY <1>1 DEF CalmInv
<1> QED BY <1>4, <1>5 DEF ModelInv

(* How the number of runs that are about to act changes. *)
LEMMA ActingOne ==
  ASSUME loop \in [Runs -> LoopStates], NEW i \in Runs, NEW to \in LoopStates, loop' = [loop EXCEPT ![i] = to]
  PROVE  /\ Cardinality(Acting) \in Nat /\ Cardinality(Acting') \in Nat /\ Cardinality(Acting') <= MaxStarts
         /\ to \in {"infer", "act"} /\ loop[i] \in {"infer", "act"} => Acting' = Acting
         /\ to \notin {"infer", "act"} /\ loop[i] \in {"infer", "act"} => Cardinality(Acting') = Cardinality(Acting) - 1
         /\ to \notin {"infer", "act"} /\ loop[i] \notin {"infer", "act"} => Acting' = Acting
<1>1. IsFiniteSet(Runs) /\ Cardinality(Runs) = MaxStarts
  <2>1. Runs = 1..MaxStarts /\ MaxStarts \in Nat /\ 1 \in Int
    BY DEF Runs
  <2>2. IsFiniteSet(1..MaxStarts) /\ Cardinality(1..MaxStarts) = IF 1 > MaxStarts THEN 0 ELSE MaxStarts - 1 + 1
    BY <2>1, FS_Interval
  <2> QED BY <2>1, <2>2
<1>2. Acting \subseteq Runs /\ Acting' \subseteq Runs
  BY DEF Acting
<1>3. IsFiniteSet(Acting) /\ IsFiniteSet(Acting') /\ Cardinality(Acting') <= MaxStarts
  BY <1>1, <1>2, FS_Subset
<1>4. Cardinality(Acting) \in Nat /\ Cardinality(Acting') \in Nat
  BY <1>3, FS_CardinalityType
<1>5. ASSUME to \notin {"infer", "act"}, loop[i] \in {"infer", "act"} PROVE Cardinality(Acting') = Cardinality(Acting) - 1
  <2>1. Acting' = Acting \ {i} /\ i \in Acting
    BY <1>5 DEF Acting
  <2> QED BY <1>3, <1>4, <2>1, FS_RemoveElement
<1>6. ASSUME to \in {"infer", "act"} <=> loop[i] \in {"infer", "act"} PROVE Acting' = Acting
  BY <1>6 DEF Acting
<1> QED BY <1>3, <1>4, <1>5, <1>6

(* What a thread does with the state and with what the page has heard. *)
LEMMA StateTyped ==
  ASSUME ModelTypeOK, NEW s \in ModelStates, SetState(s) \/ SameState \/ (modelState' = modelState /\ Hears(s))
  PROVE  modelState' \in ModelStates /\ shown' \in ModelStates
BY DEF ModelTypeOK, SetState, SameState, Hears

(* Every step keeps the types and the bound on the actions. *)
LEMMA TypedStep == ServerTyped /\ [ModelNext]_modelVars => ServerTyped'
<1> SUFFICES ASSUME ServerTyped, [ModelNext]_modelVars PROVE ServerTyped'
  OBVIOUS
<1> USE DEF pageVars, LoadStates, LoopStates
<1>0. /\ ModelTypeOK /\ actions \in Nat /\ used \in [Runs -> 0..MaxLoads]
      /\ load \in [LoadIds -> LoadStates] /\ loop \in [Runs -> LoopStates]
      /\ parts \in [PartNames -> 0..MaxLoads] /\ modelState \in ModelStates /\ shown \in ModelStates
      /\ beat \in ModelStates \cup {"nothing"} /\ seen \subseteq Devices
      /\ actions + Cardinality(Acting) <= MaxActions + MaxStarts
  BY DEF ServerTyped, ModelTypeOK, PartNames
<1>2. IsFiniteSet(Runs) /\ Cardinality(Acting) \in Nat
  <2>1. IsFiniteSet(Runs)
    BY FS_Interval DEF Runs
  <2>2. Acting \subseteq Runs
    BY DEF Acting
  <2> QED BY <2>1, <2>2, FS_Subset, FS_CardinalityType
\* These are the parts of the type invariant.
<1>3. ASSUME modelState' \in ModelStates, shown' \in ModelStates, beat' \in ModelStates \cup {"nothing"},
             load' \in [LoadIds -> LoadStates], loop' \in [Runs -> LoopStates],
             parts' \in [PartNames -> 0..MaxLoads], seen' \subseteq Devices,
             used' \in [Runs -> 0..MaxLoads], actions' \in Nat,
             actions' + Cardinality(Acting') <= MaxActions + MaxStarts
      PROVE  ServerTyped'
  <2>1. actions' <= MaxActions + MaxStarts
    <3>1. Acting' \subseteq Runs
      BY DEF Acting
    <3>2. Cardinality(Acting') \in Nat
      BY <1>2, <3>1, FS_Subset, FS_CardinalityType
    <3> QED BY <1>3, <3>2
  <2> QED BY <1>3, <2>1 DEF ServerTyped, ModelTypeOK, PartNames
<1>4. CASE StartListening \/ BeatReads \/ BeatSends
  <2>1. UNCHANGED <<load, loop, parts, seen, used, actions>> /\ Acting' = Acting
    BY <1>4 DEF StartListening, BeatReads, BeatSends, Acting
  <2>2. modelState' \in ModelStates /\ shown' \in ModelStates /\ beat' \in ModelStates \cup {"nothing"}
    BY <1>0, <1>4 DEF StartListening, BeatReads, BeatSends, Hears
  <2> QED BY <1>0, <1>3, <2>1, <2>2
<1>5. ASSUME NEW name \in {"start", "stop", "reload"}, SendModel(name) PROVE ServerTyped'
  <2>1. UNCHANGED <<modelState, shown, beat, load, loop, parts, seen, used, actions>> /\ Acting' = Acting
    BY <1>5 DEF SendModel, Acting
  <2> QED BY <1>0, <1>3, <2>1
<1>6. ASSUME NEW d \in Devices, HearDevice(d) PROVE ServerTyped'
  <2>1. UNCHANGED <<modelState, shown, beat, load, loop, parts, used, actions>> /\ Acting' = Acting
        /\ seen' \subseteq Devices
    BY <1>0, <1>6 DEF HearDevice, Acting
  <2> QED BY <1>0, <1>3, <2>1
<1>7. ASSUME NEW l \in LoadIds, LoadThread(l) PROVE ServerTyped'
  <2>1. UNCHANGED <<beat, loop, used, seen, actions>> /\ Acting' = Acting
    BY <1>7 DEF LoadThread, LoadBegins, LoadFails, LoadPart, LoadEnds, LoadRest, Acting
  <2>2. modelState' \in ModelStates /\ shown' \in ModelStates
    <3>1. \A s \in {"idle", "loading", "error", "ready"} : s \in ModelStates
      BY DEF ModelStates
    <3> QED BY <1>0, <1>7, <3>1, StateTyped DEF LoadThread, LoadBegins, LoadFails, LoadPart, LoadEnds
  <2>3. load' \in [LoadIds -> LoadStates]
    BY <1>0, <1>7 DEF LoadThread, LoadBegins, LoadFails, LoadPart, LoadEnds, After
  <2>4. parts' \in [PartNames -> 0..MaxLoads]
    <3>1. DOMAIN After = PartNames /\ l \in 0..MaxLoads
      BY DEF After, PartNames, LoadIds
    <3> QED BY <1>0, <1>7, <3>1 DEF LoadThread, LoadBegins, LoadFails, LoadPart, LoadEnds
  <2> QED BY <1>0, <1>3, <2>1, <2>2, <2>3, <2>4
<1>8. ASSUME NEW i \in Runs, RunThread(i) PROVE ServerTyped'
  <2>1. UNCHANGED <<beat, load, parts, seen>>
    BY <1>8 DEF RunThread, LoopTop, InferAction, ActOnRobot, InferenceFails, LoopEnds, LoopRest
  <2>2. modelState' \in ModelStates /\ shown' \in ModelStates
    <3>1. \A s \in {"error", "ready"} : s \in ModelStates
      BY DEF ModelStates
    <3> QED BY <1>0, <1>8, <3>1, StateTyped DEF RunThread, LoopTop, InferAction, ActOnRobot, InferenceFails, LoopEnds
  <2>3. parts.policy \in 0..MaxLoads
    BY <1>0 DEF PartNames
  <2>4. loop' \in [Runs -> LoopStates] /\ used' \in [Runs -> 0..MaxLoads] /\ actions' \in Nat
    BY <1>0, <1>8, <2>3 DEF RunThread, LoopTop, InferAction, ActOnRobot, InferenceFails, LoopEnds, LoopAt
  <2>5. actions' + Cardinality(Acting') <= MaxActions + MaxStarts
    <3>1. CASE LoopTop(i) /\ loop' = [loop EXCEPT ![i] = "infer"]
      <4>1. Cardinality(Acting') \in Nat /\ Cardinality(Acting') <= MaxStarts
        BY <1>0, <3>1, ActingOne
      <4>2. actions' = actions /\ actions < MaxActions
        BY <3>1, <1>0 DEF LoopTop, LoopAt
      <4> QED BY <1>0, <4>1, <4>2
    <3>2. CASE LoopTop(i) /\ loop' = [loop EXCEPT ![i] = "end"]
      BY <1>0, <1>2, <3>2, ActingOne DEF LoopTop
    <3>3. CASE InferAction(i)
      BY <1>0, <1>2, <3>3, ActingOne DEF InferAction, LoopAt
    <3>4. CASE ActOnRobot(i)
      <4>1. loop' = [loop EXCEPT ![i] = "top"] /\ loop[i] = "act" /\ actions' = actions + 1
        BY <3>4 DEF ActOnRobot, LoopAt
      <4>2. Cardinality(Acting') = Cardinality(Acting) - 1
        BY <1>0, <4>1, ActingOne
      <4> QED BY <1>0, <1>2, <4>1, <4>2
    <3>5. CASE InferenceFails(i)
      <4>1. loop' = [loop EXCEPT ![i] = "end"] /\ loop[i] \in {"infer", "act"} /\ actions' = actions
        BY <3>5 DEF InferenceFails, LoopAt
      <4>2. Cardinality(Acting') = Cardinality(Acting) - 1
        BY <1>0, <4>1, ActingOne
      <4> QED BY <1>0, <1>2, <4>1, <4>2
    <3>6. CASE LoopEnds(i)
      BY <1>0, <1>2, <3>6, ActingOne DEF LoopEnds, LoopAt
    <3> QED BY <1>8, <3>1, <3>2, <3>3, <3>4, <3>5, <3>6 DEF RunThread, LoopTop, LoopAt
  <2> QED BY <1>0, <1>3, <2>1, <2>2, <2>4, <2>5
<1>9. CASE CommandLoop
  <2>1. UNCHANGED <<beat, used, parts, seen, actions>>
    BY <1>9 DEF CommandLoop, OnStart, StartIgnored, OnStop, OnReload, ReloadWakes, CommandRest
  <2>2. modelState' \in ModelStates /\ shown' \in ModelStates
    <3>1. "running" \in ModelStates
      BY DEF ModelStates
    <3> QED BY <1>0, <1>9, <3>1, StateTyped DEF CommandLoop, OnStart, StartIgnored, OnStop, OnReload, ReloadWakes
  <2>3. load' \in [LoadIds -> LoadStates]
    BY <1>0, <1>9 DEF CommandLoop, OnStart, StartIgnored, OnStop, OnReload, ReloadWakes, Spawn, NewLoads
  <2>4. loop' \in [Runs -> LoopStates] /\ Acting' = Acting
    <3>1. ASSUME NEW i \in NewRuns, OnStart(i) PROVE <2>4
      <4>1. i \in Runs /\ loop[i] = "none" /\ loop' = [loop EXCEPT ![i] = "top"]
        BY <3>1 DEF OnStart, LoopAt, NewRuns
      <4> QED BY <1>0, <4>1, ActingOne
    <3>2. ASSUME loop' = loop PROVE <2>4
      BY <1>0, <3>2 DEF Acting
    <3> QED BY <1>9, <3>1, <3>2 DEF CommandLoop, StartIgnored, OnStop, OnReload, ReloadWakes
  <2> QED BY <1>0, <1>3, <2>1, <2>2, <2>3, <2>4
<1>10. CASE UNCHANGED modelVars
  <2>1. UNCHANGED <<modelState, shown, beat, load, loop, parts, seen, used, actions>> /\ Acting' = Acting
    BY <1>10 DEF modelVars, Acting
  <2> QED BY <1>0, <1>3, <2>1
<1> QED BY <1>4, <1>5, <1>6, <1>7, <1>8, <1>9, <1>10 DEF ModelNext

(* Every step after which no load has met another load or a run keeps the
   state true and the model whole. *)
LEMMA CalmStep == ServerTyped /\ CalmInv /\ [ModelNext]_modelVars => CalmInv'
<1> SUFFICES ASSUME ServerTyped, CalmInv, [ModelNext]_modelVars, calm' PROVE CalmInv'
  BY DEF CalmInv
<1> USE DEF pageVars, LoadStates, LoopStates
<1>0. /\ load \in [LoadIds -> LoadStates] /\ loop \in [Runs -> LoopStates]
      /\ parts \in [PartNames -> 0..MaxLoads] /\ used \in [Runs -> 0..MaxLoads]
  BY DEF ServerTyped, ModelTypeOK, PartNames
<1>1. calm
  BY DEF ModelNext, modelVars, StartListening, BeatReads, BeatSends, SendModel, HearDevice,
     LoadThread, LoadBegins, LoadFails, LoadPart, LoadEnds, LoadRest,
     RunThread, LoopTop, InferAction, ActOnRobot, InferenceFails, LoopEnds, LoopRest,
     CommandLoop, OnStart, StartIgnored, OnStop, OnReload, ReloadWakes, Spawn
<1>2. ASSUME UNCHANGED <<modelState, load, loop, used, parts, mixed>> PROVE CalmInv'
  BY <1>1, <1>2 DEF CalmInv, RunsAlive, Loading, WholeNow
<1>3. CASE StartListening \/ BeatReads \/ BeatSends
           \/ (\E name \in {"start", "stop", "reload"} : SendModel(name)) \/ (\E d \in Devices : HearDevice(d))
  <2>1. UNCHANGED <<modelState, load, loop, used, parts, mixed>>
    BY <1>3 DEF StartListening, BeatReads, BeatSends, SendModel, HearDevice
  <2> QED BY <1>2, <2>1
<1>4. ASSUME NEW l \in LoadIds, LoadThread(l) PROVE CalmInv'
  <2>1. /\ load[l] \in {"begun", "policy", "pre", "post", "whole"} /\ UNCHANGED <<loop, used, mixed>>
        /\ load'[l] \in {"policy", "pre", "post", "whole", "over"}
        /\ \A k \in LoadIds \ {l} : load'[k] = load[k]
    <3>1. CASE LoadPart(l)
      BY <1>0, <3>1 DEF LoadPart, LoadRest, After
    <3>2. CASE LoadBegins(l) \/ LoadFails(l) \/ LoadEnds(l)
      BY <1>0, <3>2 DEF LoadBegins, LoadFails, LoadEnds, LoadRest
    <3> QED BY <1>4, <3>1, <3>2 DEF LoadThread
  <2>2. Loading \subseteq {l} /\ Loading' \subseteq {l} /\ l \in Loading
    BY <1>1, <2>1 DEF CalmInv, Loading
  <2>3. RunsAlive = {} /\ RunsAlive' = {}
    BY <1>1, <2>1, <2>2 DEF CalmInv, RunsAlive
  <2>4. /\ modelState' # "running"
        /\ modelState' = "ready" => WholeNow'
        /\ load'[l] \in {"policy", "pre", "post", "whole"} => modelState' = "loading"
        /\ load'[l] \in {"pre", "post", "whole"} => parts'.policy = l
        /\ load'[l] \in {"post", "whole"} => parts'.pre = l
        /\ load'[l] = "whole" => parts'.post = l
    <3>1. CASE LoadBegins(l)
      BY <1>0, <3>1 DEF LoadBegins, SetState
    <3>2. CASE LoadFails(l)
      BY <1>0, <3>2 DEF LoadFails, SetState
    <3>3. CASE LoadPart(l)
      <4>1. modelState = "loading" /\ modelState' = "loading"
        BY <1>1, <3>3 DEF LoadPart, SameState, CalmInv, After
      <4>2. CASE load[l] = "policy"
        BY <1>0, <3>3, <4>1, <4>2 DEF LoadPart, After, PartNames
      <4>3. CASE load[l] = "pre"
        BY <1>0, <1>1, <3>3, <4>1, <4>3 DEF LoadPart, After, PartNames, CalmInv
      <4>4. CASE load[l] = "post"
        BY <1>0, <1>1, <3>3, <4>1, <4>4 DEF LoadPart, After, PartNames, CalmInv
      <4> QED BY <3>3, <4>2, <4>3, <4>4 DEF LoadPart, After
    <3>4. CASE LoadEnds(l)
      <4>1. parts.policy = l /\ parts.pre = l /\ parts.post = l /\ l > 0
        BY <1>1, <3>4 DEF LoadEnds, CalmInv, LoadIds
      <4> QED BY <1>0, <3>4, <4>1 DEF LoadEnds, SetState, WholeNow
    <3> QED BY <1>4, <3>1, <3>2, <3>3, <3>4 DEF LoadThread
  <2>5. \A k \in LoadIds \ {l} : load'[k] \in {"none", "over"}
    BY <2>2 DEF Loading
  <2>6. ~mixed' /\ \A i \in Runs : loop'[i] # "act"
    BY <1>1, <2>1, <2>3 DEF CalmInv, RunsAlive
  <2> QED BY <2>2, <2>3, <2>4, <2>5, <2>6 DEF CalmInv
<1>5. ASSUME NEW i \in Runs, RunThread(i) PROVE CalmInv'
  <2>1. /\ loop[i] \in {"top", "infer", "act", "end"} /\ UNCHANGED <<load, parts>>
        /\ \A j \in Runs \ {i} : loop'[j] = loop[j] /\ used'[j] = used[j]
    BY <1>0, <1>5 DEF RunThread, LoopTop, InferAction, ActOnRobot, InferenceFails, LoopEnds, LoopRest, LoopAt
  <2>2. i \in RunsAlive /\ Loading = {} /\ modelState \in {"running", "error"} /\ WholeNow
        /\ \A j \in Runs \ {i} : loop[j] \in {"none", "over"}
    BY <1>1, <2>1 DEF CalmInv, RunsAlive
  <2>3. /\ Loading' = {} /\ WholeNow' /\ RunsAlive' \subseteq {i}
        /\ \A l \in LoadIds : load'[l] \in {"none", "over"}
        /\ \A j \in Runs \ {i} : loop'[j] # "act"
    BY <2>1, <2>2 DEF Loading, WholeNow, RunsAlive
  <2>4. /\ ~mixed'
        /\ loop'[i] = "act" => used'[i] = parts.policy
        /\ IF loop'[i] = "over" THEN modelState' = "ready" ELSE modelState' \in {"running", "error"}
        /\ loop'[i] # "none"
    <3>0. ~mixed /\ (loop[i] = "act" => used[i] = parts.policy)
      BY <1>1 DEF CalmInv
    <3>1. CASE LoopTop(i)
      BY <1>0, <2>2, <3>0, <3>1 DEF LoopTop, LoopAt, SameState
    <3>2. CASE InferAction(i)
      BY <1>0, <2>2, <3>0, <3>2 DEF InferAction, LoopAt, SameState, WholeNow
    <3>3. CASE ActOnRobot(i)
      BY <1>0, <2>2, <3>0, <3>3 DEF ActOnRobot, LoopAt, SameState, WholeNow
    <3>4. CASE InferenceFails(i) \/ LoopEnds(i)
      BY <1>0, <2>2, <3>0, <3>4 DEF InferenceFails, LoopEnds, LoopAt, SetState
    <3> QED BY <1>5, <3>1, <3>2, <3>3, <3>4 DEF RunThread
  <2>5. loop'[i] # "over" => i \in RunsAlive'
    BY <2>4 DEF RunsAlive
  <2>6. loop'[i] = "over" => RunsAlive' = {}
    BY <2>3 DEF RunsAlive
  <2> QED BY <2>1, <2>3, <2>4, <2>5, <2>6 DEF CalmInv
<1>6. ASSUME NEW i \in NewRuns, OnStart(i) PROVE CalmInv'
  <2>1. /\ i \in Runs /\ modelState = "ready" /\ modelState' = "running" /\ Loading = {}
        /\ loop' = [loop EXCEPT ![i] = "top"] /\ UNCHANGED <<load, parts, used, mixed>>
    BY <1>1, <1>6 DEF OnStart, SetState, LoopAt, NewRuns, CommandRest
  <2>2. RunsAlive = {} /\ WholeNow
    BY <1>1, <2>1 DEF CalmInv
  <2>3. RunsAlive' = {i} /\ Loading' = {} /\ WholeNow'
    BY <1>0, <2>1, <2>2 DEF RunsAlive, Loading, WholeNow
  <2>4. ~mixed' /\ (\A j \in Runs : loop'[j] # "act") /\ \A l \in LoadIds : load'[l] \in {"none", "over"}
    BY <1>0, <1>1, <2>1, <2>2 DEF CalmInv, RunsAlive, Loading
  <2> QED BY <2>1, <2>3, <2>4 DEF CalmInv
<1>7. ASSUME NEW l \in NewLoads, Spawn(l), UNCHANGED <<modelState, loop, parts, used, mixed>> PROVE CalmInv'
  <2>1. l \in LoadIds /\ load[l] = "none" /\ load' = [load EXCEPT ![l] = "begun"] /\ Loading = {} /\ RunsAlive = {}
    BY <1>1, <1>7 DEF Spawn, NewLoads
  <2>2. RunsAlive' = {} /\ Loading' = {l}
    BY <1>0, <1>7, <2>1 DEF RunsAlive, Loading
  <2>3. \A k \in LoadIds : load'[k] \notin {"policy", "pre", "post", "whole"}
    BY <1>0, <2>1 DEF Loading
  <2> QED BY <1>1, <1>7, <2>1, <2>2, <2>3 DEF CalmInv, WholeNow
<1>8. CASE CommandLoop
  <2>1. CASE StartIgnored \/ OnStop
    BY <1>2, <2>1 DEF StartIgnored, OnStop, SameState, CommandRest
  <2>2. ASSUME NEW l \in NewLoads, OnReload(l) \/ ReloadWakes(l) PROVE CalmInv'
    <3>1. Spawn(l) \/ UNCHANGED load
      BY <2>2 DEF OnReload, ReloadWakes
    <3>2. UNCHANGED <<modelState, loop, parts, used, mixed>>
      BY <2>2 DEF OnReload, ReloadWakes, SameState, CommandRest
    <3> QED BY <1>2, <1>7, <3>1, <3>2
  <2> QED BY <1>6, <1>8, <2>1, <2>2 DEF CommandLoop
<1>9. CASE UNCHANGED modelVars
  BY <1>2, <1>9 DEF modelVars
<1> QED BY <1>3, <1>4, <1>5, <1>8, <1>9 DEF ModelNext

(* The invariant of the model server is inductive. *)
LEMMA ModelStep == ModelInv /\ [ModelNext]_modelVars => ModelInv'
BY TypedStep, CalmStep DEF ModelInv

(* It implies what is checked of the model server. *)
LEMMA ModelImplies == ModelInv => ModelSafe
<1> SUFFICES ASSUME ModelInv PROVE ModelSafe
  OBVIOUS
<1>1. ModelTypeOK /\ CalmInv
  BY DEF ModelInv, ServerTyped
<1>2. ASSUME calm PROVE Cardinality(RunsAlive) <= 1
  <2>1. \A i, j \in RunsAlive : i = j
    BY <1>1, <1>2 DEF CalmInv, RunsAlive
  <2> QED BY <2>1, AtMostOne
<1>3. StateTrue
  BY <1>1, <1>2 DEF StateTrue, CalmInv
<1>4. ModelWhole
  BY <1>1 DEF ModelWhole, CalmInv, WholeNow
<1> QED BY <1>1, <1>3, <1>4 DEF ModelSafe
-----------------------------------------------------------------------------

-----------------------------------------------------------------------------
(* The three together.                                                     *)

AllInv == MaxInv /\ PoseInv /\ ModelInv

(* The servers that stand still keep their invariants. *)
LEMMA MaxStands == MaxInv /\ UNCHANGED vars => MaxInv'
BY MaxStep

LEMMA PoseStands == PoseInv /\ UNCHANGED poseVars => PoseInv'
BY PoseStep

LEMMA ModelStands == ModelInv /\ UNCHANGED modelVars => ModelInv'
BY ModelStep

(* Every step of one of the three keeps the invariants of all. *)
LEMMA ServersStep == AllInv /\ [ServersNext]_movingVars => AllInv'
<1> SUFFICES ASSUME AllInv, [ServersNext]_movingVars PROVE AllInv'
  OBVIOUS
<1>1. CASE MaxMoves(Next)
  BY <1>1, MaxStep, PoseStands, ModelStands DEF MaxMoves, AllInv
<1>2. CASE BridgeMoves(PoseNext)
  BY <1>2, PoseStep, MaxStands, ModelStands DEF BridgeMoves, AllInv
<1>3. CASE ModelMoves(ModelNext)
  BY <1>3, ModelStep, MaxStands, PoseStands DEF ModelMoves, AllInv
<1>4. CASE UNCHANGED movingVars
  BY <1>4, MaxStands, PoseStands, ModelStands DEF movingVars, AllInv
<1> QED BY <1>1, <1>2, <1>3, <1>4 DEF ServersNext

(* The three invariants hold at all times. *)
LEMMA Serving == ServersSpec => []AllInv
<1>1. ServersInit => AllInv
  BY InitMax, InitPose, InitModel DEF ServersInit, AllInv
<1> QED BY <1>1, ServersStep, PTL DEF ServersSpec

(* However the callbacks of max_server and the executions they lead to      *)
(* interleave, no status is left behind; and with clients that wait for the *)
(* effect of a request one loop runs at most, with a policy and its own     *)
(* preprocessor, and between requests the status is true                    *)
(* (max_server.py:440-640).                                                 *)
THEOREM StateMachineSafe == ServersSpec => []MaxServerSafe
<1>1. AllInv => MaxServerSafe
  BY MaxImplies DEF AllInv
<1> QED BY <1>1, Serving, PTL

(* The page knows who has control or believes that nobody has, whatever     *)
(* notifications it has missed, and the arm comes to rest in the pose that  *)
(* was clicked last, whatever bursts were under way                         *)
(* (comm_server.py:204-257, ui_utils.py:155-240).                           *)
THEOREM PageSafe == ServersSpec => []PoseSafe
<1>1. AllInv => PoseSafe
  BY PoseImplies DEF AllInv
<1> QED BY <1>1, Serving, PTL

(* As long as no load meets another load or a run, the model server runs    *)
(* one loop at most, its state says whether there is one, and no inference  *)
(* uses the parts of two models (model_server.py:193-196, :353-422).        *)
THEOREM ModelIsWhole == ServersSpec => []ModelSafe
<1>1. AllInv => ModelSafe
  BY ModelImplies DEF AllInv
<1> QED BY <1>1, Serving, PTL
=============================================================================
