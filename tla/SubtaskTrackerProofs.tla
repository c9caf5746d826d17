------------------------ MODULE SubtaskTrackerProofs ------------------------
(***************************************************************************)
(* For every number of captures, every budget and every choice of what is  *)
(* verified, and whatever captures an earlier rollout left: the tracker's  *)
(* variables keep their types, the recognizer works for one request of     *)
(* this rollout at a time, and a placement whose release was seen is       *)
(* completed only by tray frames.                                          *)
(***************************************************************************)
EXTENDS SubtaskTracker, SequenceTheorems, FiniteSetTheorems, TLAPS

-----------------------------------------------------------------------------
(* Plans, queues and labels.                                               *)

LEMMA PlansType ==
  /\ {FlipPlan, PickPlan, HeldPlan, TrayPlan} \subseteq Seq(Subtasks)
  /\ Tail(TrayPlan) \in Seq(Subtasks)
  /\ Len(FlipPlan) = 6 /\ Len(PickPlan) = 4 /\ Len(HeldPlan) = 2
<1>1. TrayPlan \in Seq(Subtasks) /\ TrayPlan # <<>>
  BY DEF TrayPlan, Subtasks
<1>2. Tail(TrayPlan) \in Seq(Subtasks)
  BY <1>1, HeadTailProperties
<1> QED
  BY <1>1, <1>2 DEF FlipPlan, PickPlan, HeldPlan, Subtasks

LEMMA PlanForType ==
  ASSUME NEW state
  PROVE  PlanFor(state) \in Seq(Subtasks) /\ Len(PlanFor(state)) > 1
<1>1. PlanFor(state) \in {FlipPlan, PickPlan, HeldPlan}
  BY Zenon DEF PlanFor
<1>2. {FlipPlan, PickPlan, HeldPlan} \subseteq Seq(Subtasks)
  BY PlansType
<1>3. Len(FlipPlan) > 1 /\ Len(PickPlan) > 1 /\ Len(HeldPlan) > 1
  BY PlansType
<1> QED
  BY <1>1, <1>2, <1>3, Zenon

LEMMA ReplansType ==
  ASSUME NEW failed
  PROVE  Replans(failed) \subseteq Seq(Subtasks)
  BY PlansType DEF Replans

\* What a boundary leaves of a queue.
LEMMA PassType ==
  /\ \A q \in Seq(CaptureOf) : Pass(q) \in Seq(CaptureOf) /\ Len(Pass(q)) = Len(q)
                               /\ \A i \in DOMAIN q : /\ Pass(q)[i].id = q[i].id
                                                      /\ Pass(q)[i].purpose = q[i].purpose
  /\ \A q \in Seq(Asks) : Pass(q) \in Seq(Asks) /\ Len(Pass(q)) = Len(q)
                          /\ \A i \in DOMAIN q : Pass(q)[i].purpose = q[i].purpose
<1>1. ASSUME NEW q \in Seq(CaptureOf)
      PROVE  Pass(q) \in Seq(CaptureOf) /\ Len(Pass(q)) = Len(q)
             /\ \A i \in DOMAIN q : Pass(q)[i].id = q[i].id /\ Pass(q)[i].purpose = q[i].purpose
  <2>1. DOMAIN q = 1..Len(q) /\ Len(q) \in Nat
    BY LenProperties
  <2>2. \A i \in 1..Len(q) : q[i] \in CaptureOf
    BY ElementOfSeq
  <2>3. \A c \in CaptureOf : /\ [c EXCEPT !.mine = FALSE] \in CaptureOf
                             /\ [c EXCEPT !.mine = FALSE].id = c.id
                             /\ [c EXCEPT !.mine = FALSE].purpose = c.purpose
    BY DEF CaptureOf
  <2>4. Pass(q) = [i \in 1..Len(q) |-> [q[i] EXCEPT !.mine = FALSE]]
    BY <2>1 DEF Pass
  <2>5. Pass(q) \in Seq(CaptureOf)
    BY <2>1, <2>2, <2>3, <2>4
  <2>6. DOMAIN Pass(q) = 1..Len(q)
    BY <2>4
  <2>7. Len(Pass(q)) = Len(q)
    BY <2>1, <2>5, <2>6, LenProperties
  <2> QED
    BY <2>1, <2>2, <2>3, <2>4, <2>5, <2>7
<1>2. ASSUME NEW q \in Seq(Asks)
      PROVE  Pass(q) \in Seq(Asks) /\ Len(Pass(q)) = Len(q)
             /\ \A i \in DOMAIN q : Pass(q)[i].purpose = q[i].purpose
  <2>1. DOMAIN q = 1..Len(q) /\ Len(q) \in Nat
    BY LenProperties
  <2>2. \A i \in 1..Len(q) : q[i] \in Asks
    BY ElementOfSeq
  <2>3. \A c \in Asks : [c EXCEPT !.mine = FALSE] \in Asks /\ [c EXCEPT !.mine = FALSE].purpose = c.purpose
    BY DEF Asks
  <2>4. Pass(q) = [i \in 1..Len(q) |-> [q[i] EXCEPT !.mine = FALSE]]
    BY <2>1 DEF Pass
  <2>5. Pass(q) \in Seq(Asks)
    BY <2>1, <2>2, <2>3, <2>4
  <2>6. DOMAIN Pass(q) = 1..Len(q)
    BY <2>4
  <2>7. Len(Pass(q)) = Len(q)
    BY <2>1, <2>5, <2>6, LenProperties
  <2> QED
    BY <2>1, <2>2, <2>3, <2>4, <2>5, <2>7
<1> QED
  BY <1>1, <1>2

LEMMA AskType ==
  ASSUME NEW p \in Purposes
  PROVE  Ask(p) \in Asks /\ Ask(p).purpose = p
  BY DEF Ask, Asks

LEMMA LabelsType ==
  Labels("place") = {"ok", "bad"} /\ Labels("start") = {"target", "flipped", "none"}
  BY DEF Labels

\* What is left when a capture is taken was there before.
LEMMA RemoveType ==
  ASSUME NEW S, NEW q \in Seq(S), NEW k \in DOMAIN q
  PROVE  RemoveAt(q, k) \in Seq(S)
<1>1. DOMAIN q = 1..Len(q) /\ Len(q) \in Nat
  BY LenProperties
<1>2. k \in 1..Len(q) /\ k - 1 \in Int /\ k + 1 \in Int
  BY <1>1
<1>3. \A i \in 1..Len(q) : q[i] \in S
  BY ElementOfSeq
<1>4. SubSeq(q, 1, k - 1) \in Seq(S)
  <2>1. \A i \in 1..(k - 1) : q[i] \in S
    BY <1>1, <1>2, <1>3
  <2> QED
    BY <1>2, <2>1, SubSeqProperties
<1>5. SubSeq(q, k + 1, Len(q)) \in Seq(S)
  <2>1. \A i \in (k + 1)..Len(q) : q[i] \in S
    BY <1>1, <1>2, <1>3
  <2> QED
    BY <1>1, <1>2, <2>1, SubSeqProperties
<1> QED
  BY <1>4, <1>5, ConcatProperties DEF RemoveAt

LEMMA RemoveElements ==
  ASSUME NEW S, NEW q \in Seq(S), NEW k \in DOMAIN q
  PROVE  \A i \in DOMAIN RemoveAt(q, k) : \E j \in DOMAIN q : RemoveAt(q, k)[i] = q[j]
<1> DEFINE elements == {q[j] : j \in DOMAIN q}
<1>1. DOMAIN q = 1..Len(q) /\ Len(q) \in Nat /\ q \in [1..Len(q) -> S]
  BY LenProperties
<1>2. q \in [1..Len(q) -> elements]
  BY <1>1
<1>3. q \in Seq(elements)
  BY <1>1, <1>2
<1>4. RemoveAt(q, k) \in Seq(elements)
  BY <1>3, RemoveType
<1>5. \A i \in DOMAIN RemoveAt(q, k) : RemoveAt(q, k)[i] \in elements
  BY <1>4, LenProperties, ElementOfSeq
<1> QED
  BY <1>5

LEMMA NotOne == \A n \in Nat : n = 0 \/ n > 1 => n # 1
  OBVIOUS

\* Numbers the constants may be.
LEMMA Bounds ==
  /\ Hysteresis \in Nat \ {0} /\ Consecutive \in Nat \ {0} /\ Captures \in Nat \ {0}
  /\ PerSubtask \in Nat /\ MaxLeft \in Nat
  BY ConstantsAssumption

-----------------------------------------------------------------------------
(* Types.                                                                  *)

\* The counters at the beginning and after a boundary.
LEMMA Uncounted ==
  /\ \A p : 0 \in 0..(IF Len(p) = 1 THEN Consecutive ELSE Hysteresis - 1)
  /\ \A labels : <<>> \in Seq(labels)
  /\ Len(<<>>) < Captures
  /\ [p \in Purposes |-> 0] \in [Purposes -> Nat]
<1>1. 0 \in 0..Consecutive /\ 0 \in 0..(Hysteresis - 1)
  BY Bounds
<1>2. ASSUME NEW p PROVE 0 \in 0..(IF Len(p) = 1 THEN Consecutive ELSE Hysteresis - 1)
  <2>1. CASE Len(p) = 1
    BY <1>1, <2>1
  <2>2. CASE Len(p) # 1
    BY <1>1, <2>2
  <2> QED
    BY <2>1, <2>2
<1>3. Len(<<>>) < Captures
  BY EmptySeq, Bounds
<1> QED
  BY <1>2, <1>3, EmptySeq

LEMMA TypeInit == Init => TypeOK
<1> SUFFICES ASSUME Init PROVE TypeOK
  OBVIOUS
<1>1. PICK s \in Starts :
        IF s = "recognizer"
        THEN /\ phase = "apply" /\ plan = <<>> /\ outcome = "starting"
             /\ outbox = <<Ask("start")>>
        ELSE /\ phase = "policy" /\ plan = PlanFor(s) /\ outcome = "running" /\ outbox = <<>>
  BY DEF Init
<1>2. plan \in Seq(Subtasks) /\ Len(plan) # 1 /\ outbox \in Seq(Asks)
  <2>1. CASE s = "recognizer"
    <3>1. Ask("start") \in Asks
      BY AskType DEF Purposes
    <3>2. plan = <<>> /\ outbox = <<Ask("start")>>
      BY <1>1, <2>1
    <3>3. plan \in Seq(Subtasks) /\ Len(plan) \in Nat /\ Len(plan) = 0
      BY <3>2, EmptySeq
    <3>4. outbox \in Seq(Asks)
      BY <3>1, <3>2
    <3>5. Len(plan) # 1
      BY <3>3, NotOne, Zenon
    <3> QED
      BY <3>3, <3>4, <3>5, Zenon
  <2>2. CASE s # "recognizer"
    <3>1. PlanFor(s) \in Seq(Subtasks) /\ Len(PlanFor(s)) > 1
      BY PlanForType
    <3>2. plan = PlanFor(s) /\ outbox = <<>>
      BY <1>1, <2>2
    <3>3. plan \in Seq(Subtasks) /\ Len(plan) \in Nat /\ Len(plan) > 1
      BY <3>1, <3>2, LenProperties
    <3>4. outbox \in Seq(Asks)
      BY <3>2, EmptySeq
    <3>5. Len(plan) # 1
      BY <3>3, NotOne, Zenon
    <3> QED
      BY <3>3, <3>4, <3>5, Zenon
  <2> QED
    BY <2>1, <2>2
<1>3. PlanOK
  BY <1>1, <1>2, Bounds DEF Init, PlanOK, Started
<1>4. CountOK
  BY Uncounted DEF Init, CountOK
<1>5. QueueOK
  <2>1. hasModel \in BOOLEAN
    BY ConstantsAssumption DEF Init
  <2>2. pending \in Seq(CaptureOf) /\ verdicts \in Seq(CaptureOf)
    <3>1. PICK n \in 0..(IF hasModel THEN MaxLeft ELSE 0) : pending \in [1..n -> Leftover]
      BY DEF Init
    <3>2. n \in Nat
      BY <3>1, Bounds
    <3>3. pending \in Seq(Leftover)
      BY <3>1, <3>2
    <3>4. Leftover \subseteq CaptureOf
      <4>1. ASSUME NEW c \in Leftover PROVE c \in CaptureOf
        <5>1. PICK p \in Purposes, t \in 1..Captures :
                c = [purpose |-> p, id |-> 0, mine |-> FALSE, total |-> t]
          BY <4>1, Zenon DEF Leftover
        <5> QED
          BY <5>1 DEF CaptureOf
      <4> QED
        BY <4>1
    <3> QED
      BY <3>3, <3>4, EmptySeq DEF Init
  <2> QED
    BY <1>2, <2>1, <2>2 DEF Init, QueueOK
<1> QED
  BY <1>3, <1>4, <1>5 DEF TypeOK

\* After a boundary nothing has been counted and the queues are what they were.
LEMMA BoundaryType ==
  ASSUME TypeOK, NEW rest \in Seq(CaptureOf), Boundary(rest), outbox' \in Seq(Asks),
         UNCHANGED <<hasModel, nextId>>
  PROVE  CountOK' /\ QueueOK'
<1>1. CountOK'
  <2>1. requests' \in [Purposes -> Nat]
    BY DEF TypeOK, CountOK, Boundary, Purposes
  <2>2. hits' \in 0..(IF Len(plan') = 1 THEN Consecutive ELSE Hysteresis - 1)
    BY Uncounted DEF Boundary
  <2> QED
    BY <2>1, <2>2, Uncounted DEF Boundary, CountOK
<1>2. QueueOK'
  BY PassType DEF TypeOK, QueueOK, Boundary
<1> QED
  BY <1>1, <1>2

LEMMA AdvanceType ==
  ASSUME TypeOK, NEW rest \in Seq(CaptureOf), Advance(rest), plan # <<>>, Started,
         UNCHANGED <<phase, hasModel, nextId>>
  PROVE  TypeOK'
<1>1. PlanOK'
  <2>1. plan' \in Seq(Subtasks)
    BY HeadTailProperties DEF TypeOK, PlanOK, Advance, Started
  <2> QED
    BY <2>1 DEF TypeOK, PlanOK, Advance, Started
<1>2. outbox' \in Seq(Asks)
  <2>1. Pass(outbox) \in Seq(Asks)
    BY PassType DEF TypeOK, QueueOK
  <2>2. <<Ask("flip")>> \in Seq(Asks) /\ <<>> \in Seq(Asks)
    BY AskType DEF Purposes
  <2> QED
    BY <2>1, <2>2, ConcatProperties DEF Advance
<1> QED
  BY <1>1, <1>2, BoundaryType DEF TypeOK, Advance

LEMMA FailType ==
  ASSUME TypeOK, NEW failed, NEW plans \in SUBSET Seq(Subtasks), NEW rest \in Seq(CaptureOf),
         Fail(failed, plans, rest), Started, UNCHANGED <<phase, hasModel, nextId>>
  PROVE  TypeOK'
<1>1. CASE BudgetLeft(failed) /\ Boundary(rest)
  <2>1. PlanOK'
    <3>1. retries' \in [Subtasks -> 0..PerSubtask]
      BY <1>1, Bounds DEF TypeOK, PlanOK, Fail, BudgetLeft
    <3> QED
      BY <1>1, <3>1 DEF TypeOK, PlanOK, Fail, Started
  <2>2. outbox' \in Seq(Asks)
    BY <1>1, PassType DEF TypeOK, QueueOK, Fail
  <2> QED
    BY <1>1, <2>1, <2>2, BoundaryType DEF TypeOK
<1>2. CASE ~BudgetLeft(failed)
  BY <1>2 DEF Fail, TypeOK, PlanOK, CountOK, QueueOK, trackerVars, Started, Counted
<1> QED
  BY <1>1, <1>2 DEF Fail

\* The steps that take what the policy says.
LEMMA ReadType ==
  ASSUME TypeOK, Stall \/ ReadMiss \/ ReadNext \/ ReadComplete \/ Release
  PROVE  TypeOK'
<1>0. verdicts \in Seq(CaptureOf) /\ plan \in Seq(Subtasks)
  BY DEF TypeOK, QueueOK, PlanOK
<1>1. CASE Stall
  BY <1>0, <1>1, FailType, ReplansType DEF Stall, Reading, Started
<1>2. CASE ReadMiss
  BY <1>2, Bounds DEF ReadMiss, TypeOK, PlanOK, CountOK, QueueOK, taskVars, recogVars, Started, Counted
<1>3. ASSUME NEW n \in 0..(IF Len(plan) = 1 THEN Consecutive ELSE Hysteresis - 1),
             Count(n), UNCHANGED <<phase, hasModel, nextId>>
      PROVE  TypeOK'
  BY <1>3 DEF Count, TypeOK, PlanOK, CountOK, QueueOK, taskVars, Started, Counted
<1>4. CASE ReadNext
  <2>1. CASE hits + 1 < Hysteresis
    <3>1. hits + 1 \in 0..(IF Len(plan) = 1 THEN Consecutive ELSE Hysteresis - 1)
      <4>1. Len(plan) # 1
        <5>1. Len(plan) \in Nat /\ Len(plan) > 1
          BY <1>0, <1>4, LenProperties DEF ReadNext
        <5> QED
          BY <5>1, NotOne, Zenon
      <4>2. hits \in 0..(Hysteresis - 1)
        BY <4>1 DEF TypeOK, CountOK
      <4>3. hits + 1 \in 0..(Hysteresis - 1)
        BY <2>1, <4>2, Bounds
      <4> QED
        BY <4>1, <4>3
    <3> QED
      BY <1>3, <1>4, <2>1, <3>1 DEF ReadNext
  <2>2. CASE ~(hits + 1 < Hysteresis)
    <3>1. plan # <<>>
      BY <1>4 DEF ReadNext
    <3> QED
      BY <1>0, <1>4, <2>2, <3>1, AdvanceType DEF ReadNext, Reading, Started
  <2> QED
    BY <2>1, <2>2
<1>5. CASE ReadComplete
  <2> DEFINE streak == IF hits < Consecutive THEN hits + 1 ELSE hits
  <2>1. streak \in 0..(IF Len(plan) = 1 THEN Consecutive ELSE Hysteresis - 1)
    BY <1>5, Bounds DEF ReadComplete, TypeOK, CountOK
  <2>2. plan # <<>>
    BY <1>5 DEF ReadComplete
  <2>3. CASE Advance(verdicts)
    BY <1>0, <1>5, <2>2, <2>3, AdvanceType DEF ReadComplete, Reading, Started
  <2>4. CASE Count(streak)
    BY <1>3, <1>5, <2>1, <2>4 DEF ReadComplete
  <2> QED
    BY <1>5, <2>3, <2>4 DEF ReadComplete
<1>6. CASE Release
  <2>1. outbox' \in Seq(Asks)
    BY <1>6, AskType, AppendProperties DEF Release, TypeOK, QueueOK, Purposes
  <2> QED
    BY <1>6, <2>1 DEF Release, TypeOK, PlanOK, CountOK, QueueOK, taskVars, recogVars, Purposes, Started, Counted
<1> QED
  BY <1>1, <1>2, <1>4, <1>5, <1>6

\* aggregate() gives a label of the probe.
LEMMA AggregatesType ==
  ASSUME NEW purpose \in Purposes, NEW seen, ToSet(seen) \subseteq Labels(purpose)
  PROVE  Aggregates(purpose, seen) \subseteq Labels(purpose)
  BY DEF Aggregates

LEMMA TakenType ==
  ASSUME TypeOK, verdicts # <<>>
  PROVE  Head(verdicts) \in CaptureOf /\ Tail(verdicts) \in Seq(CaptureOf)
  BY HeadTailProperties DEF TypeOK, QueueOK

LEMMA StartVerdictType ==
  ASSUME TypeOK, verdicts # <<>>, NEW label \in Labels("start"),
         StartVerdict(Head(verdicts), label), UNCHANGED <<phase, hasModel, nextId>>
  PROVE  TypeOK'
<1> DEFINE seen == Append(frames, label)
<1>1. Head(verdicts).total \in 1..Captures
  BY TakenType DEF CaptureOf
<1>2. ~Started /\ plan = <<>>
  BY DEF StartVerdict, TypeOK, PlanOK
<1>3. seen \in Seq(Labels("start")) /\ Len(seen) \in Nat
  <2>1. frames \in Seq(Labels("start"))
    BY <1>2 DEF TypeOK, CountOK, Counted
  <2> QED
    BY <2>1, AppendProperties, LenProperties
<1>4. QueueOK'
  BY TakenType DEF StartVerdict, TypeOK, QueueOK
<1>5. CASE Len(seen) < Head(verdicts).total
  <2>1. Len(seen) < Captures
    BY <1>1, <1>3, <1>5, Bounds
  <2>2. frames' = seen /\ plan' = plan /\ outcome' = outcome
    BY <1>5 DEF StartVerdict
  <2> QED
    BY <1>3, <1>4, <2>1, <2>2 DEF StartVerdict, TypeOK, PlanOK, CountOK, Started, Counted
<1>6. CASE ~(Len(seen) < Head(verdicts).total)
  <2>1. frames' = <<>> /\ outcome' \in {"needs_operator", "running"}
        /\ \/ plan' = <<>>
           \/ \E state : plan' = PlanFor(state)
    BY <1>6 DEF StartVerdict
  <2>2. plan' \in Seq(Subtasks)
    BY <2>1, PlanForType, EmptySeq
  <2>3. Len(plan') # 1
    <3>1. CASE plan' = <<>>
      <4>1. Len(plan') \in Nat /\ Len(plan') = 0
        BY <3>1, EmptySeq
      <4> QED
        BY <4>1, NotOne, Zenon
    <3>2. ASSUME NEW state, plan' = PlanFor(state) PROVE Len(plan') # 1
      <4>1. Len(plan') \in Nat /\ Len(plan') > 1
        BY <2>2, <3>2, PlanForType, LenProperties
      <4> QED
        BY <4>1, NotOne, Zenon
    <3> QED
      BY <2>1, <3>1, <3>2
  <2>4. hits' \in 0..(IF Len(plan') = 1 THEN Consecutive ELSE Hysteresis - 1)
    <3>1. Len(plan) \in Nat /\ Len(plan) = 0
      BY <1>2, EmptySeq
    <3>2. Len(plan) # 1
      BY <3>1, NotOne, Zenon
    <3>3. hits \in 0..(Hysteresis - 1) /\ hits' = hits
      BY <3>2 DEF StartVerdict, TypeOK, CountOK
    <3> QED
      BY <2>3, <3>3
  <2>5. PlanOK'
    BY <2>1, <2>2 DEF StartVerdict, TypeOK, PlanOK, Started
  <2>6. CountOK'
    BY <2>1, <2>4, Uncounted DEF StartVerdict, TypeOK, CountOK
  <2> QED
    BY <1>4, <2>5, <2>6 DEF TypeOK
<1> QED
  BY <1>5, <1>6

LEMMA FlipVerdictType ==
  ASSUME TypeOK, verdicts # <<>>, NEW label, FlipVerdict(Head(verdicts), label),
         UNCHANGED <<phase, hasModel, nextId>>
  PROVE  TypeOK'
<1>1. CASE Fail("flip", Replans("flip"), Tail(verdicts))
  BY <1>1, FailType, ReplansType, TakenType DEF FlipVerdict
<1>2. CASE UNCHANGED <<plan, outcome, retries, trackerVars, outbox, pending, spoiled>>
           /\ votes' \in {"none", "unflipped"} /\ verdicts' = Tail(verdicts)
  BY <1>2, TakenType DEF TypeOK, PlanOK, CountOK, QueueOK, trackerVars, Started, Counted
<1> QED
  BY <1>1, <1>2 DEF FlipVerdict

LEMMA PlaceStarted ==
  ASSUME TypeOK, Subtask = "place"
  PROVE  plan # <<>> /\ Started /\ frames \in Seq({"ok", "bad"})
<1>1. plan # <<>> /\ Started
  BY DEF Subtask, TypeOK, PlanOK
<1> QED
  BY <1>1, LabelsType DEF TypeOK, CountOK, Counted

LEMMA PlaceDecidedType ==
  ASSUME TypeOK, verdicts # <<>>, Subtask = "place", NEW label,
         NEW plans \in SUBSET Seq(Subtasks), PlaceDecided(label, plans),
         UNCHANGED <<phase, hasModel, nextId>>
  PROVE  TypeOK'
  BY PlaceStarted, TakenType, AdvanceType, FailType DEF PlaceDecided

\* The three ways in which a place verdict is taken.
LEMMA PlaceVerdictCases ==
  ASSUME NEW v, NEW label, PlaceVerdict(v, label)
  PROVE  \/ PlaceDecided(label, {TrayPlan})
         \/ \E agg \in Aggregates("place", Append(frames, label)) :
              \E plans \in {{TrayPlan}, {TrayPlan, Tail(TrayPlan)}} : PlaceDecided(agg, plans)
         \/ /\ votes' = label /\ frames' = Append(frames, label) /\ ~(Len(frames) + 1 >= v.total)
            /\ verdicts' = Tail(verdicts)
            /\ UNCHANGED <<plan, outcome, retries, hits, released, requests, outbox, pending, spoiled>>
<1>1. CASE votes = label
  BY <1>1, Zenon DEF PlaceVerdict
<1>2. CASE votes # label /\ AllSeen(v)
  <2>1. PICK agg \in Aggregates("place", Append(frames, label)) :
          PlaceDecided(agg, IF agg = label THEN {TrayPlan, Tail(TrayPlan)} ELSE {TrayPlan})
    BY <1>2, Zenon DEF PlaceVerdict
  <2>2. CASE agg = label
    BY <2>1, <2>2
  <2>3. CASE agg # label
    BY <2>1, <2>3
  <2> QED
    BY <2>2, <2>3
<1>3. CASE votes # label /\ ~AllSeen(v)
  BY <1>3, Zenon DEF PlaceVerdict, AllSeen
<1> QED
  BY <1>1, <1>2, <1>3

LEMMA PlaceVerdictType ==
  ASSUME TypeOK, verdicts # <<>>, NEW label \in Labels("place"),
         PlaceVerdict(Head(verdicts), label), UNCHANGED <<phase, hasModel, nextId>>
  PROVE  TypeOK'
<1>0. Subtask = "place"
  BY DEF PlaceVerdict
<1>1. {TrayPlan} \in SUBSET Seq(Subtasks) /\ {TrayPlan, Tail(TrayPlan)} \in SUBSET Seq(Subtasks)
  BY PlansType
<1>2. ASSUME NEW said, NEW plans \in {{TrayPlan}, {TrayPlan, Tail(TrayPlan)}},
             PlaceDecided(said, plans)
      PROVE  TypeOK'
  BY <1>0, <1>1, <1>2, PlaceDecidedType
<1>3. CASE /\ votes' = label /\ frames' = Append(frames, label)
           /\ ~(Len(frames) + 1 >= Head(verdicts).total)
           /\ verdicts' = Tail(verdicts)
           /\ UNCHANGED <<plan, outcome, retries, hits, released, requests, outbox, pending, spoiled>>
  <2>1. Head(verdicts).total \in 1..Captures
    BY TakenType DEF CaptureOf
  <2>2. frames \in Seq(Labels("place")) /\ Started
    BY <1>0, PlaceStarted, LabelsType
  <2>3. frames' \in Seq(Labels("place")) /\ Len(frames') = Len(frames) + 1 /\ Len(frames) \in Nat
    BY <1>3, <2>2, AppendProperties, LenProperties
  <2>4. Len(frames') < Captures
    BY <1>3, <2>1, <2>3, Bounds
  <2>5. PlanOK'
    BY <1>3 DEF TypeOK, PlanOK, Started
  <2>6. CountOK'
    BY <1>3, <2>2, <2>3, <2>4 DEF TypeOK, CountOK, Started, Counted
  <2>7. QueueOK'
    BY <1>3, TakenType DEF TypeOK, QueueOK
  <2> QED
    BY <2>5, <2>6, <2>7 DEF TypeOK
<1> QED
  BY <1>2, <1>3, PlaceVerdictCases

LEMMA TakeVerdictType == TypeOK /\ TakeVerdict => TypeOK'
<1> SUFFICES ASSUME TypeOK, TakeVerdict PROVE TypeOK'
  OBVIOUS
<1>0. verdicts # <<>> /\ UNCHANGED <<phase, hasModel, nextId>>
  BY DEF TakeVerdict
<1>1. CASE Ignored(Head(verdicts))
  BY <1>0, <1>1, TakenType DEF Ignored, TypeOK, PlanOK, CountOK, QueueOK, taskVars, trackerVars,
                              Started, Counted
<1>2. ASSUME NEW label \in Labels(Head(verdicts).purpose), StartVerdict(Head(verdicts), label)
      PROVE  TypeOK'
  BY <1>0, <1>2, StartVerdictType DEF StartVerdict
<1>3. ASSUME NEW label \in Labels(Head(verdicts).purpose), FlipVerdict(Head(verdicts), label)
      PROVE  TypeOK'
  BY <1>0, <1>3, FlipVerdictType
<1>4. ASSUME NEW label \in Labels(Head(verdicts).purpose), PlaceVerdict(Head(verdicts), label)
      PROVE  TypeOK'
  BY <1>0, <1>4, PlaceVerdictType DEF PlaceVerdict
<1> QED
  BY <1>1, <1>2, <1>3, <1>4 DEF TakeVerdict

\* The captures of a request.
LEMMA BatchType ==
  ASSUME TypeOK, outbox # <<>>, NEW n \in 1..Captures
  PROVE  /\ Batch(n) \in Seq(CaptureOf) /\ Kept \in Seq(CaptureOf)
         /\ Kept \o Batch(n) \in Seq(CaptureOf) /\ Head(outbox) \in Asks /\ Tail(outbox) \in Seq(Asks)
<1>1. Head(outbox) \in Asks /\ Tail(outbox) \in Seq(Asks)
  BY HeadTailProperties DEF TypeOK, QueueOK
<1>2. n \in Nat /\ Purpose \in Purposes /\ Head(outbox).mine \in BOOLEAN /\ nextId \in Nat
  BY <1>1, Bounds DEF Purpose, Asks, TypeOK, QueueOK
<1>3. [purpose |-> Purpose, id |-> nextId, mine |-> Head(outbox).mine, total |-> n] \in CaptureOf
  BY <1>2 DEF CaptureOf
<1>4. Batch(n) \in Seq(CaptureOf)
  BY <1>2, <1>3 DEF Batch
<1>5. Kept \in Seq(CaptureOf)
  BY EmptySeq DEF Kept, TypeOK, QueueOK
<1> QED
  BY <1>1, <1>4, <1>5, ConcatProperties

LEMMA RequestType ==
  ASSUME TypeOK, Schedule \/ ScheduleUnanswered \/ ScheduleRefused \/ ScheduleNoModel
  PROVE  TypeOK'
<1>0. outbox # <<>> /\ Captures \in 1..Captures
  BY Bounds DEF Schedule, ScheduleUnanswered, ScheduleRefused, ScheduleNoModel, Applying
<1>1. Head(outbox) \in Asks /\ Tail(outbox) \in Seq(Asks) /\ Kept \in Seq(CaptureOf)
  BY <1>0, BatchType
<1>2. nextId + 1 \in Nat /\ Purpose \in Purposes /\ Head(outbox).mine \in BOOLEAN /\ CancelsMine \in BOOLEAN
  BY <1>1 DEF TypeOK, QueueOK, Purpose, Asks, CancelsMine
<1>3. PlanOK'
  BY DEF Schedule, ScheduleUnanswered, ScheduleRefused, ScheduleNoModel, TypeOK, PlanOK, taskVars, Started
<1>4. CountOK'
  <2>1. CASE Schedule
    <3>1. requests' \in [Purposes -> Nat]
      BY <1>2, <2>1 DEF Schedule, TypeOK, CountOK, QueueOK
    <3> QED
      BY <2>1, <3>1 DEF Schedule, TypeOK, CountOK, taskVars, Started, Counted
  <2>2. CASE ScheduleUnanswered \/ ScheduleRefused \/ ScheduleNoModel
    BY <2>2 DEF ScheduleUnanswered, ScheduleRefused, ScheduleNoModel, TypeOK, CountOK, taskVars,
                trackerVars, Started, Counted
  <2> QED
    BY <2>1, <2>2
<1>5. QueueOK'
  <2>1. pending' \in Seq(CaptureOf)
    <3>1. CASE Schedule
      <4>1. PICK n \in 1..Captures : pending' = Kept \o Batch(n)
        BY <3>1 DEF Schedule
      <4> QED
        BY <1>0, <4>1, BatchType
    <3>2. CASE ScheduleUnanswered
      BY <1>0, <3>2, BatchType DEF ScheduleUnanswered
    <3>3. CASE ScheduleRefused \/ ScheduleNoModel
      BY <1>1, <3>3 DEF ScheduleRefused, ScheduleNoModel, TypeOK, QueueOK, recogVars
    <3> QED
      BY <3>1, <3>2, <3>3
  <2>2. spoiled' \in BOOLEAN
    BY <1>2, Zenon DEF Schedule, ScheduleUnanswered, ScheduleRefused, ScheduleNoModel
  <2>3. nextId' \in Nat /\ hasModel' = hasModel /\ verdicts' = verdicts /\ outbox' = Tail(outbox)
    BY <1>2 DEF Schedule, ScheduleUnanswered, ScheduleRefused, ScheduleNoModel, recogVars, TypeOK, QueueOK
  <2> QED
    BY <1>1, <2>1, <2>2, <2>3 DEF TypeOK, QueueOK
<1> QED
  BY <1>3, <1>4, <1>5 DEF TypeOK

\* A capture leaves the queue, taken or lost; the loop goes on.
LEMMA CaptureType ==
  ASSUME TypeOK, Capture \/ CaptureLost \/ NextPhase
  PROVE  TypeOK'
<1>1. PlanOK'
  BY DEF Capture, CaptureLost, NextPhase, TypeOK, PlanOK, taskVars, Started
<1>2. CountOK'
  BY DEF Capture, CaptureLost, NextPhase, TypeOK, CountOK, taskVars, trackerVars, Started, Counted
<1>3. ASSUME NEW k \in DOMAIN pending, pending' = RemoveAt(pending, k),
             Capture \/ CaptureLost,
             verdicts' \in {verdicts, Append(verdicts, pending[k])},
             spoiled' \in {spoiled, spoiled \/ pending[k].mine}
      PROVE  TypeOK'
  <2>1. pending \in Seq(CaptureOf) /\ verdicts \in Seq(CaptureOf) /\ spoiled \in BOOLEAN
    BY DEF TypeOK, QueueOK
  <2>2. pending[k] \in CaptureOf /\ pending' \in Seq(CaptureOf)
    BY <1>3, <2>1, RemoveType, LenProperties, ElementOfSeq
  <2>3. verdicts' \in Seq(CaptureOf)
    BY <1>3, <2>1, <2>2, AppendProperties
  <2>4. spoiled' \in BOOLEAN
    BY <1>3, <2>1, <2>2 DEF CaptureOf
  <2> QED
    BY <1>1, <1>2, <1>3, <2>2, <2>3, <2>4 DEF Capture, CaptureLost, TypeOK, QueueOK
<1>4. CASE NextPhase
  BY <1>1, <1>2, <1>4 DEF NextPhase, TypeOK, QueueOK, recogVars
<1> QED
  BY <1>3, <1>4 DEF Capture, CaptureLost

LEMMA TypeStep == TypeOK /\ [Next]_vars => TypeOK'
<1> SUFFICES ASSUME TypeOK, [Next]_vars PROVE TypeOK'
  OBVIOUS
<1>1. CASE UNCHANGED vars
  BY <1>1 DEF vars, taskVars, trackerVars, recogVars, TypeOK, PlanOK, CountOK, QueueOK, Started, Counted
<1>2. CASE Next
  BY <1>2, ReadType, TakeVerdictType, RequestType, CaptureType DEF Next
<1> QED
  BY <1>1, <1>2

(* The tracker's counters, frames and requests, and the recognizer's queues,
   keep their types: no stay counts more frames than its request has captures. *)
THEOREM TypeCorrect == Spec => []TypeOK
  BY TypeInit, TypeStep, PTL DEF Spec

-----------------------------------------------------------------------------
(* One request at a time.  A request other than the start's cancels every   *)
(* capture; the start's does not, but it is the first of its rollout:       *)
(* RequestInv carries that while it waits to be sent only what an earlier   *)
(* rollout left is pending.                                                 *)

\* Every capture was there before the rollout.
AllLeft(queue) == \A i \in DOMAIN queue : queue[i].id = 0

RequestInv ==
  /\ OneRequestPending /\ nextId > 0
  /\ \A i \in DOMAIN outbox : outbox[i].purpose = "start" =>
       phase = "apply" /\ ~Started /\ Len(outbox) = 1 /\ AllLeft(pending)

LEMMA RequestInit == Init => RequestInv
<1> SUFFICES ASSUME Init PROVE RequestInv
  OBVIOUS
<1>0. AllLeft(pending)
  <2>1. PICK n \in 0..(IF hasModel THEN MaxLeft ELSE 0) : pending \in [1..n -> Leftover]
    BY DEF Init
  <2> QED
    BY <2>1 DEF Leftover, AllLeft
<1>1. OneRequestPending /\ nextId > 0
  BY <1>0 DEF Init, OneRequestPending, AllLeft
<1>2. ASSUME NEW i \in DOMAIN outbox
      PROVE  phase = "apply" /\ ~Started /\ Len(outbox) = 1 /\ AllLeft(pending)
  <2>1. PICK s \in Starts :
          IF s = "recognizer"
          THEN /\ phase = "apply" /\ plan = <<>> /\ outcome = "starting"
               /\ outbox = <<Ask("start")>>
          ELSE /\ phase = "policy" /\ plan = PlanFor(s) /\ outcome = "running" /\ outbox = <<>>
    BY DEF Init
  <2>2. s = "recognizer"
    BY <1>2, <2>1
  <2> QED
    BY <1>0, <2>1, <2>2 DEF Init, Started
<1> QED
  BY <1>1, <1>2 DEF RequestInv

\* No boundary changes which captures are pending, or for which request.
LEMMA BoundaryRequest ==
  ASSUME TypeOK, OneRequestPending, pending' = Pass(pending)
  PROVE  OneRequestPending'
<1>1. pending \in Seq(CaptureOf)
  BY DEF TypeOK, QueueOK
<1>2. /\ DOMAIN pending' = DOMAIN pending
      /\ \A i \in DOMAIN pending : /\ pending'[i].id = pending[i].id
                                   /\ pending'[i].purpose = pending[i].purpose
  BY <1>1, PassType DEF Pass
<1> QED
  BY <1>2 DEF OneRequestPending

\* No start request waits to be sent.
NoStart(queue) == \A i \in DOMAIN queue : queue[i].purpose # "start"

LEMMA NoStartPass ==
  ASSUME TypeOK, NoStart(outbox)
  PROVE  NoStart(Pass(outbox)) /\ Pass(outbox) \in Seq(Asks)
<1>1. outbox \in Seq(Asks) /\ DOMAIN Pass(outbox) = DOMAIN outbox
  BY DEF TypeOK, QueueOK, Pass
<1> QED
  BY <1>1, PassType DEF NoStart

\* A request of another purpose may be put behind.
LEMMA NoStartAppend ==
  ASSUME NEW queue \in Seq(Asks), NoStart(queue), NEW p \in Purposes \ {"start"}
  PROVE  NoStart(Append(queue, Ask(p))) /\ NoStart(queue \o <<Ask(p)>>)
<1>1. Ask(p) \in Asks /\ Ask(p).purpose = p
  BY AskType
<1>2. NoStart(Append(queue, Ask(p)))
  <2> SUFFICES ASSUME NEW i \in DOMAIN Append(queue, Ask(p))
               PROVE  Append(queue, Ask(p))[i].purpose # "start"
    BY DEF NoStart
  <2>1. i \in 1..Len(queue) \/ i = Len(queue) + 1
    BY <1>1, AppendProperties, LenProperties
  <2>2. CASE i \in 1..Len(queue)
    BY <1>1, <2>2, AppendProperties, LenProperties DEF NoStart
  <2>3. CASE i = Len(queue) + 1
    BY <1>1, <2>3, AppendProperties
  <2> QED
    BY <2>1, <2>2, <2>3
<1>3. queue \o <<Ask(p)>> = Append(queue, Ask(p))
  BY <1>1, AppendIsConcat
<1> QED
  BY <1>2, <1>3

\* A change of the plan while no start request waits.
LEMMA PlanChangeRequest ==
  ASSUME TypeOK, OneRequestPending, nextId > 0, nextId' = nextId, NoStart(outbox),
         NEW rest, NEW failed, NEW plans, Advance(rest) \/ Fail(failed, plans, rest)
  PROVE  RequestInv'
<1>1. OneRequestPending'
  BY BoundaryRequest DEF Advance, Fail, Boundary, OneRequestPending
<1>2. NoStart(outbox')
  <2>1. CASE Advance(rest)
    <3>1. Pass(outbox) \in Seq(Asks) /\ NoStart(Pass(outbox))
      BY NoStartPass
    <3>2. Pass(outbox) \o <<>> = Pass(outbox)
      BY <3>1, ConcatEmptySeq
    <3>3. NoStart(Pass(outbox) \o <<Ask("flip")>>)
      BY <3>1, NoStartAppend DEF Purposes
    <3> QED
      BY <2>1, <3>1, <3>2, <3>3 DEF Advance
  <2>2. CASE Fail(failed, plans, rest)
    BY <2>2, NoStartPass DEF Fail
  <2> QED
    BY <2>1, <2>2
<1> QED
  BY <1>1, <1>2 DEF RequestInv, NoStart

LEMMA ReadRequest ==
  ASSUME TypeOK, RequestInv, Stall \/ ReadMiss \/ ReadNext \/ ReadComplete \/ Release
  PROVE  RequestInv'
<1>1. OneRequestPending /\ nextId > 0 /\ nextId' = nextId /\ NoStart(outbox)
  BY DEF RequestInv, NoStart, recogVars, Stall, ReadMiss, ReadNext, ReadComplete, Release, Reading
<1>2. ASSUME UNCHANGED <<outbox, pending>> PROVE RequestInv'
  BY <1>1, <1>2 DEF RequestInv, NoStart, OneRequestPending
<1>3. CASE Stall
  BY <1>1, <1>3, PlanChangeRequest DEF Stall
<1>4. CASE ReadMiss
  BY <1>2, <1>4 DEF ReadMiss, recogVars
<1>5. CASE ReadNext
  BY <1>1, <1>2, <1>5, PlanChangeRequest DEF ReadNext, Count
<1>6. CASE ReadComplete
  BY <1>1, <1>2, <1>6, PlanChangeRequest DEF ReadComplete, Count
<1>7. CASE Release
  <2>1. NoStart(outbox')
    BY <1>1, <1>7, NoStartAppend DEF Release, Purposes, TypeOK, QueueOK
  <2> QED
    BY <1>1, <1>7, <2>1 DEF Release, RequestInv, NoStart, OneRequestPending, recogVars
<1> QED
  BY <1>3, <1>4, <1>5, <1>6, <1>7

LEMMA VerdictRequest ==
  ASSUME TypeOK, RequestInv, TakeVerdict
  PROVE  RequestInv'
<1> DEFINE v == Head(verdicts)
<1>1. OneRequestPending /\ nextId > 0 /\ nextId' = nextId /\ NoStart(outbox)
  BY DEF RequestInv, NoStart, TakeVerdict
<1>2. ASSUME UNCHANGED <<outbox, pending>> PROVE RequestInv'
  BY <1>1, <1>2 DEF RequestInv, NoStart, OneRequestPending
<1>3. CASE Ignored(v)
  BY <1>2, <1>3 DEF Ignored
<1>4. ASSUME NEW label, StartVerdict(v, label) PROVE RequestInv'
  BY <1>2, <1>4 DEF StartVerdict
<1>5. ASSUME NEW label, FlipVerdict(v, label) PROVE RequestInv'
  BY <1>1, <1>2, <1>5, PlanChangeRequest DEF FlipVerdict
<1>6. ASSUME NEW label, PlaceVerdict(v, label) PROVE RequestInv'
  <2>1. ASSUME NEW said, NEW plans, PlaceDecided(said, plans) PROVE RequestInv'
    BY <1>1, <2>1, PlanChangeRequest DEF PlaceDecided
  <2> QED
    BY <1>2, <1>6, <2>1, PlaceVerdictCases
<1> QED
  BY <1>3, <1>4, <1>5, <1>6 DEF TakeVerdict

\* A request that is taken from the outbox leaves no start request there, and
\* the captures are its own or, of the start's, what was there before.
LEMMA SentRequest ==
  ASSUME TypeOK, RequestInv, outbox # <<>>
  PROVE  /\ NoStart(Tail(outbox)) /\ AllLeft(Kept)
         /\ Purpose # "start" => Kept = <<>>
<1>1. outbox \in Seq(Asks)
  BY DEF TypeOK, QueueOK
<1>2. 1 \in DOMAIN outbox /\ Head(outbox) = outbox[1] /\ Len(outbox) \in Nat
  BY <1>1, HeadTailProperties, LenProperties
<1>3. Purpose = "start" => AllLeft(pending) /\ Len(outbox) = 1
  BY <1>2 DEF RequestInv, Purpose
<1>4. NoStart(Tail(outbox))
  <2> SUFFICES ASSUME NEW i \in DOMAIN Tail(outbox), Tail(outbox)[i].purpose = "start" PROVE FALSE
    BY DEF NoStart
  <2>1. i \in 1..(Len(outbox) - 1) /\ Tail(outbox)[i] = outbox[i + 1]
    BY <1>1, HeadTailProperties, LenProperties
  <2>2. i + 1 \in DOMAIN outbox /\ Len(outbox) # 1
    BY <1>1, <1>2, <2>1, LenProperties
  <2> QED
    BY <2>1, <2>2 DEF RequestInv
<1> QED
  BY <1>3, <1>4 DEF Kept, AllLeft

\* The captures when a request has been scheduled: what Kept leaves, and its own.
LEMMA BatchRequest ==
  ASSUME TypeOK, RequestInv, outbox # <<>>, NEW n \in 1..Captures, pending' = Kept \o Batch(n)
  PROVE  OneRequestPending'
<1> DEFINE fresh == {c \in CaptureOf : c.id = nextId /\ c.purpose = Purpose}
           left  == {c \in CaptureOf : c.id = 0}
<1>1. Batch(n) \in Seq(CaptureOf) /\ Kept \in Seq(CaptureOf)
  BY BatchType
<1>2. Batch(n) \in Seq(fresh)
  <2>1. n \in Nat /\ DOMAIN Batch(n) = 1..n
    BY Bounds DEF Batch
  <2>2. Batch(n) \in [1..Len(Batch(n)) -> CaptureOf] /\ DOMAIN Batch(n) = 1..Len(Batch(n))
        /\ Len(Batch(n)) \in Nat
    BY <1>1, LenProperties
  <2>3. \A i \in DOMAIN Batch(n) : Batch(n)[i] \in fresh
    BY <2>1, <2>2 DEF Batch
  <2>4. Batch(n) \in [1..Len(Batch(n)) -> fresh]
    BY <2>2, <2>3
  <2> QED
    BY <2>2, <2>4
<1>3. CASE Purpose = "start"
  <2>1. Kept \in [1..Len(Kept) -> CaptureOf] /\ DOMAIN Kept = 1..Len(Kept) /\ Len(Kept) \in Nat
    BY <1>1, LenProperties
  <2>2. Kept \in [1..Len(Kept) -> left]
    BY <2>1, SentRequest DEF AllLeft
  <2>3. Kept \in Seq(left \cup fresh) /\ Batch(n) \in Seq(left \cup fresh)
    BY <1>2, <2>1, <2>2
  <2>4. pending' \in Seq(left \cup fresh)
    BY <2>3, ConcatProperties
  <2>5. \A i \in DOMAIN pending' : pending'[i] \in left \cup fresh
    BY <2>4, LenProperties, ElementOfSeq
  <2> QED
    BY <1>3, <2>5 DEF OneRequestPending
<1>4. CASE Purpose # "start"
  <2>1. pending' = Batch(n)
    BY <1>1, <1>4, SentRequest, ConcatEmptySeq
  <2>2. \A i \in DOMAIN pending' : pending'[i].id = nextId
    BY <2>1 DEF Batch
  <2> QED
    BY <2>2 DEF OneRequestPending
<1> QED
  BY <1>3, <1>4

LEMMA ScheduleRequest ==
  ASSUME TypeOK, RequestInv, Schedule \/ ScheduleUnanswered \/ ScheduleRefused \/ ScheduleNoModel
  PROVE  RequestInv'
<1>1. outbox # <<>> /\ outbox' = Tail(outbox) /\ nextId' \in {nextId, nextId + 1} /\ nextId \in Nat
  BY DEF Schedule, ScheduleUnanswered, ScheduleRefused, ScheduleNoModel, Applying, recogVars,
         TypeOK, QueueOK
<1>2. NoStart(outbox') /\ AllLeft(Kept)
  BY <1>1, SentRequest
<1>3. OneRequestPending'
  <2>1. CASE Schedule
    <3>1. PICK n \in 1..Captures : pending' = Kept \o Batch(n)
      BY <2>1 DEF Schedule
    <3> QED
      BY <1>1, <3>1, BatchRequest
  <2>2. CASE ScheduleUnanswered
    BY <1>1, <2>2, BatchRequest, Bounds DEF ScheduleUnanswered
  <2>3. CASE ScheduleRefused
    BY <1>2, <2>3 DEF ScheduleRefused, OneRequestPending, AllLeft
  <2>4. CASE ScheduleNoModel
    BY <2>4 DEF ScheduleNoModel, recogVars, RequestInv, OneRequestPending
  <2> QED
    BY <2>1, <2>2, <2>3, <2>4
<1>4. nextId' > 0
  BY <1>1 DEF RequestInv
<1> QED
  BY <1>2, <1>3, <1>4 DEF RequestInv, NoStart

LEMMA CaptureRequest ==
  ASSUME TypeOK, RequestInv, Capture \/ CaptureLost
  PROVE  RequestInv'
<1>1. PICK k \in DOMAIN pending : pending' = RemoveAt(pending, k)
  BY DEF Capture, CaptureLost
<1>2. pending \in Seq(CaptureOf) /\ UNCHANGED <<outbox, phase, outcome, nextId>>
  BY DEF Capture, CaptureLost, taskVars, TypeOK, QueueOK
<1>3. \A i \in DOMAIN pending' : \E j \in DOMAIN pending : pending'[i] = pending[j]
  BY <1>1, <1>2, RemoveElements
<1>4. OneRequestPending'
  BY <1>3 DEF RequestInv, OneRequestPending
<1>5. AllLeft(pending) => AllLeft(pending')
  BY <1>3 DEF AllLeft
<1> QED
  BY <1>2, <1>4, <1>5 DEF RequestInv, Started

LEMMA RequestStep == TypeOK /\ RequestInv /\ [Next]_vars => RequestInv'
<1> SUFFICES ASSUME TypeOK, RequestInv, [Next]_vars PROVE RequestInv'
  OBVIOUS
<1>1. CASE UNCHANGED vars
  BY <1>1 DEF vars, taskVars, recogVars, RequestInv, OneRequestPending, Started, AllLeft
<1>2. CASE NextPhase
  <2>1. DOMAIN outbox = {} \/ phase # "apply"
    BY <1>2 DEF NextPhase
  <2> QED
    BY <1>2, <2>1 DEF NextPhase, taskVars, recogVars, RequestInv, OneRequestPending
<1> QED
  BY <1>1, <1>2, ReadRequest, VerdictRequest, ScheduleRequest, CaptureRequest DEF Next

(* A request drops every capture of the one before it, except the start's,
   which drops none but is the first: whatever an earlier rollout left in the
   schedule, the captures pending are of one request of this rollout, and what
   was left is pending with the start's only. *)
THEOREM OneRequest == Spec => []OneRequestPending
<1>1. RequestInv => OneRequestPending
  BY DEF RequestInv
<1> QED
  BY <1>1, RequestInit, RequestStep, TypeCorrect, PTL DEF Spec

-----------------------------------------------------------------------------
(* A released placement is completed by the tray frames.                   *)

\* What one step may do about it.
ReleaseStep ==
  released /\ outcome' = "done" /\ outcome # "done" =>
    phase = "verdicts" /\ \/ "ok" \in ToSet(frames)
                          \/ PlaceVerdict(Head(verdicts), "ok")

\* Frames that all say bad do not aggregate to ok.
LEMMA BadFrames ==
  ASSUME NEW seen \in Seq({"ok", "bad"}), "ok" \notin ToSet(seen)
  PROVE  "ok" \notin Aggregates("place", Append(seen, "bad"))
<1>1. ToSet(Append(seen, "bad")) = {"bad"}
  <2>1. \A i \in 1..Len(seen) : seen[i] = "bad"
    BY ElementOfSeq, LenProperties DEF ToSet
  <2>2. Append(seen, "bad") \in Seq({"ok", "bad"}) /\ Len(Append(seen, "bad")) = Len(seen) + 1
        /\ Append(seen, "bad")[Len(seen) + 1] = "bad" /\ Len(seen) \in Nat
        /\ \A i \in 1..Len(seen) : Append(seen, "bad")[i] = seen[i]
    BY AppendProperties, LenProperties
  <2>3. DOMAIN Append(seen, "bad") = 1..(Len(seen) + 1)
    BY <2>2, LenProperties
  <2>4. \A i \in 1..(Len(seen) + 1) : Append(seen, "bad")[i] = "bad"
    BY <2>1, <2>2
  <2>5. Len(seen) + 1 \in 1..(Len(seen) + 1)
    BY <2>2
  <2> QED
    BY <2>3, <2>4, <2>5 DEF ToSet
<1>2. Cardinality({"bad"}) = 1
  BY FS_Singleton
<1> QED
  BY <1>1, <1>2 DEF Aggregates

LEMMA PlaceVerdictRelease ==
  ASSUME TypeOK, verdicts # <<>>, phase = "verdicts",
         NEW label \in Labels(Head(verdicts).purpose), PlaceVerdict(Head(verdicts), label)
  PROVE  ReleaseStep
<1>0. label \in {"ok", "bad"} /\ frames \in Seq({"ok", "bad"})
  BY LabelsType, PlaceStarted DEF PlaceVerdict
<1>1. CASE label = "ok"
  BY <1>1 DEF ReleaseStep
<1>2. CASE label = "bad"
  <2>1. ASSUME NEW plans, PlaceDecided("bad", plans) PROVE outcome' # "done" \/ outcome' = outcome
    BY <2>1 DEF PlaceDecided, Fail
  <2>2. ASSUME NEW agg \in Aggregates("place", Append(frames, label)),
               NEW plans, PlaceDecided(agg, plans)
        PROVE  outcome' # "done" \/ outcome' = outcome \/ "ok" \in ToSet(frames)
    <3>1. CASE agg = "ok"
      BY <1>0, <1>2, <3>1, BadFrames
    <3>2. CASE agg # "ok"
      BY <2>2, <3>2 DEF PlaceDecided, Fail
    <3> QED
      BY <3>1, <3>2
  <2> QED
    BY <1>2, <2>1, <2>2, PlaceVerdictCases DEF ReleaseStep
<1> QED
  BY <1>0, <1>1, <1>2

LEMMA ReleaseKept == TypeOK /\ [Next]_vars => [ReleaseStep]_vars
<1> SUFFICES ASSUME TypeOK, Next PROVE ReleaseStep
  OBVIOUS
<1>1. ASSUME outcome' = outcome PROVE ReleaseStep
  BY <1>1 DEF ReleaseStep
<1>2. ASSUME NEW failed, NEW plans, NEW rest, Fail(failed, plans, rest) PROVE ReleaseStep
  BY <1>2 DEF Fail, ReleaseStep
<1>3. CASE Stall
  BY <1>2, <1>3 DEF Stall
<1>4. CASE ReadNext
  <2>1. Len(plan) # 1
    <3>1. Len(plan) \in Nat /\ Len(plan) > 1
      BY <1>4, LenProperties DEF ReadNext, TypeOK, PlanOK
    <3> QED
      BY <3>1, NotOne, Zenon
  <2> QED
    BY <1>1, <1>4, <2>1 DEF ReadNext, Count, Advance, taskVars
<1>5. CASE ReadComplete
  BY <1>1, <1>5 DEF ReadComplete, Count, ValueMayComplete, ReleaseStep, taskVars
<1>6. CASE TakeVerdict
  <2> DEFINE v == Head(verdicts)
  <2>1. verdicts # <<>> /\ phase = "verdicts"
    BY <1>6 DEF TakeVerdict
  <2>2. CASE Ignored(v)
    BY <1>1, <2>2 DEF Ignored, taskVars
  <2>3. ASSUME NEW label, StartVerdict(v, label) PROVE ReleaseStep
    BY <2>3 DEF StartVerdict, ReleaseStep
  <2>4. ASSUME NEW label, FlipVerdict(v, label) PROVE ReleaseStep
    BY <1>1, <1>2, <2>4 DEF FlipVerdict
  <2> QED
    BY <1>6, <2>1, <2>2, <2>3, <2>4, PlaceVerdictRelease DEF TakeVerdict
<1>7. CASE ReadMiss \/ Release \/ Schedule \/ ScheduleUnanswered \/ ScheduleRefused
           \/ ScheduleNoModel \/ Capture \/ CaptureLost \/ NextPhase
  BY <1>1, <1>7 DEF ReadMiss, Release, Schedule, ScheduleUnanswered, ScheduleRefused,
                    ScheduleNoModel, Capture, CaptureLost, NextPhase, taskVars
<1> QED
  BY <1>3, <1>4, <1>5, <1>6, <1>7 DEF Next

(* The value never completes a placement whose release was seen: when every
   tray frame since the last boundary said bad, their aggregate is bad. *)
THEOREM ReleaseVerified == Spec => ReleasedNeedsOk
<1>1. Spec => [][ReleaseStep]_vars
  BY TypeCorrect, ReleaseKept, PTL DEF Spec
<1> QED
  BY <1>1 DEF ReleaseStep, ReleasedNeedsOk
=============================================================================
