---------------------------- MODULE PoseControl ----------------------------
(* The older web page as a client of the bridge (ui_utils.py): a click on a *)
(* pose starts a thread that sends the pose again and again for a second,   *)
(* and a listener hears who has control.  The model is the other client; it *)
(* may send an action at any time (see ModelServer for when it does).       *)
EXTENDS CommServer

CONSTANTS Web, Model,  \* the page and the model, as clients
          NamedJoints, \* does the configuration list the arm's joints?
          MaxClicks,   \* bound: clicks
          BurstLen,    \* bound: messages of one burst
          MaxSends,    \* bound: actions of the model
          MaxRestarts  \* bound: times that the web process is started again

ASSUME ClientsAssumption == {Web, Model} \subseteq Clients /\ Web # Model
ASSUME NamedAssumption == NamedJoints \in BOOLEAN
ASSUME BoundsAssumption == /\ MaxClicks \in Nat /\ BurstLen \in Nat \ {0}
                           /\ MaxSends \in Nat /\ MaxRestarts \in Nat

VARIABLES owner,     \* who has control, as the page knows
          known,     \* has the page a joint state of the arm?
          clicks,    \* clicks made
          burst,     \* burst[b]: where the thread of the b-th click is
          sent,      \* sent[b]: messages it has sent
          topic,     \* topic[b]: the topic of the b-th click
          current,   \* the click whose cancel event _burst_state holds
          cancelSet,  \* clicks whose cancel event is set
          lastPose,  \* the click that the robot has to obey, if any (history)
          sends,     \* actions the model has sent
          restarts   \* times that the web process has been started again

burstVars == <<burst, sent, topic, current, cancelSet, lastPose>>
poseVars == <<commVars, burstVars, owner, known, clicks, sends, restarts>>

Clicks == 1..MaxClicks
NoClick == 0
AtSend == {b \in Clicks : burst[b] = "send"}

PoseInit ==
  /\ CommInit
  /\ owner = NoClient /\ known = FALSE /\ clicks = 0 /\ sends = 0 /\ restarts = 0
  /\ burst = [b \in Clicks |-> "none"] /\ sent = [b \in Clicks |-> 0]
  /\ topic = [b \in Clicks |-> "robot"] /\ current = NoClick
  /\ cancelSet = {} /\ lastPose = NoClick

----------------------------------------------------------------------------
(* The page: its listener runs once for the life of the web process. *)

StartListeners ==
  /\ ~listening /\ listening' = TRUE
  /\ UNCHANGED <<pull, lease, ros, burstVars, owner, known, clicks, sends, restarts>>

OwnerAfter(o, n) ==
  CASE n.event = "granted" -> n.source
    [] n.event = "revoked" /\ o = n.source -> NoClient
    [] OTHER -> o

CtrlListen ==
  /\ told # <<>> /\ told' = Tail(told)
  /\ owner' = OwnerAfter(owner, Head(told))
  /\ UNCHANGED <<pull, holder, lapsed, listening, ros, burstVars,
                 known, clicks, sends, restarts>>

UpdateRobot ==
  /\ listening /\ ~known /\ known' = TRUE
  /\ UNCHANGED <<commVars, burstVars, owner, clicks, sends, restarts>>

----------------------------------------------------------------------------
(* A click, and the thread that it starts. *)

\* Mutant: the burst before is not cancelSet.
BurstSendOver(b, t) ==
  /\ cancelSet' = cancelSet /\ current' = b
  /\ burst' = [burst EXCEPT ![b] = "check"] /\ topic' = [topic EXCEPT ![b] = t]

BurstSend(b, t) ==
  /\ cancelSet' = cancelSet \union ({current} \ {NoClick}) /\ current' = b
  /\ burst' = [burst EXCEPT ![b] = "check"] /\ topic' = [topic EXCEPT ![b] = t]

\* The pose of the arm needs the names of its joints, that of the gripper does not.
SendPose(t) ==
  /\ listening /\ clicks < MaxClicks
  /\ t = "robot" => NamedJoints \/ known
  /\ clicks' = clicks + 1
  /\ BurstSend(clicks', t)
  /\ lastPose' = IF pull[Model] = <<>> THEN clicks' ELSE NoClick
  /\ UNCHANGED <<commVars, sent, owner, known, sends, restarts>>

BurstCheck(b) ==
  /\ burst[b] = "check"
  /\ \/ /\ b \notin cancelSet /\ sent[b] < BurstLen
        /\ sent[b] = BurstLen - 1 => AtSend = {}   \* a send is shorter than a burst
        /\ burst' = [burst EXCEPT ![b] = "send"]
     \/ /\ b \in cancelSet \/ sent[b] = BurstLen
        /\ burst' = [burst EXCEPT ![b] = "over"]
  /\ UNCHANGED <<commVars, sent, topic, current, cancelSet, lastPose,
                 owner, known, clicks, sends, restarts>>

BurstSends(b) ==
  /\ burst[b] = "send"
  /\ Push(Web, <<[topic |-> topic[b], command |-> <<Web, b>>]>>)
  /\ burst' = [burst EXCEPT ![b] = "check"] /\ sent' = [sent EXCEPT ![b] = @ + 1]
  /\ UNCHANGED <<lease, listening, ros, topic, current, cancelSet, lastPose,
                 owner, known, clicks, sends, restarts>>

----------------------------------------------------------------------------
(* The other client, and the web process. *)

ActionCommand(t, n) == [topic |-> t, command |-> <<Model, n>>]
\* Robot first, then gripper: two messages, which the arbiter may part.  From
\* here on the robot follows the model.
ModelSends ==
  /\ sends < MaxSends /\ sends' = sends + 1
  /\ Push(Model, <<ActionCommand("robot", sends'), ActionCommand("gripper", sends')>>)
  /\ lastPose' = NoClick
  /\ UNCHANGED <<lease, listening, ros, burst, sent, topic, current, cancelSet,
                 owner, known, clicks, restarts>>

\* app_server starts Streamlit again when it has ended.
RestartWeb ==
  /\ listening /\ restarts < MaxRestarts /\ restarts' = restarts + 1
  /\ listening' = FALSE /\ told' = <<>> /\ owner' = NoClient /\ known' = FALSE
  /\ burst' = [b \in Clicks |-> IF burst[b] = "none" THEN "none" ELSE "over"]
  /\ current' = NoClick /\ cancelSet' = {} /\ lastPose' = NoClick
  /\ UNCHANGED <<pull, holder, lapsed, ros, sent, topic, clicks, sends>>

Bridge ==
  /\ (\E c \in Clients : Arbitrate(c)) \/ LeaseLapses \/ Release
  /\ UNCHANGED <<burstVars, owner, known, clicks, sends, restarts>>

PoseNext ==
  \/ StartListeners \/ CtrlListen \/ UpdateRobot \/ ModelSends \/ RestartWeb \/ Bridge
  \/ \E t \in Topics : SendPose(t)
  \/ \E b \in Clicks : BurstCheck(b) \/ BurstSends(b)

----------------------------------------------------------------------------
(* Properties. *)

\* Every variable has a value of its kind.
PoseTypeOK ==
  /\ holder \in Clients \union {NoClient} /\ owner \in Clients \union {NoClient}
  /\ lapsed \in BOOLEAN /\ listening \in BOOLEAN /\ known \in BOOLEAN
  /\ burst \in [Clicks -> {"none", "check", "send", "over"}]
  /\ sent \in [Clicks -> 0..BurstLen]
  /\ cancelSet \subseteq Clicks /\ lastPose \in 0..MaxClicks /\ current \in 0..MaxClicks

\* The page shows c as the owner once the notifications on their way have come:
\* what names c is followed by no grant, and by no revocation of c.
WillShow(c) ==
  \E i \in 0..Len(told) :
    /\ IF i = 0 THEN owner = c ELSE told[i] = Granted(c)
    /\ \A k \in (i + 1)..Len(told) : told[k].event = "revoked" /\ told[k].source # c

\* What the page shows as the owner, once the notifications on their way have
\* come, is who has control, or nobody: also for a page that was opened late
\* (comm_server.py:204-257, ui_utils.py:155-171).
OwnerKnown == \A c \in Clients : WillShow(c) => c = holder

\* The robot comes to rest in the pose that was clicked last, whatever bursts
\* were under way when it was clicked (ui_utils.py:216-240), unless the model
\* has sent an action since.
LastPoseStands ==
  lastPose # NoClick /\ (\A c \in Clients : pull[c] = <<>>)
    /\ (\A b \in Clicks : burst[b] \in {"none", "over"})
  => ros[topic[lastPose]] = <<Web, lastPose>>

\* Control comes free when nobody sends any more, and the page knows
\* (comm_server.py:250-257).
ControlReturns == <>[](holder = NoClient /\ owner = NoClient)

\* The page knows who moves the arm, and the arm obeys the last click.
PoseSafe == PoseTypeOK /\ OwnerKnown /\ LastPoseStands
=============================================================================
