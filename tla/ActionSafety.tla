---------------------------- MODULE ActionSafety ----------------------------
(* The limits between a policy's actions and the arm (rollout/action.py),   *)
(* for one linear axis: the scaled action is clipped to the speed limit,    *)
(* held near the previous command, and stopped at the edge of the           *)
(* workspace; the gripper's channel becomes open and close orders.  The     *)
(* driver's watchdog, the calls it drops and an observation that lags       *)
(* decide what the limits are worth for the arm itself.                     *)
EXTENDS Integers

CONSTANTS Speeds,        \* what the policy may ask, scaled, in units a tick
          MaxSpeed,      \* max_linear
          MaxChange,     \* max_linear_accel of one tick
          Low, High,     \* workspace_min, workspace_max of the axis
          MaxLag,        \* stale_timeout_s in ticks
          WatchTicks     \* command_duration_s in ticks

ASSUME ActionAssumption ==
  /\ Speeds \subseteq Int
  /\ MaxSpeed \in Nat \ {0} /\ MaxChange \in Nat
  /\ Low \in Int /\ High \in Int /\ Low < High
  /\ MaxLag \in Nat /\ WatchTicks \in Nat \ {0}

VARIABLES last,     \* ActionSafety._last: the command before
          grip,     \* ActionSafety._gripper: the target it believes the gripper has
          drive,    \* the speed the driver executes
          left,     \* ticks until its watchdog stops it
          missed,   \* commands the driver did not get since the one it executes, or since a stop
          ticked,   \* the timer has fired in this period
          place,    \* where the arm is
          seen,     \* where the latest observation says it is
          lag,      \* age of the oldest stream of that observation, up to MaxLag + 1
          jaws,     \* what the gripper was last told
          sure      \* the belief about the gripper was right at begin, or has changed since

actionVars == <<last, grip, drive, left, missed, ticked, place, seen, lag, jaws, sure>>

Jaws == {"open", "closed"}
Abs(x) == IF x < 0 THEN -x ELSE x
Clip(x, lo, hi) == IF x < lo THEN lo ELSE IF x > hi THEN hi ELSE x

ActionInit ==
  /\ last = 0 /\ grip = "open" /\ drive = 0 /\ left = 0 /\ missed = 0 /\ ticked = FALSE
  /\ place \in Low..High /\ seen = place /\ lag = 0
  /\ jaws \in Jaws /\ sure = (jaws = "open")

\* The command for an action: speed limit, then change limit.
Limited(v) == Clip(Clip(v, -MaxSpeed, MaxSpeed), last - MaxChange, last + MaxChange)

Outward(v) == (seen <= Low /\ v < 0) \/ (seen >= High /\ v > 0)

\* Mutant: the workspace stops the action, and the change limit comes after it.
CommandRampedLast(v) == Limited(IF Outward(v) THEN 0 ELSE v)
\* The workspace comes last: it takes hold at once.
Command(v) == IF Outward(Limited(v)) THEN 0 ELSE Limited(v)

\* The call reaches the driver, or is left out: no service, or five calls in flight.
Deliver(v) ==
  \/ drive' = v /\ left' = WatchTicks /\ missed' = 0
  \/ /\ UNCHANGED <<drive, left>>
     /\ missed' = IF v = 0 \/ left = 0 THEN 0 ELSE missed + 1

\* Mutant: the new target is stored before it is compared.
AimStoredFirst(g) == grip' = (IF g = "hold" THEN grip ELSE g) /\ UNCHANGED <<jaws, sure>>
\* The gripper's channel g is above, below or within the hysteresis; only a
\* change is sent.
Aim(g) == /\ grip' = IF g = "hold" THEN grip ELSE g
          /\ jaws' = IF grip' # grip THEN grip' ELSE jaws
          /\ sure' = (sure \/ grip' # grip)

\* A tick with an action and a fresh observation.
TickAct(v, g) ==
  /\ ~ticked /\ lag <= MaxLag
  /\ ticked' = TRUE /\ last' = Command(v)
  /\ Deliver(Command(v)) /\ Aim(g)
  /\ UNCHANGED <<place, seen, lag>>

\* Mutant: a stop leaves the command before it.
StopKept == Deliver(0) /\ UNCHANGED <<last, grip, ticked, place, seen, lag, jaws, sure>>
\* A stop: no action, an action that is not finite, a stale observation, the
\* end of the episode (then by the goal's thread).  The next command starts from 0.
Stop == /\ last' = 0
        /\ Deliver(0)
        /\ UNCHANGED <<grip, ticked, place, seen, lag, jaws, sure>>

\* An episode begins: the gripper is believed as it is measured, open when
\* there is no measurement; a part between the jaws, or jaws that move, can read as
\* either.  Since the last episode others may have told the gripper something.
BeginEpisode ==
  /\ last' = 0 /\ missed' = 0
  /\ grip' \in Jaws /\ jaws' \in Jaws /\ sure' = (grip' = jaws')
  /\ UNCHANGED <<drive, left, ticked, place, seen, lag>>

\* All streams arrive; the oldest of them gives the age.
Look == /\ seen' = place /\ lag' \in 0..lag
        /\ UNCHANGED <<last, grip, drive, left, missed, ticked, place, jaws, sure>>

\* One period: the arm moves, the watchdog runs, the observation ages.
Period ==
  /\ place' = place + drive /\ ticked' = FALSE
  /\ lag' = IF lag > MaxLag THEN lag ELSE lag + 1
  /\ left' = IF left = 0 THEN 0 ELSE left - 1
  /\ drive' = (IF left <= 1 THEN 0 ELSE drive) /\ missed' = IF left <= 1 THEN 0 ELSE missed
  /\ UNCHANGED <<last, grip, seen, jaws, sure>>

ActionNext ==
  \/ \E v \in Speeds, g \in Jaws \cup {"hold"} : TickAct(v, g)
  \/ Stop \/ BeginEpisode \/ Look \/ Period

ActionSpec == ActionInit /\ [][ActionNext]_actionVars

-----------------------------------------------------------------------------
(* Types: what is sent, and what is executed, is within the speed limit.    *)
ActionTypeOK ==
  /\ last \in -MaxSpeed..MaxSpeed /\ drive \in -MaxSpeed..MaxSpeed
  /\ left \in 0..WatchTicks /\ missed \in Nat /\ ticked \in BOOLEAN
  /\ place \in Int /\ seen \in Int /\ lag \in 0..(MaxLag + 1)
  /\ grip \in Jaws /\ jaws \in Jaws /\ sure \in BOOLEAN

\* How far the arm can get between an observation and the end of a command
\* that rests on it: the oldest observation a command may use, then the watchdog.
Reach == MaxSpeed * MaxLag + MaxSpeed * WatchTicks

(* However the observation lags, calls are dropped and ticks stay out, the  *)
(* arm leaves the workspace by less than Reach: the limit is not the edge   *)
(* itself, as the order of the limits in __call__ (action.py:54-56) suggests. *)
StaysNear == Low - Reach < place /\ place < High + Reach

(* While the driver executes a command, the next one is faster by at most   *)
(* one change for each command it missed in between, and one for itself     *)
(* (action.py:90-95).  Not so once its watchdog has stopped the arm: the     *)
(* commands go on from _last.                                               *)
NoSurge == [][left > 0 => Abs(drive') <= Abs(drive) + (missed + 1) * MaxChange]_actionVars

(* Once the belief about the gripper was right, or has changed in this      *)
(* episode, the gripper was told what ActionSafety believes, though only    *)
(* changes are sent (action.py:109-120).                                    *)
GripperFollows == sure => jaws = grip

(* The limits of __call__ (action.py:97-104) reach the arm: its speed is     *)
(* within the limit, and it stays near the workspace.                        *)
LimitsHold == ActionTypeOK /\ StaysNear
=============================================================================
