----------------------------- MODULE CommServer ----------------------------
(* The older bridge between ROS and the programs of the host                *)
(* (comm_server.py): what the robot and the cameras say goes out to the     *)
(* model and the web page, and an arbiter passes commands of either on to   *)
(* the robot, one source at a time.                                         *)
EXTENDS Integers, Sequences, FiniteSets

CONSTANTS Clients,     \* who sends commands
          Topics,      \* topics that add_ros_publisher has registered
          NoClient,    \* nobody has control
          NoCommand    \* no command has been published

ASSUME NobodyAssumption == NoClient \notin Clients

VARIABLES pull,      \* pull[c]: commands of c on their way to the arbiter
          holder,    \* _lock_source
          lapsed,    \* has LOCK_TIMEOUT passed since _lock_time?
          listening, \* does the page's listener subscribe to the notifications?
          told,      \* notifications on their way to it
          ros        \* ros[t]: the last command published on t

commVars == <<pull, holder, lapsed, listening, told, ros>>
lease == <<holder, lapsed, told>>

CommInit ==
  /\ pull = [c \in Clients |-> <<>>] /\ holder = NoClient /\ lapsed = FALSE
  /\ listening = FALSE /\ told = <<>>
  /\ ros = [t \in Topics |-> NoCommand]

----------------------------------------------------------------------------
(* The arbiter.  Each socket keeps its own order; those of two senders mix. *)

Push(c, commands) == pull' = [pull EXCEPT ![c] = @ \o commands]

Granted(c) == [event |-> "granted", source |-> c]
Revoked(c) == [event |-> "revoked", source |-> c]

\* A notification that nobody subscribes to is lost.
Notify(news) == told' = IF listening THEN told \o news ELSE told

\* Control goes to whoever has sent last, also while another holds it.
Acquire(c) ==
  /\ Notify((IF holder \notin {NoClient, c} \/ (holder = c /\ lapsed)
             THEN <<Revoked(holder)>> ELSE <<>>)
            \o (IF holder = c /\ ~lapsed THEN <<>> ELSE <<Granted(c)>>))
  /\ holder' = c /\ lapsed' = FALSE

\* A command for a topic of no bridge has taken control all the same.
Publish(m) ==
  ros' = IF m.topic \in Topics THEN [ros EXCEPT ![m.topic] = m.command] ELSE ros

Arbitrate(c) ==
  /\ pull[c] # <<>>
  /\ Acquire(c)
  /\ Publish(Head(pull[c]))
  /\ pull' = [pull EXCEPT ![c] = Tail(@)]
  /\ UNCHANGED listening

\* LOCK_TIMEOUT seconds pass without a command of the holder.
LeaseLapses ==
  /\ holder # NoClient /\ ~lapsed
  /\ lapsed' = TRUE
  /\ UNCHANGED <<pull, holder, listening, told, ros>>

\* Nothing has come for RCVTIMEO.
Release ==
  /\ \A c \in Clients : pull[c] = <<>>
  /\ holder # NoClient /\ lapsed
  /\ Notify(<<Revoked(holder)>>)
  /\ holder' = NoClient /\ lapsed' = FALSE
  /\ UNCHANGED <<pull, listening, ros>>
=============================================================================
