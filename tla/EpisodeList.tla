---------------------------- MODULE EpisodeList -----------------------------
(* What a store of recorded episodes promises, whatever it does to its      *)
(* folders: the list of episodes that a restart would find grows only at    *)
(* its end, and loses only its last episode, once per request to delete it. *)
EXTENDS Naturals, SequencesExt

VARIABLES list,   \* the episodes that are stored
          asked   \* requests to delete the last episode, not yet answered
vars == <<list, asked>>

Init == list = <<>> /\ asked = 0

\* Episodes are recorded, one or several at a time.
Store == IsPrefix(list, list') /\ UNCHANGED asked
Ask == asked' = asked + 1 /\ UNCHANGED list
Drop == /\ asked > 0 /\ list # <<>>
        /\ list' = Front(list) /\ asked' = asked - 1
\* Also when the request comes too late to be met: the list may have grown.
Refuse == asked > 0 /\ asked' = asked - 1 /\ IsPrefix(list, list')
\* The process ends: requests are forgotten, unsaved episodes may be stored.
Forget == asked' = 0 /\ IsPrefix(list, list')

Next == Store \/ Ask \/ Drop \/ Refuse \/ Forget
Spec == Init /\ [][Next]_vars
=============================================================================
