---------------------------- MODULE EditorServer ----------------------------
(* The editor's server: the handlers that read and save edits and the ones  *)
(* that show videos are threads of one process and end with it.             *)
EXTENDS DatasetEditor, VideoProxy

CONSTANTS Main,    \* the server the page talks to
          Together \* bound: requests when one of them is for a video

ASSUME MainAssumption == Main \in Servers

ServerVars == <<vars, proxyVars>>
Videos == Cardinality({w \in Viewers : view[w].pc # "idle"})
Within == Videos > 0 => Len(reqs) + Videos <= Together

ServerInit == Init /\ ProxyInit

Editing ==
  \/ Operator
  \/ \E r \in Rows : Browser(r) \/ Refuse(r)
  \/ Main \in swept /\ \E r \in Rows : Handler(r)
  \/ Tick
\* What only a request for a video could notice happens beside one.
Viewing ==
  \/ \E w \in Viewers : Serve(w)
  \/ \E s \in Servers : Sweep(s)
  \/ Videos > 0 /\ Record
\* The process ends: a start removes the part files it finds.
MainDies == Crash /\ ProxyCrash(Main)
OtherDies ==
  /\ Videos > 0
  /\ crashes < MaxCrashes /\ crashes' = crashes + 1
  /\ \E s \in Servers \ {Main} : ProxyCrash(s)
  /\ UNCHANGED page /\ UNCHANGED files /\ UNCHANGED <<reqs, now>>

ServerNext ==
  \/ Editing /\ UNCHANGED proxyVars /\ Within'
  \/ Viewing /\ UNCHANGED vars /\ Within'
  \/ MainDies \/ OtherDies
ServerSpec == ServerInit /\ [][ServerNext]_ServerVars

\* Type invariant of both parts.
ServerTypeOK == TypeOK /\ ProxyTypeOK

\* An edit that was made for an episode is stored with it and stays, and a file
\* of edits can always be read (store.py:190-240, app.js:100-280).
EditsKept == ServerTypeOK /\ SidecarWhole /\ OwnEdits /\ PromiseKept /\ CleanIsStored

\* What is served of a video is not older than the recording there was when it was
\* asked for, and whole but for two packets if its packets were compared with that
\* recording's; what failed on the way leaves no file behind (transcode.py:73-175).
ProxiesWhole == ServedWhole /\ NoOrphans
=============================================================================
