----------------------------- MODULE VideoProxy -----------------------------
(* The copies of a video that a browser can play.  They are made when first *)
(* asked for, and kept under a name that the recording's time and size are  *)
(* part of.  The handlers of one server share a lock per copy; a second     *)
(* server on the same data set shares only the files.  An earlier server    *)
(* has left a copy that is cut off.                                         *)
(*                                                                          *)
(* ffprobe counts packets; it may be missing, take too long or fail, also   *)
(* because the file is cut off.  Then the size decides.                     *)
EXTENDS Integers

CONSTANTS Servers,       \* server processes on the data set
          Viewers,       \* requests for the video
          MaxRecordings, \* bound: times the video is recorded
          Lengths,       \* packets of each recording
          PacketCounts,  \* bound: packets a copy may have
          NoFile, Original \* no copy; the video itself

ASSUME RecordingsAssumption ==
  /\ MaxRecordings \in Nat \ {0} /\ PacketCounts \subseteq Nat
  /\ Lengths \in [1..MaxRecordings -> Nat \ {0}]

VARIABLES recording, \* the recording the source holds, 1 the first
          copies,    \* dst by recording: what it is a copy of, and its packets
          parts,     \* dst.part<pid> of each server, by recording
          swept,     \* servers whose start has removed what was left
          view       \* the requests

proxyVars == <<recording, copies, parts, swept, view>>

Recordings == 1..MaxRecordings
\* A file without packets is empty.  blind: a check let it pass that had no
\* count, or the count of another recording (history).
Copy(of, packets) == [of |-> of, packets |-> packets, blind |-> FALSE]
Slack == 2
Near(count, length) == count - length \in -Slack..Slack
\* _packet_count: 0 when there is none.
Probed(file) == IF file = NoFile THEN {0} ELSE {0, file.packets}
\* expect is the recording that was counted, 0 when it could not be.
IsComplete(file, count, expect) ==
  /\ file # NoFile /\ file.packets > 0
  /\ count = 0 \/ expect = 0 \/ Near(count, Lengths[expect])
Accepted(file, count, expect) == [file EXCEPT !.blind = @ \/ count = 0 \/ expect # file.of]

Locked == {"again", "drop", "encode", "encoding", "verify", "move", "clean"}
Held(s, key) == \E w \in Viewers :
  view[w].pc \in Locked /\ view[w].server = s /\ view[w].key = key
Idle == [pc |-> "idle", server |-> CHOOSE s \in Servers : TRUE, key |-> 1, expect |-> 1, got |-> NoFile]

ProxyInit ==
  /\ recording = 1 /\ swept = Servers
  /\ copies = [r \in Recordings |-> IF r = 1 THEN Copy(1, 1) ELSE NoFile]
  /\ parts = [s \in Servers |-> [r \in Recordings |-> NoFile]]
  /\ view = [w \in Viewers |-> Idle]

----------------------------------------------------------------------------
At(w, pc) == view[w].pc = pc
GoTo(w, pc) == view' = [view EXCEPT ![w].pc = pc]
Got(w, pc, file) == view' = [view EXCEPT ![w] = [@ EXCEPT !.pc = pc, !.got = file]]
Kept == UNCHANGED <<recording, swept>>

\* The name of the copy is made from the recording there is now.
Watch(w, s) ==
  /\ At(w, "idle") /\ s \in swept
  /\ view' = [view EXCEPT ![w] = [@ EXCEPT !.pc = "count", !.server = s, !.key = recording]]
  /\ Kept /\ UNCHANGED <<copies, parts>>
Count(w) ==
  /\ At(w, "count")
  /\ \E expect \in {0, recording} :
       view' = [view EXCEPT ![w] = [@ EXCEPT !.pc = "look", !.expect = expect]]
  /\ Kept /\ UNCHANGED <<copies, parts>>
CopyBecomes(w, file) == copies' = [copies EXCEPT ![view[w].key] = file]
\* The copy there is: it is opened when it is complete.
CheckCopy(w, otherwise) ==
  LET file == copies[view[w].key] IN
  /\ \E count \in Probed(file) :
       IF IsComplete(file, count, view[w].expect)
       THEN GoTo(w, "open") /\ CopyBecomes(w, Accepted(file, count, view[w].expect))
       ELSE GoTo(w, otherwise) /\ UNCHANGED copies
  /\ Kept /\ UNCHANGED parts
Look(w) == At(w, "look") /\ CheckCopy(w, "lock")
Enter(w) ==
  /\ At(w, "lock") /\ ~Held(view[w].server, view[w].key) /\ GoTo(w, "again")
  /\ Kept /\ UNCHANGED <<copies, parts>>
LookAgain(w) == At(w, "again") /\ CheckCopy(w, "drop")
DropOld(w) ==
  /\ At(w, "drop") /\ GoTo(w, "encode") /\ CopyBecomes(w, NoFile)
  /\ Kept /\ UNCHANGED parts

Part(w) == parts[view[w].server][view[w].key]
PartBecomes(w, file) == parts' = [parts EXCEPT ![view[w].server][view[w].key] = file]
Encode(w) ==
  /\ At(w, "encode") /\ GoTo(w, "encoding") /\ PartBecomes(w, Copy(recording, 0))
  /\ Kept /\ UNCHANGED copies
\* The encoder reports success; a full disk may have cut the file off all the
\* same, and another server's start may have removed it.
Encoded(w) ==
  /\ At(w, "encoding") /\ GoTo(w, "verify")
  /\ IF Part(w) = NoFile THEN UNCHANGED parts
     ELSE \E n \in PacketCounts : /\ n <= Lengths[Part(w).of] + Slack
                            /\ PartBecomes(w, [Part(w) EXCEPT !.packets = n])
  /\ Kept /\ UNCHANGED copies
EncodeFails(w) ==
  /\ At(w, "encoding") /\ Got(w, "clean", Original) /\ Kept /\ UNCHANGED <<copies, parts>>
\* Mutant: the exit status of the encoder is enough.
VerifyExists(w) ==
  /\ At(w, "verify")
  /\ IF Part(w) # NoFile THEN GoTo(w, "move") ELSE Got(w, "clean", Original)
  /\ Kept /\ UNCHANGED <<copies, parts>>
Verify(w) ==
  /\ At(w, "verify")
  /\ \E count \in Probed(Part(w)) :
       IF IsComplete(Part(w), count, view[w].expect)
       THEN GoTo(w, "move") /\ PartBecomes(w, Accepted(Part(w), count, view[w].expect))
       ELSE Got(w, "clean", Original) /\ UNCHANGED parts
  /\ Kept /\ UNCHANGED copies
Move(w) ==
  /\ At(w, "move")
  /\ IF Part(w) = NoFile THEN Got(w, "clean", Original) /\ UNCHANGED <<copies, parts>>
     ELSE /\ GoTo(w, "clean") /\ PartBecomes(w, NoFile)
          /\ CopyBecomes(w, Part(w))
  /\ Kept
Clean(w) ==
  /\ At(w, "clean") /\ PartBecomes(w, NoFile)
  /\ GoTo(w, IF view[w].got = Original THEN "shown" ELSE "open")
  /\ Kept /\ UNCHANGED copies
\* The copy may be gone by now: the request then fails.
OpenCopy(w) ==
  /\ At(w, "open") /\ Got(w, "shown", copies[view[w].key])
  /\ Kept /\ UNCHANGED <<copies, parts>>

Record == recording < MaxRecordings /\ recording' = recording + 1 /\ UNCHANGED <<copies, parts, swept, view>>
ProxyCrash(s) ==
  /\ swept' = swept \ {s}
  /\ view' = [w \in Viewers |-> IF view[w].server = s /\ view[w].pc # "idle" THEN [Idle EXCEPT !.pc = "shown"] ELSE view[w]]
  /\ UNCHANGED <<recording, copies, parts>>
\* The files of every process, also of one that is at work.
Sweep(s) ==
  /\ s \notin swept /\ swept' = swept \cup {s}
  /\ parts' = [p \in Servers |-> [r \in Recordings |-> NoFile]]
  /\ UNCHANGED <<recording, copies, view>>

Serve(w) ==
  \/ \E s \in Servers : Watch(w, s)
  \/ Count(w) \/ Look(w) \/ Enter(w) \/ LookAgain(w) \/ DropOld(w) \/ Encode(w)
  \/ Encoded(w) \/ EncodeFails(w) \/ Verify(w) \/ Move(w) \/ Clean(w) \/ OpenCopy(w)

----------------------------------------------------------------------------
Files == {NoFile} \cup [of : Recordings, packets : Nat, blind : BOOLEAN]

\* Type invariant: the values every variable takes.
ProxyTypeOK ==
  /\ recording \in Recordings /\ swept \subseteq Servers
  /\ copies \in [Recordings -> Files] /\ parts \in [Servers -> [Recordings -> Files]]
  /\ view \in [Viewers -> [pc : {"idle", "count", "look", "lock", "open", "shown"} \cup Locked,
                           server : Servers, key : Recordings,
                           expect : {0} \cup Recordings, got : Files \cup {Original}]]

\* No request is answered with a copy of a recording older than the one there
\* was when it came, nor with one that lacks more than two packets: whatever an
\* earlier server has left, a crash, a second server and a new recording do
\* meanwhile.  The exception is a copy some check let pass without the packets of
\* the copy and of the recording it is a copy of to compare.
ServedWhole ==
  \A w \in Viewers : LET got == view[w].got IN got \notin {NoFile, Original} =>
    got.of >= view[w].key /\ (got.blind \/ Near(got.packets, Lengths[got.of]))

\* A part file belongs to a request that is encoding, or to a server that died
\* and whose next start has not removed it yet.
NoOrphans ==
  \A s \in Servers, key \in Recordings :
    parts[s][key] # NoFile /\ s \in swept => Held(s, key)

=============================================================================
