----------------------------- MODULE FrameStream ----------------------------
(* From the topics to the files of an episode: the latest message of every  *)
(* stream (collector/communicator.py), the row of one tick (frame_builder), *)
(* and the writer thread that gives each camera its video and its keyframes *)
(* (writer/episode_writer.py).  Values are abstracted to their age and, for *)
(* a picture, to the row it was taken for and whether it decodes.           *)
EXTENDS Naturals, Sequences

CONSTANTS Streams,      \* everything subscribed
          Cameras,      \* of these, the cameras
          Staleness,    \* staleness_timeout, in periods
          Warmup,       \* warmup_sec, in periods
          RequireAll,   \* require_all_sources
          MaxFrameRows  \* bound: rows of an episode

ASSUME FrameAssumption ==
  /\ Cameras \subseteq Streams /\ Staleness \in Nat /\ Warmup \in Nat
  /\ RequireAll \in BOOLEAN /\ MaxFrameRows \in Nat

VARIABLES mode,     \* "idle", "recording", "pending": stopped, the writer drains
          since,    \* periods since START, up to Warmup
          age,      \* since the stream's latest message came, up to Staleness + 1
          decodes,  \* the latest picture of a camera can be decoded
          waiting,  \* rows in the writer's queue: the cameras that have a picture
          written,  \* rows written
          video,    \* the frames of a camera: the row a frame shows, 0 for black
          opening, closing,  \* its keyframes, 0 for none
          oldest,   \* the oldest value in a row of this episode
          masks     \* streams marked stale in some row of it

episodeVars == <<waiting, written, video, opening, closing, oldest, masks>>
streamVars == <<mode, since, age, decodes, episodeVars>>

Never == Staleness + 2   \* no message yet
Silent(s) == age[s] > Staleness

NoRows ==
  /\ waiting' = <<>> /\ written' = 0 /\ video' = [c \in Cameras |-> <<>>]
  /\ opening' = [c \in Cameras |-> 0] /\ closing' = [c \in Cameras |-> 0]
  /\ oldest' = 0 /\ masks' = {}

StreamInit ==
  /\ mode = "idle" /\ since = 0
  /\ age = [s \in Streams |-> Never] /\ decodes = [c \in Cameras |-> FALSE]
  /\ waiting = <<>> /\ written = 0 /\ video = [c \in Cameras |-> <<>>]
  /\ opening = [c \in Cameras |-> 0] /\ closing = [c \in Cameras |-> 0]
  /\ oldest = 0 /\ masks = {}

\* A message replaces the one before it.
Message(s) ==
  /\ age' = [age EXCEPT ![s] = 0]
  /\ \/ s \in Cameras /\ \E b \in BOOLEAN : decodes' = [decodes EXCEPT ![s] = b]
     \/ s \notin Cameras /\ UNCHANGED decodes
  /\ UNCHANGED <<mode, since, episodeVars>>

TimePasses ==
  /\ age' = [s \in Streams |-> IF age[s] > Staleness THEN age[s] ELSE age[s] + 1]
  /\ since' = IF mode = "recording" /\ since < Warmup THEN since + 1 ELSE since
  /\ UNCHANGED <<mode, decodes, episodeVars>>

BeginRecording ==
  /\ mode = "idle"
  /\ RequireAll => \A s \in Streams : age[s] # Never
  /\ mode' = "recording" /\ since' = 0 /\ NoRows
  /\ UNCHANGED <<age, decodes>>

Sampling == mode = "recording" /\ since = Warmup

\* Communicator.stale
GoneQuiet == {s \in Streams : Silent(s)}

\* One silent stream ends the episode.
SampleAborts ==
  /\ Sampling /\ GoneQuiet # {}
  /\ mode' = "idle" /\ NoRows
  /\ UNCHANGED <<since, age, decodes>>

\* One snapshot of every stream makes the row.
Sample ==
  /\ Sampling /\ GoneQuiet = {} /\ written + Len(waiting) < MaxFrameRows
  /\ waiting' = Append(waiting, {c \in Cameras : decodes[c]})
  /\ \E a \in {oldest} \cup {age[s] : s \in Streams} :
        /\ a >= oldest /\ \A s \in Streams : age[s] <= a
        /\ oldest' = a
  /\ masks' = masks \cup {s \in Streams : Silent(s)}
  /\ UNCHANGED <<mode, since, age, decodes, written, video, opening, closing>>

\* The row the video of c shows next: a missing picture repeats the last one.
Shown(c, pictures) ==
  IF c \in pictures THEN written + 1
  ELSE IF video[c] = <<>> THEN 0 ELSE video[c][Len(video[c])]

\* Mutant: a missing picture writes no frame.
AppendFramesPresent(pictures) ==
  video' = [c \in Cameras |-> IF c \in pictures THEN Append(video[c], written + 1) ELSE video[c]]
AppendFrames(pictures) ==
  video' = [c \in Cameras |-> Append(video[c], Shown(c, pictures))]

\* KeyframeWriter.observe
ObserveFrames(pictures) ==
  /\ opening' = [c \in Cameras |-> IF c \in pictures /\ opening[c] = 0 THEN written + 1 ELSE opening[c]]
  /\ closing' = [c \in Cameras |-> IF c \in pictures THEN written + 1 ELSE closing[c]]

WriteFrame ==
  /\ waiting # <<>>
  /\ waiting' = Tail(waiting) /\ written' = written + 1
  /\ ObserveFrames(Head(waiting)) /\ AppendFrames(Head(waiting))
  /\ UNCHANGED <<mode, since, age, decodes, oldest, masks>>

EndRecording == mode = "recording" /\ mode' = "pending" /\ UNCHANGED <<since, age, decodes, episodeVars>>

\* The episode is saved or thrown away.  What is saved is what the writer has
\* made of all its rows; the properties ask it of every number of them.
EndEpisode ==
  /\ mode \in {"recording", "pending"}
  /\ mode' = "idle" /\ NoRows
  /\ UNCHANGED <<since, age, decodes>>

StreamNext ==
  \/ \E s \in Streams : Message(s)
  \/ TimePasses \/ BeginRecording \/ SampleAborts \/ Sample
  \/ WriteFrame \/ EndRecording \/ EndEpisode

StreamSpec == StreamInit /\ [][StreamNext]_streamVars

-----------------------------------------------------------------------------
StreamTypeOK ==
  /\ mode \in {"idle", "recording", "pending"} /\ since \in 0..Warmup
  /\ age \in [Streams -> 0..Never] /\ decodes \in [Cameras -> BOOLEAN]
  /\ waiting \in Seq(SUBSET Cameras) /\ written \in 0..MaxFrameRows
  /\ written + Len(waiting) <= MaxFrameRows
  /\ video \in [Cameras -> Seq(0..MaxFrameRows)]
  /\ opening \in [Cameras -> 0..MaxFrameRows] /\ closing \in [Cameras -> 0..MaxFrameRows]
  /\ oldest \in 0..Never /\ masks \subseteq Streams

(* No row of an episode holds a value older than the staleness timeout, so   *)
(* none of them marks a stream as stale: recorder_node.py:130-134 promises  *)
(* that no frozen stream is recorded, and the mask frame_builder.py:5 speaks *)
(* of is always empty.                                                      *)
RowsFresh == oldest <= Staleness /\ masks = {}

(* Frame i of every video belongs to row i, pictures that are missing or do *)
(* not decode included (video_writer.py:3-7).                                *)
FramesInStep ==
  \A c \in Cameras : /\ Len(video[c]) = written
                     /\ \A i \in 1..written : video[c][i] <= i

(* The last keyframe of a camera is the last frame of its video, and the    *)
(* first one the first that is not black (episode_writer.py:261-264 says     *)
(* frame 0, which a picture that does not decode makes black).              *)
KeyframesShown ==
  \A c \in Cameras : written > 0 =>
    /\ closing[c] = video[c][written]
    /\ opening[c] = 0 => \A i \in 1..written : video[c][i] = 0
    /\ opening[c] # 0 => /\ video[c][opening[c]] = opening[c]
                         /\ \A i \in 1..opening[c] - 1 : video[c][i] = 0

(* What a row holds is fresh, and what the videos and keyframes show of it   *)
(* is in step with it.                                                       *)
FramesFollowRows == StreamTypeOK /\ RowsFresh /\ FramesInStep /\ KeyframesShown
=============================================================================
