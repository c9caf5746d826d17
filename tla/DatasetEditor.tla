--------------------------- MODULE DatasetEditor ---------------------------
(* The data set editor: a browser page asks for episodes and sends edits;   *)
(* the handlers of the server, each in a thread of its own, keep the edits  *)
(* of an episode in a file beside it, written through a temporary file of   *)
(* one fixed name.  A file is named by the request that created it, so that *)
(* two handlers with the same temporary file open are seen as such.         *)
EXTENDS Integers, SequencesExt, FiniteSetsExt

CONSTANTS Episodes,    \* the episodes of the data set
          Keep,        \* history_depth
          MaxEdits,    \* bound: edits the operator makes
          MaxRequests, \* bound: requests to the server
          MaxTime,     \* bound: seconds of the clock that names the history
          MaxCrashes,  \* bound: times the server dies
          None, Empty, Mixed \* nothing; a file without text; texts over each other

ASSUME SizesAssumption == {Keep, MaxEdits, MaxRequests, MaxTime, MaxCrashes} \subseteq Nat /\ MaxTime > 0

VARIABLES at,      \* page: S.epId
          shown,   \* page: the episode of S.ep
          form,    \* page: S.edits and the input fields
          dirty,   \* page: S.dirty
          told,    \* the segments the page was last told are stored (history)
          about,   \* the episode each edit was meant for (history)
          rash,    \* the operator did not wait for an answer, or went on without (history)
          reqs,    \* the requests, in the order they are made
          text,    \* what the file each request created for an episode holds
          edits,   \* edits.json of each episode: a file, 0 when there is none
          tmp,     \* edits.json.tmp of each episode
          snaps,   \* .edits_history of each episode, by second
          now, crashes,
          mingled  \* episodes of which two saves overlapped (history)

page == <<at, shown, form, dirty, told, about, rash>>
files == <<text, edits, tmp, snaps, mingled>>
clock == <<now, crashes>>
vars == <<at, shown, form, dirty, told, about, rash, reqs, text, edits, tmp,
          snaps, now, crashes, mingled>>

\* An edit is its number; 0 is what the episode was recorded with.
Blank == [prompt |-> 0, segs |-> 0]
Readable(content) == content \notin {Empty, Mixed}
Stored(e) == IF edits[e] # 0 /\ Readable(text[e][edits[e]]) THEN text[e][edits[e]] ELSE Blank

Rows == DOMAIN reqs
Saving == {"merged", "copied", "open", "written"}
Busy(e) == {r \in Rows : reqs[r].ep = e /\ reqs[r].pc \in Saving}
Quiet == \A r \in Rows : reqs[r].pc = "done" \/ reqs[r].kind = "bulk"

Init ==
  /\ at = None /\ shown = None /\ form = Blank /\ dirty = FALSE
  /\ told = [e \in Episodes |-> 0] /\ about = <<>> /\ rash = FALSE
  /\ reqs = <<>> /\ text = [e \in Episodes |-> [r \in 1..MaxRequests |-> Empty]]
  /\ edits = [e \in Episodes |-> 0] /\ tmp = edits
  /\ snaps = [e \in Episodes |-> {}] /\ now = 1 /\ crashes = 0 /\ mingled = {}

----------------------------------------------------------------------------
(* The page. *)

Ask(kind, e, body, rest) ==
  /\ Len(reqs) < MaxRequests
  /\ reqs' = Append(reqs, [kind |-> kind, ep |-> e, body |-> body, rest |-> rest, pc |-> "asked", fd |-> 0])
Ended(request) == [request EXCEPT !.pc = "done", !.body = Blank, !.fd = 0]
Answered(r, kind, pc) ==
  /\ reqs[r].kind = kind /\ reqs[r].pc = pc /\ reqs' = [reqs EXCEPT ![r] = Ended(@)]
Act == rash' = (rash \/ ~Quiet \/ at # shown)
Outside == UNCHANGED <<text, edits, tmp, snaps, mingled, now, crashes>>

\* Also with unsaved edits, after a confirmation.
selectEpisode(e) ==
  /\ at' = e /\ rash' = (rash \/ ~Quiet) /\ Ask("load", e, Blank, {})
  /\ UNCHANGED <<shown, form, dirty, told, about>> /\ Outside
Loaded(r) ==
  /\ Answered(r, "load", "served")
  /\ shown' = reqs[r].ep /\ form' = reqs[r].body /\ dirty' = FALSE
  /\ told' = [told EXCEPT ![reqs[r].ep] = reqs[r].body.segs]
  /\ UNCHANGED <<at, about, rash>> /\ Outside
\* The page keeps the old form under the new name.
LoadFails(r) == Answered(r, "load", "refused") /\ UNCHANGED page /\ Outside

NewEdit == Len(about) + 1
Edit(field) ==
  /\ shown # None /\ Len(about) < MaxEdits
  /\ about' = Append(about, shown) /\ form' = [form EXCEPT ![field] = NewEdit] /\ dirty' = TRUE
  /\ Act /\ UNCHANGED <<at, shown, told, reqs>> /\ Outside

save ==
  /\ shown # None /\ Ask("save", at, form, {})
  /\ Act /\ UNCHANGED <<at, shown, form, dirty, told, about>> /\ Outside
\* The answer is shown whatever was edited or selected meanwhile.
Saved(r) ==
  /\ Answered(r, "save", "served")
  /\ form' = reqs[r].body /\ dirty' = FALSE
  /\ told' = [told EXCEPT ![reqs[r].ep] = reqs[r].body.segs]
  /\ UNCHANGED <<at, shown, about, rash>> /\ Outside
\* The server may have stored it all the same.
SaveFails(r) ==
  /\ Answered(r, "save", "refused") /\ told' = [told EXCEPT ![reqs[r].ep] = None]
  /\ UNCHANGED <<at, shown, form, dirty, about, rash>> /\ Outside

\* Suggested segments, or a copy of the episode before this one.
Suggest(fields) ==
  /\ shown # None /\ Len(about) < MaxEdits /\ about' = Append(about, at)
  /\ Ask("suggest", at, [f \in fields |-> NewEdit], {})
  /\ Act /\ UNCHANGED <<at, shown, form, dirty, told>> /\ Outside
\* Applied to whatever the page holds by then.
Suggested(r) ==
  /\ Answered(r, "suggest", "served") /\ dirty' = TRUE
  /\ form' = [f \in DOMAIN form |-> IF f \in DOMAIN reqs[r].body THEN reqs[r].body[f] ELSE form[f]]
  /\ UNCHANGED <<at, shown, told, about, rash>> /\ Outside
SuggestFails(r) == Answered(r, "suggest", "refused") /\ UNCHANGED page /\ Outside

\* Another client sets the prompt of several episodes.
BulkPrompt ==
  /\ Len(about) < MaxEdits /\ about' = Append(about, None)
  /\ \E e \in Episodes : Ask("bulk", e, [prompt |-> NewEdit], Episodes \ {e})
  /\ UNCHANGED <<at, shown, form, dirty, told, rash>> /\ Outside

----------------------------------------------------------------------------
(* The server. *)

Go(r, from, to) ==
  /\ reqs[r].pc = from /\ reqs' = [reqs EXCEPT ![r].pc = to]
  /\ UNCHANGED page /\ UNCHANGED clock
Done(r, pc) ==
  /\ reqs' = [reqs EXCEPT ![r].pc = pc]
  /\ UNCHANGED page /\ UNCHANGED clock

ServeEpisode(r) ==
  /\ reqs[r].kind = "load" /\ reqs[r].pc = "asked"
  /\ reqs' = [reqs EXCEPT ![r] = [@ EXCEPT !.pc = "served", !.body = Stored(reqs[r].ep)]]
  /\ UNCHANGED page /\ UNCHANGED clock /\ UNCHANGED files
ServeSuggest(r) ==
  reqs[r].kind = "suggest" /\ Go(r, "asked", "served") /\ UNCHANGED files
\* An unknown episode, no server, an error before anything is stored.
Refuse(r) ==
  reqs[r].kind # "bulk" /\ Go(r, "asked", "refused") /\ UNCHANGED files

Overlay(content, payload) ==
  [f \in DOMAIN content |-> IF f \in DOMAIN payload THEN payload[f] ELSE content[f]]
\* Mutant: the payload is laid over the defaults.
MergeDefaults(r) ==
  /\ reqs[r].kind \in {"save", "bulk"} /\ reqs[r].pc = "asked"
  /\ reqs' = [reqs EXCEPT ![r] = [@ EXCEPT !.pc = "merged", !.body = Overlay(Blank, reqs[r].body)]]
  /\ mingled' = IF Busy(reqs[r].ep) # {} THEN mingled \cup {reqs[r].ep} ELSE mingled
  /\ UNCHANGED page /\ UNCHANGED clock /\ UNCHANGED <<text, edits, tmp, snaps>>
\* save_edits: the payload over what is stored, read without a lock.
Merge(r) ==
  /\ reqs[r].kind \in {"save", "bulk"} /\ reqs[r].pc = "asked"
  /\ reqs' = [reqs EXCEPT ![r] = [@ EXCEPT !.pc = "merged", !.body = Overlay(Stored(reqs[r].ep), reqs[r].body)]]
  /\ mingled' = IF Busy(reqs[r].ep) # {} THEN mingled \cup {reqs[r].ep} ELSE mingled
  /\ UNCHANGED page /\ UNCHANGED clock /\ UNCHANGED <<text, edits, tmp, snaps>>

Newest(hist) == {s \in hist : Cardinality({x \in hist : x.at > s.at}) < Keep}
Snapshot(e) == {s \in snaps[e] : s.at # now} \cup {[at |-> now, text |-> text[e][edits[e]]]}
\* Mutant: snaps[:keep] are removed, not snaps[:-keep].
BackupWithoutSign(r) ==
  LET e == reqs[r].ep
      Rest(hist) == {s \in hist : Cardinality({x \in hist : x.at < s.at}) >= Keep} IN
  /\ Go(r, "merged", "copied")
  /\ snaps' = IF Keep > 0 /\ edits[e] # 0 THEN [snaps EXCEPT ![e] = Rest(Snapshot(e))] ELSE snaps
  /\ UNCHANGED <<text, edits, tmp, mingled>>
\* A snapshot of the same second is overwritten.
Backup(r) ==
  LET e == reqs[r].ep IN
  /\ Go(r, "merged", "copied")
  /\ snaps' = IF Keep > 0 /\ edits[e] # 0 THEN [snaps EXCEPT ![e] = Newest(Snapshot(e))] ELSE snaps
  /\ UNCHANGED <<text, edits, tmp, mingled>>

\* Opening truncates a temporary file that is there already.
Open(r) ==
  LET e == reqs[r].ep
      file == IF tmp[e] = 0 THEN r ELSE tmp[e] IN
  /\ reqs[r].pc = "copied"
  /\ reqs' = [reqs EXCEPT ![r] = [@ EXCEPT !.pc = "open", !.fd = file]]
  /\ tmp' = [tmp EXCEPT ![e] = file] /\ text' = [text EXCEPT ![e][file] = Empty]
  /\ UNCHANGED page /\ UNCHANGED clock /\ UNCHANGED <<edits, snaps, mingled>>
\* Over another handler's text: what is longer shows behind it.
Write(r) ==
  /\ Go(r, "open", "written")
  /\ \E new \in {reqs[r].body} \cup (IF text[reqs[r].ep][reqs[r].fd] = Empty THEN {} ELSE {Mixed}) :
       text' = [text EXCEPT ![reqs[r].ep][reqs[r].fd] = new]
  /\ UNCHANGED <<edits, tmp, snaps, mingled>>
Replace(r) ==
  LET e == reqs[r].ep IN
  /\ reqs[r].pc = "written"
  /\ IF tmp[e] = 0
     THEN Done(r, "refused") /\ UNCHANGED <<edits, tmp>>
     ELSE /\ Done(r, "served")
          /\ edits' = [edits EXCEPT ![e] = tmp[e]] /\ tmp' = [tmp EXCEPT ![e] = 0]
  /\ UNCHANGED <<text, snaps, mingled>>

\* The loop over the episodes goes on after an error.
BulkNext(r) ==
  LET payload == [prompt |-> reqs[r].body.prompt] IN
  /\ reqs[r].kind = "bulk" /\ reqs[r].pc \in {"served", "refused"}
  /\ IF reqs[r].rest = {}
     THEN reqs' = [reqs EXCEPT ![r] = Ended(@)]
     ELSE \E e \in reqs[r].rest :
            reqs' = [reqs EXCEPT ![r] = [@ EXCEPT !.pc = "asked", !.ep = e, !.body = payload,
                                                  !.rest = reqs[r].rest \ {e}, !.fd = 0]]
  /\ UNCHANGED page /\ UNCHANGED clock /\ UNCHANGED files

\* Handlers end where they are; their requests fail.  Files stay.
Crash ==
  /\ crashes < MaxCrashes /\ crashes' = crashes + 1
  /\ reqs' = [r \in Rows |->
       IF reqs[r].pc = "done" THEN reqs[r]
       ELSE [reqs[r] EXCEPT !.pc = IF reqs[r].kind = "bulk" THEN "done" ELSE "refused",
                            !.body = Blank, !.rest = {}, !.fd = 0]]
  /\ UNCHANGED page /\ UNCHANGED files /\ UNCHANGED now
\* Seconds matter only to the names in the history: they count from the first one on.
Tick ==
  /\ now < MaxTime /\ (\E e \in Episodes : snaps[e] # {}) /\ now' = now + 1
  /\ UNCHANGED page /\ UNCHANGED files /\ UNCHANGED <<reqs, crashes>>

----------------------------------------------------------------------------
Operator ==
  \/ \E e \in Episodes : selectEpisode(e)
  \/ \E field \in DOMAIN Blank : Edit(field)
  \/ \E fields \in {{"segs"}, {"prompt", "segs"}} : Suggest(fields)
  \/ save
  \/ BulkPrompt
Browser(r) == Loaded(r) \/ LoadFails(r) \/ Saved(r) \/ SaveFails(r) \/ Suggested(r) \/ SuggestFails(r)
Handler(r) ==
  \/ ServeEpisode(r) \/ ServeSuggest(r) \/ Refuse(r)
  \/ Merge(r) \/ Backup(r) \/ Open(r) \/ Write(r) \/ Replace(r) \/ BulkNext(r)

----------------------------------------------------------------------------
Edits == 0..MaxEdits
Contents == [prompt : Edits, segs : Edits]
Texts == Contents \cup {Empty, Mixed}
Payloads == Contents \cup [prompt : Edits] \cup [segs : Edits]
\* A request, wherever it is.
Requests == [kind : {"load", "save", "suggest", "bulk"}, ep : Episodes, body : Payloads,
             rest : SUBSET Episodes, pc : {"asked", "served", "refused", "done"} \cup Saving, fd : 0..MaxRequests]

ASSUME TextsAssumption == {Empty, Mixed} \cap Contents = {}

\* Type invariant: the values every variable takes.
TypeOK ==
  /\ at \in Episodes \cup {None} /\ shown \in Episodes \cup {None}
  /\ form \in Contents /\ dirty \in BOOLEAN /\ rash \in BOOLEAN
  /\ told \in [Episodes -> Edits \cup {None}] /\ about \in Seq(Episodes \cup {None})
  /\ reqs \in Seq(Requests) /\ Len(reqs) <= MaxRequests
  /\ text \in [Episodes -> [1..MaxRequests -> Texts]]
  /\ edits \in [Episodes -> 0..MaxRequests] /\ tmp \in [Episodes -> 0..MaxRequests]
  /\ snaps \in [Episodes -> SUBSET [at : 1..MaxTime, text : Texts]]
  /\ now \in 1..MaxTime /\ crashes \in 0..MaxCrashes /\ mingled \subseteq Episodes

\* The edits of an episode can be read at every moment, also when the server
\* dies in the middle of a save, as long as no two saves of it overlapped.
SidecarWhole ==
  \A e \in Episodes \ mingled : edits[e] # 0 => Readable(text[e][edits[e]])

\* Edits are stored with the episode they were made for, if the operator
\* waits for each answer and does not go on after an episode failed to load.
OwnEdits ==
  ~rash => \A e \in Episodes, field \in DOMAIN Blank :
    Stored(e)[field] # 0 => about[Stored(e)[field]] \in {e, None}

\* Segments the page was told are stored stay stored, through other requests
\* that change the same file and through crashes of the server, unless two
\* saves of the episode overlap or the operator does not wait.
PromiseKept ==
  ~rash => \A e \in Episodes \ mingled :
    told[e] # None /\ (\A r \in Rows : reqs[r].kind = "save" /\ reqs[r].ep = e => reqs[r].pc = "done")
      => Stored(e).segs = told[e]

\* A page without the mark "unsaved" shows segments that are stored.
CleanIsStored ==
  ~rash /\ ~dirty /\ Quiet /\ at # None /\ at = shown /\ at \notin mingled =>
    form.segs = Stored(at).segs

\* A version that a save replaces is in the history by then.
HistoryHolds ==
  [][\A e \in Episodes \ mingled' :
       edits'[e] # edits[e] /\ edits[e] # 0 /\ Keep > 0 =>
         \E s \in snaps[e] : s.text = text[e][edits[e]]]_vars

=============================================================================
