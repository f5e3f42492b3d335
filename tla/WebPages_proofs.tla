---------------------------- MODULE WebPages_proofs ----------------------------
(***************************************************************************)
(* The pages of the web app.  The roster file is sound unless handlers     *)
(* overlapped or a write broke off, for any characters, any number of      *)
(* calls, failures and restarts; a stored summary is not lost to a         *)
(* request that should have found it, for any items, drawers and clicks;   *)
(* page and cache keep their types; the chat history shows each turn once, *)
(* in order and with the best text there is while turns do not cross, for  *)
(* any turns, texts and lost frames; and the socket under the pages loses  *)
(* nothing silently, for any capacity, number of events, viewers and       *)
(* reconnections.                                                          *)
(***************************************************************************)
EXTENDS MCWebPages, ChatPanel, AvatarFanout, FiniteSetTheorems, TLAPS

(***************************************************************************)
(* I.  The roster and its file.                                            *)
(***************************************************************************)
Edits  == 1 .. MaxEdits
Bodies == UNION {[C -> Edits] : C \in SUBSET Characters}

CallsOK ==
  /\ call \in [Slots -> Calls] /\ file \in Files /\ edits \in 0 .. MaxEdits
  /\ \A s \in Slots : call[s].phase = "sent" /\ call[s].verb = "save" => call[s].text \in Edits

(* One handler at a time has the file open, which it has emptied; while    *)
(* none has, it can be read.                                               *)
Opened(s) == call[s].phase = "opened"
OneFile ==
  /\ \A s, t \in Slots : Opened(s) /\ Opened(t) => s = t
  /\ \A s \in Slots : Opened(s) => file.kind = "empty"
  /\ (\A s \in Slots : ~Opened(s)) => Readable

(* One handler at a time has the roster; what it is about to write is      *)
(* sound, and so is what the file holds while it is not open.              *)
OneWriter ==
  /\ \A s, t \in Slots : Working(s) /\ Working(t) => s = t
  /\ \A s \in Slots : Working(s) => InRoster(call[s].copy)
  /\ (\A s \in Slots : ~Opened(s)) => InRoster(file.holds)

RosterInv ==
  /\ CallsOK
  /\ ~clash /\ ~torn => OneFile
  /\ ~overlap /\ ~torn => OneWriter

-----------------------------------------------------------------------------
(* The texts of some characters are a body, and a body is no more.         *)
LEMMA BodyOf == ASSUME NEW C \in SUBSET Characters, NEW b \in [C -> Edits] PROVE b \in Bodies
BY DEF Bodies

(* And the other way round.                                                *)
LEMMA OfBody == ASSUME NEW b \in Bodies PROVE DOMAIN b \in SUBSET Characters /\ b \in [DOMAIN b -> Edits]
BY DEF Bodies

(* The empty roster is a sound one.                                        *)
LEMMA BlankOK == Blank \in Rosters /\ InRoster(Blank)
<1> DEFINE b == [c \in {} |-> 0]
<1>1. b \in [{} -> Edits] /\ {} \in SUBSET Characters
  OBVIOUS
<1>b. b \in Bodies
  BY <1>1, BodyOf
<1>2. Blank = [active |-> NoOne, body |-> b]
  BY DEF Blank
<1> HIDE DEF b
<1> QED BY <1>b, <1>2 DEF Rosters, Bodies, Edits, InRoster

(* What a handler makes of a sound roster is a sound roster.               *)
LEMMA EditedSound ==
  ASSUME NEW r \in Rosters, NEW c \in Calls, c.verb = "save" => c.text \in Edits,
         \/ c.verb = "save" /\ c.id # NoOne
         \/ c.verb = "activate" /\ c.id \in DOMAIN r.body \cup {NoOne}
         \/ c.verb = "delete"
  PROVE  Edited(r, c) \in Rosters /\ (InRoster(r) => InRoster(Edited(r, c)))
<1>t. /\ r.active \in Characters \cup {NoOne} /\ r.body \in Bodies
      /\ c.id \in Characters \cup {NoOne} /\ Rosters = [active : Characters \cup {NoOne}, body : Bodies]
  BY DEF Rosters, Calls, Bodies, Edits
<1>b. DOMAIN r.body \in SUBSET Characters /\ r.body \in [DOMAIN r.body -> Edits]
  BY <1>t, OfBody
<1>1. CASE c.verb = "save"
  <2> DEFINE b == [d \in DOMAIN r.body \cup {c.id} |-> IF d = c.id THEN c.text ELSE r.body[d]]
  <2>1. b \in Bodies
    <3>1. DOMAIN r.body \cup {c.id} \in SUBSET Characters
      BY <1>1, <1>t, <1>b
    <3>2. b \in [DOMAIN r.body \cup {c.id} -> Edits]
      BY <1>1, <1>b
    <3> QED BY <3>1, <3>2, BodyOf
  <2>2. Edited(r, c) = [active |-> r.active, body |-> b]
    BY <1>1 DEF Edited
  <2>3. DOMAIN b = DOMAIN r.body \cup {c.id}
    OBVIOUS
  <2> HIDE DEF b
  <2> QED BY <2>1, <2>2, <2>3, <1>t DEF InRoster
<1>2. CASE c.verb = "activate"
  <2>1. Edited(r, c) = [active |-> c.id, body |-> r.body]
    BY <1>2 DEF Edited
  <2> QED BY <2>1, <1>2, <1>t DEF InRoster
<1>3. CASE c.verb = "delete"
  <2> DEFINE b == [d \in DOMAIN r.body \ {c.id} |-> r.body[d]]
             a == IF r.active = c.id THEN NoOne ELSE r.active
  <2>1. b \in Bodies
    <3>1. DOMAIN r.body \ {c.id} \in SUBSET Characters
      BY <1>b
    <3>2. b \in [DOMAIN r.body \ {c.id} -> Edits]
      BY <1>b
    <3> QED BY <3>1, <3>2, BodyOf
  <2>2. Edited(r, c) = [active |-> a, body |-> b]
    BY <1>3 DEF Edited
  <2>3. DOMAIN b = DOMAIN r.body \ {c.id}
    OBVIOUS
  <2> HIDE DEF b
  <2> QED BY <2>1, <2>2, <2>3, <1>t DEF InRoster
<1> QED BY <1>1, <1>2, <1>3

-----------------------------------------------------------------------------
(* At the start there is no file and no handler.                           *)
LEMMA RosterStarts == RosterInit => RosterInv
<1> SUFFICES ASSUME RosterInit PROVE RosterInv
  OBVIOUS
<1>1. NoCall \in Calls /\ NoCall.phase = "idle"
  BY BlankOK, RosterAssumption DEF NoCall, Over, Calls
<1>2. file \in Files /\ edits \in 0 .. MaxEdits
  BY BlankOK, RosterAssumption DEF RosterInit, Files
<1>3. CallsOK
  BY <1>1, <1>2 DEF RosterInit, CallsOK
<1>4. OneWriter /\ OneFile
  BY <1>1, BlankOK DEF RosterInit, OneWriter, OneFile, Opened, Working, Readable
<1> QED BY <1>3, <1>4 DEF RosterInv

(* The handlers.                                                           *)
LEMMA LoadInv == ASSUME RosterInv, NEW s \in Slots, Load(s) PROVE RosterInv'
<1> DEFINE ok == Readable /\ Accepts(call[s])
           r  == [call[s] EXCEPT !.phase = "loaded", !.copy = Edited(file.holds, call[s])]
           q  == [call[s] EXCEPT !.phase = "refused", !.copy = Blank]
<1>t. /\ call[s] \in Calls /\ file.holds \in Rosters /\ call[s].phase = "sent"
      /\ call[s].verb = "save" => call[s].text \in Edits
  BY DEF Load, RosterInv, CallsOK, Files
<1>u. file' = file /\ edits' = edits /\ torn' = torn /\ clash' = clash
  BY DEF Load
<1>c. ~clash' /\ ~torn' => OneFile'
  <2>1. call'[s].phase \in {"loaded", "refused"} /\ \A t \in Slots \ {s} : call'[t] = call[t]
    BY <1>t DEF Load, RosterInv, CallsOK, Calls
  <2>2. \A t \in Slots : Opened(t)' <=> Opened(t)
    BY <2>1, <1>t DEF Opened
  <2> QED BY <2>2, <1>u DEF RosterInv, OneFile, Readable
<1>1. CASE ok
  <2>1. call' = [call EXCEPT ![s] = r]
    BY <1>1, <1>t DEF Load, RosterInv, CallsOK, Calls
  <2>2. \/ call[s].verb = "save" /\ call[s].id # NoOne
        \/ call[s].verb = "activate" /\ call[s].id \in DOMAIN file.holds.body \cup {NoOne}
        \/ call[s].verb = "delete"
    BY <1>1, <1>t DEF Accepts, Calls
  <2>3. Edited(file.holds, call[s]) \in Rosters
        /\ (InRoster(file.holds) => InRoster(Edited(file.holds, call[s])))
    BY <2>2, <1>t, EditedSound
  <2>4. r \in Calls /\ r.phase = "loaded" /\ r.copy = Edited(file.holds, call[s])
    BY <2>3, <1>t DEF Calls
  <2>5. ~overlap' => ~overlap /\ \A t \in Slots : ~Working(t)
    BY <1>1 DEF Load
  <2> HIDE DEF r
  <2>6. CallsOK'
    BY <2>1, <2>4, <1>u DEF RosterInv, CallsOK
  <2>7. ~overlap' /\ ~torn' => OneWriter'
    BY <2>1, <2>3, <2>4, <2>5, <1>u DEF RosterInv, CallsOK, OneWriter, Opened, Working
  <2> QED BY <2>6, <2>7, <1>c DEF RosterInv
<1>2. CASE ~ok
  <2>1. call' = [call EXCEPT ![s] = q]
    BY <1>2, <1>t DEF Load, RosterInv, CallsOK, Calls
  <2>5. ~overlap' => ~overlap
    BY DEF Load
  <2>2. q \in Calls /\ q.phase = "refused"
    BY <1>t, BlankOK DEF Calls
  <2> HIDE DEF q
  <2>3. CallsOK'
    BY <2>1, <2>2, <1>u DEF RosterInv, CallsOK
  <2>4. ~overlap' /\ ~torn' => OneWriter'
    BY <2>1, <2>2, <2>5, <1>t, <1>u DEF RosterInv, CallsOK, OneWriter, Opened, Working
  <2> QED BY <2>3, <2>4, <1>c DEF RosterInv
<1> QED BY <1>1, <1>2

(* fs::write empties the file: the handler is then the one that has it open.*)
LEMMA TruncateInv == ASSUME RosterInv, NEW s \in Slots, Truncate(s) PROVE RosterInv'
<1> DEFINE r == [call[s] EXCEPT !.phase = "opened"]
<1>t. call[s] \in Calls /\ call[s].phase = "loaded"
  BY DEF Truncate, RosterInv, CallsOK
<1>1. call' = [call EXCEPT ![s] = r]
  BY <1>t DEF Truncate, RosterInv, CallsOK, Calls
<1>2. r \in Calls /\ r.phase = "opened" /\ r.copy = call[s].copy
  BY <1>t DEF Calls
<1>3. file' \in Files /\ file'.kind = "empty"
  BY BlankOK DEF Truncate, Files
<1> HIDE DEF r
<1>4. CallsOK'
  BY <1>1, <1>2, <1>3 DEF Truncate, RosterInv, CallsOK
<1>5. ~overlap' /\ ~torn' => OneWriter'
  BY <1>1, <1>2, <1>3, <1>t DEF Truncate, RosterInv, CallsOK, OneWriter, Opened, Working
<1>6. ASSUME ~clash', ~torn' PROVE OneFile'
  <2>1. ~clash /\ ~torn /\ \A t \in Slots : ~Opened(t)
    BY <1>6 DEF Truncate, Opened
  <2>2. \A t \in Slots : Opened(t)' => t = s
    BY <2>1, <1>1 DEF Opened, RosterInv, CallsOK
  <2>3. Opened(s)'
    BY <1>1, <1>2 DEF Opened, RosterInv, CallsOK
  <2> QED BY <2>2, <2>3, <1>3 DEF OneFile
<1> QED BY <1>4, <1>5, <1>6 DEF RosterInv

(* fs::write fills it with the edit of what it held.                       *)
LEMMA FillInv == ASSUME RosterInv, NEW s \in Slots, Fill(s) PROVE RosterInv'
<1> DEFINE r == [call[s] EXCEPT !.phase = "done", !.copy = Blank]
<1>t. call[s] \in Calls /\ call[s].phase = "opened" /\ call[s].copy \in Rosters
  BY DEF Fill, RosterInv, CallsOK, Calls
<1>1. call' = [call EXCEPT ![s] = r]
  BY <1>t DEF Fill, RosterInv, CallsOK, Calls
<1>2. r \in Calls /\ r.phase = "done"
  BY <1>t, BlankOK DEF Calls
<1>3. file' \in Files
  BY <1>t, BlankOK DEF Fill, Files
<1>u. UNCHANGED <<edits, overlap, clash, torn>>
  BY DEF Fill
<1>6. file.kind = "empty" => file' = [kind |-> "json", holds |-> call[s].copy]
  BY DEF Fill
<1>7. file'.holds \in {Blank, call[s].copy}
  BY DEF Fill
<1> HIDE DEF r
<1>4. CallsOK'
  BY <1>1, <1>2, <1>3, <1>u DEF RosterInv, CallsOK
<1>8. ~Opened(s)' /\ Opened(s) /\ \A t \in Slots \ {s} : call'[t] = call[t] /\ (Opened(t)' <=> Opened(t))
  BY <1>1, <1>2, <1>t DEF Opened, RosterInv, CallsOK
<1>5. ASSUME ~overlap', ~torn' PROVE OneWriter'
  <2>1. OneWriter /\ Working(s) /\ InRoster(call[s].copy)
    BY <1>5, <1>t, <1>u DEF RosterInv, OneWriter, Working
  <2>2. \A t \in Slots : ~Working(t)'
    BY <2>1, <1>1, <1>2, <1>t DEF RosterInv, CallsOK, OneWriter, Working
  <2>3. InRoster(file'.holds)
    BY <2>1, <1>7, BlankOK
  <2> QED BY <2>2, <2>3 DEF OneWriter, InRoster
<1>9. ASSUME ~clash', ~torn' PROVE OneFile'
  <2>1. OneFile /\ file.kind = "empty"
    BY <1>9, <1>u, <1>8 DEF RosterInv, OneFile
  <2>2. \A t \in Slots : ~Opened(t)'
    BY <2>1, <1>8 DEF OneFile
  <2>3. Readable'
    BY <2>1, <1>6 DEF Readable
  <2> QED BY <2>2, <2>3 DEF OneFile
<1> QED BY <1>4, <1>5, <1>9 DEF RosterInv

(* fs::write fails: before it has the file, which stays as it is, or after.*)
LEMMA FailsInv == ASSUME RosterInv, NEW s \in Slots, WriteFails(s) PROVE RosterInv'
<1>1. Over("refused") \in Calls /\ Over("refused").phase = "refused"
  BY BlankOK, RosterAssumption DEF Over, Calls
<1>2. call' = [call EXCEPT ![s] = Over("refused")] /\ UNCHANGED <<edits, overlap, clash>>
  BY DEF WriteFails
<1>3. CallsOK'
  <2>1. file' \in Files
    BY BlankOK DEF WriteFails, Files, RosterInv, CallsOK
  <2> QED BY <2>1, <1>1, <1>2 DEF RosterInv, CallsOK
<1>4. ASSUME ~torn' PROVE ~torn /\ call[s].phase = "loaded" /\ file' = file
  BY <1>4 DEF WriteFails
<1>5. ASSUME ~torn' PROVE \A t \in Slots : Opened(t)' <=> Opened(t)
  BY <1>1, <1>2, <1>4, <1>5 DEF Opened, RosterInv, CallsOK
<1>6. ~clash' /\ ~torn' => OneFile'
  BY <1>2, <1>4, <1>5 DEF RosterInv, OneFile, Readable
<1>7. ~overlap' /\ ~torn' => OneWriter'
  BY <1>1, <1>2, <1>4, <1>5 DEF RosterInv, CallsOK, OneWriter, Working
<1> QED BY <1>3, <1>6, <1>7 DEF RosterInv

(* A restart drops the calls; if one was writing, the write was cut short. *)
LEMMA RestartInv == ASSUME RosterInv, Restart PROVE RosterInv'
<1>1. NoCall \in Calls /\ Over("refused") \in Calls
      /\ NoCall.phase = "idle" /\ Over("refused").phase = "refused"
  BY BlankOK, RosterAssumption DEF NoCall, Over, Calls
<1>2. call' \in [Slots -> Calls] /\ \A s \in Slots : call'[s].phase \in {"idle", "refused"}
  BY <1>1 DEF Restart
<1>u. file' = file /\ edits' = edits /\ overlap' = overlap /\ clash' = clash
  BY DEF Restart
<1>3. CallsOK'
  BY <1>2, <1>u DEF RosterInv, CallsOK
<1>4. ~torn' => ~torn /\ \A s \in Slots : call[s].phase # "opened"
  BY DEF Restart
<1>5. ~overlap' /\ ~torn' => OneWriter'
  BY <1>2, <1>4, <1>u DEF RosterInv, OneWriter, Opened, Working
<1>6. ~clash' /\ ~torn' => OneFile'
  BY <1>2, <1>4, <1>u DEF RosterInv, OneFile, Opened, Readable
<1> QED BY <1>3, <1>5, <1>6 DEF RosterInv

(* The page's end of a call.                                               *)
LEMMA EditInv ==
  ASSUME RosterInv, NEW s \in Slots, NEW verb \in {"save", "delete", "activate"},
         NEW id \in Characters, Edit(s, verb, id)
  PROVE  RosterInv'
<1> DEFINE n == IF verb = "save" THEN edits' ELSE 0
           r == [phase |-> "sent", verb |-> verb, id |-> id, text |-> n, copy |-> Blank]
<1>u. /\ file' = file /\ overlap' = overlap /\ clash' = clash /\ torn' = torn /\ call[s].phase = "idle"
      /\ edits' \in 1 .. MaxEdits
  BY RosterAssumption DEF Edit, RosterInv, CallsOK
<1>1. call' = [call EXCEPT ![s] = r]
  BY DEF Edit
<1>2. n \in 0 .. MaxEdits /\ (verb = "save" => n \in Edits)
  BY <1>u, RosterAssumption DEF Edits
<1> HIDE DEF n
<1>3. r \in Calls /\ r.phase = "sent" /\ (r.verb = "save" => r.text \in Edits)
  BY <1>2, BlankOK DEF Calls
<1> HIDE DEF r
<1>4. CallsOK'
  BY <1>1, <1>3, <1>u DEF RosterInv, CallsOK
<1>5. ~overlap' /\ ~torn' => OneWriter'
  BY <1>1, <1>3, <1>u DEF RosterInv, CallsOK, OneWriter, Opened, Working
<1>6. ~clash' /\ ~torn' => OneFile'
  BY <1>1, <1>3, <1>u DEF RosterInv, CallsOK, OneFile, Opened, Readable
<1> QED BY <1>4, <1>5, <1>6 DEF RosterInv

(* A call that is over leaves the file alone.                              *)
LEMMA ReturnInv == ASSUME RosterInv, NEW s \in Slots, Return(s) PROVE RosterInv'
<1>u. /\ UNCHANGED <<file, edits, overlap, clash, torn>> /\ call' = [call EXCEPT ![s] = NoCall]
      /\ call[s].phase \in {"done", "refused"}
  BY DEF Return
<1>1. NoCall \in Calls /\ NoCall.phase = "idle"
  BY BlankOK, RosterAssumption DEF NoCall, Over, Calls
<1>2. CallsOK'
  BY <1>u, <1>1 DEF RosterInv, CallsOK
<1>3. ~overlap' /\ ~torn' => OneWriter'
  BY <1>u, <1>1 DEF RosterInv, CallsOK, OneWriter, Opened, Working
<1>4. ~clash' /\ ~torn' => OneFile'
  BY <1>u, <1>1 DEF RosterInv, CallsOK, OneFile, Opened, Readable
<1> QED BY <1>2, <1>3, <1>4 DEF RosterInv

(* Every step keeps the invariant.                                         *)
LEMMA RosterStep == RosterInv /\ [RosterNext]_roster => RosterInv'
<1> SUFFICES ASSUME RosterInv, [RosterNext]_roster PROVE RosterInv'
  OBVIOUS
<1>1. CASE UNCHANGED <<file, call, edits, restarts, overlap, clash, torn>>
  BY <1>1 DEF RosterInv, CallsOK, OneWriter, OneFile, Opened, Working, Readable
<1>2. CASE UNCHANGED server
  BY <1>1, <1>2 DEF server
<1>3. CASE UNCHANGED roster
  BY <1>1, <1>3 DEF roster
<1>4. CASE List \/ Mount
  BY <1>2, <1>4 DEF List, Mount
<1>5. ASSUME NEW s \in Slots,
             \/ Load(s) \/ Truncate(s) \/ Fill(s) \/ WriteFails(s) \/ Return(s)
             \/ \E verb \in {"save", "delete", "activate"}, id \in Characters : Edit(s, verb, id)
      PROVE  RosterInv'
  BY <1>5, LoadInv, TruncateInv, FillInv, FailsInv, ReturnInv, EditInv
<1> QED BY <1>2, <1>3, <1>4, <1>5, RestartInv DEF RosterNext

-----------------------------------------------------------------------------
(* The invariant is one of the specification.                              *)
THEOREM RosterInvariance == RosterSpec => []RosterInv
BY RosterStarts, RosterStep, PTL DEF RosterSpec

(* A file that is not being written can be read unless two handlers had it *)
(* open at once or a write broke off, and its active character is in it    *)
(* unless two handlers worked at once or a write broke off.                *)
THEOREM RosterCorrect == RosterSpec => []RosterSound
<1>1. RosterInv => RosterSound
  BY DEF RosterInv, OneWriter, OneFile, Opened, RosterSound
<1> QED BY <1>1, RosterInvariance, PTL

-----------------------------------------------------------------------------
(***************************************************************************)
(* II.  The feed and its summaries.                                        *)
(***************************************************************************)
(* What is known of the requests and of the numbers they handle.           *)
Jobs == [phase : {"idle", "sent", "asking", "done"}, item : Items \cup {NoItem}, force : BOOLEAN,
         saw : Nat, made : Nat]

JobsOK ==
  /\ job \in [Drawers -> Jobs] /\ summary \in [Items -> Nat] /\ clicks \in Nat
  /\ \A j \in Drawers : job[j].phase \in {"sent", "asking"} => job[j].item \in Items

(* A request that asks for a summary and was not forced found none.        *)
FoundNone == \A j \in Drawers :
  job[j].phase = "asking" /\ ~job[j].force => job[j].saw = None

FeedInv == JobsOK /\ FoundNone

(* The steps that touch neither requests nor summaries.                    *)
Elsewhere ==
  \/ ServeMark \/ Marked \/ RefuseMark
  \/ \E url \in FeedUrls : GetFeed(url) \/ ArriveFeed(url) \/ FailFeed(url) \/ ExpireFeed(url)
  \/ \E n \in Loads : Poll(n) \/ Show(n) \/ MarkedAll(n) \/ \E url \in FeedUrls : SetFilter(n, url)
  \/ \E i \in Items \cup {AllItems}, r \in BOOLEAN : ClickMark(i, r)

(* They leave both alone.                                                  *)
LEMMA Untouched ==
  ASSUME Elsewhere, clicks \in Nat
  PROVE  job' = job /\ summary' = summary /\ clicks' \in Nat
<1>1. CASE ServeMark \/ Marked \/ RefuseMark
  BY <1>1 DEF ServeMark, Marked, RefuseMark, db
<1>2. CASE \E url \in FeedUrls : GetFeed(url) \/ ArriveFeed(url) \/ FailFeed(url) \/ ExpireFeed(url)
  BY <1>2 DEF GetFeed, ArriveFeed, FailFeed, ExpireFeed, db, page
<1>3. ASSUME NEW n \in Loads,
             Poll(n) \/ Show(n) \/ MarkedAll(n) \/ \E url \in FeedUrls : SetFilter(n, url)
      PROVE  job' = job /\ summary' = summary /\ clicks' \in Nat
  BY <1>3 DEF Poll, Show, MarkedAll, SetFilter, Click, db
<1>4. CASE \E i \in Items \cup {AllItems}, r \in BOOLEAN : ClickMark(i, r)
  BY <1>4 DEF ClickMark, Click, db
<1> QED BY <1>1, <1>2, <1>3, <1>4 DEF Elsewhere

(* What a request may become.                                              *)
Sound(r) ==
  /\ r \in Jobs
  /\ r.phase \in {"sent", "asking"} => r.item \in Items
  /\ r.phase = "asking" /\ ~r.force => r.saw = None

(* A step of one request keeps what is known of the others.                *)
LEMMA OneRequest ==
  ASSUME FeedInv, NEW j \in Drawers, NEW r, Sound(r), job' = [job EXCEPT ![j] = r],
         summary' \in [Items -> Nat], clicks' \in Nat
  PROVE  FeedInv'
BY DEF FeedInv, JobsOK, FoundNone, Sound

(* The steps of one request.                                               *)
LEMMA OfRequest ==
  ASSUME FeedInv, NEW j \in Drawers,
         \/ GetItem(j) \/ Store(j) \/ RefuseJob(j) \/ Summarized(j)
         \/ \E i \in Items, f \in BOOLEAN : ClickSummarize(j, i, f)
  PROVE  FeedInv'
<1>t. JobsOK /\ FoundNone /\ job[j] \in Jobs
  BY DEF FeedInv, JobsOK
<1>i. Sound(IdleJob)
  BY DEF Sound, Jobs, IdleJob, None
<1>1. CASE GetItem(j)
  <2>1. job[j].phase = "sent" /\ job[j].item \in Items /\ summary[job[j].item] \in Nat
    BY <1>1, <1>t DEF GetItem, JobsOK
  <2>2. CASE Cached(j)
    <3> DEFINE r == [job[j] EXCEPT !.phase = "done", !.saw = summary[job[j].item],
                                   !.made = summary[job[j].item]]
    <3>1. job' = [job EXCEPT ![j] = r]
      BY <1>1, <2>2, <1>t DEF GetItem, JobsOK, Jobs
    <3>2. Sound(r)
      BY <1>t, <2>1 DEF Sound, Jobs
    <3> QED BY <3>1, <3>2, <1>1, <1>t, OneRequest DEF GetItem, JobsOK, db
  <2>3. CASE ~Cached(j)
    <3> DEFINE r == [job[j] EXCEPT !.phase = "asking", !.saw = summary[job[j].item]]
    <3>1. job' = [job EXCEPT ![j] = r]
      BY <1>1, <2>3, <1>t DEF GetItem, JobsOK, Jobs
    <3>2. Sound(r)
      BY <1>t, <2>1, <2>3 DEF Sound, Jobs, Cached
    <3> QED BY <3>1, <3>2, <1>1, <1>t, OneRequest DEF GetItem, JobsOK, db
  <2> QED BY <2>2, <2>3
<1>2. CASE Store(j)
  <2> DEFINE r == [job[j] EXCEPT !.phase = "done"]
  <2>1. Sound(r)
    BY <1>t DEF Sound, Jobs
  <2>2. job' = [job EXCEPT ![j] = r]
    BY <1>2, <1>t DEF Store, JobsOK, Jobs
  <2>3. summary' \in [Items -> Nat] /\ clicks' \in Nat
    BY <1>2, <1>t DEF Store, Stored, JobsOK, Jobs
  <2> HIDE DEF r
  <2> QED BY <2>1, <2>2, <2>3, OneRequest
<1>3. CASE RefuseJob(j)
  BY <1>3, <1>t, <1>i, OneRequest DEF RefuseJob, JobsOK, db
<1>4. CASE Summarized(j)
  BY <1>4, <1>t, <1>i, OneRequest DEF Summarized, JobsOK, db
<1>5. ASSUME NEW i \in Items, NEW f \in BOOLEAN, ClickSummarize(j, i, f) PROVE FeedInv'
  <2> DEFINE r == [phase |-> "sent", item |-> i, force |-> f, saw |-> None, made |-> clicks']
  <2>1. clicks' \in Nat
    BY <1>5, <1>t DEF ClickSummarize, Click, JobsOK
  <2>2. Sound(r)
    BY <2>1 DEF Sound, Jobs, None
  <2>3. job' = [job EXCEPT ![j] = r]
    BY <1>5 DEF ClickSummarize
  <2>4. summary' \in [Items -> Nat]
    BY <1>5, <1>t DEF ClickSummarize, JobsOK, db
  <2> HIDE DEF r
  <2> QED BY <2>1, <2>2, <2>3, <2>4, OneRequest
<1> QED BY <1>1, <1>2, <1>3, <1>4, <1>5

(* Every step keeps the invariant.                                         *)
LEMMA FeedStep == FeedInv /\ [FeedNext]_feed => FeedInv'
<1> SUFFICES ASSUME FeedInv, [FeedNext]_feed PROVE FeedInv'
  OBVIOUS
<1>1. CASE UNCHANGED feed
  BY <1>1 DEF feed, db, page, FeedInv, JobsOK, FoundNone
<1>2. CASE Elsewhere
  <2>1. job' = job /\ summary' = summary /\ clicks' \in Nat
    BY <1>2, Untouched DEF FeedInv, JobsOK
  <2> QED BY <2>1 DEF FeedInv, JobsOK, FoundNone
<1>3. ASSUME NEW j \in Drawers,
             \/ GetItem(j) \/ Store(j) \/ RefuseJob(j) \/ Summarized(j)
             \/ \E i \in Items, f \in BOOLEAN : ClickSummarize(j, i, f)
      PROVE  FeedInv'
  BY <1>3, OfRequest
<1> QED BY <1>1, <1>2, <1>3 DEF FeedNext, Elsewhere

(* At the start nothing is under way.                                      *)
LEMMA FeedStarts == FeedInit => FeedInv
BY DEF FeedInit, FeedInv, JobsOK, FoundNone, Jobs, IdleJob, None

(* Only the end of a request changes a summary, and then by these rules.   *)
LEMMA OnlyStore ==
  ASSUME FeedInv, [FeedNext]_feed, NEW i \in Items, summary[i] # None, summary'[i] # summary[i]
  PROVE  cause'.force \/ cause'.saw # summary[i]
<1>1. ~(UNCHANGED feed)
  BY DEF feed, db
<1>2. ~Elsewhere
  BY Untouched DEF FeedInv, JobsOK
<1>3. ASSUME NEW j \in Drawers, \/ GetItem(j) \/ RefuseJob(j) \/ Summarized(j)
                                \/ \E k \in Items, f \in BOOLEAN : ClickSummarize(j, k, f)
      PROVE  FALSE
  BY <1>3 DEF GetItem, RefuseJob, Summarized, ClickSummarize, db
<1>4. PICK j \in Drawers : Store(j)
  BY <1>1, <1>2, <1>3 DEF FeedNext, Elsewhere
<1>5. job[j].phase = "asking" /\ cause'.force = job[j].force /\ cause'.saw = job[j].saw
  BY <1>4 DEF Store
<1> QED BY <1>5 DEF FeedInv, FoundNone

-----------------------------------------------------------------------------
(* The invariant is one of the specification.                              *)
THEOREM FeedInvariance == FeedSpec => []FeedInv
BY FeedStarts, FeedStep, PTL DEF FeedSpec

(* A summary is replaced only by a forced request or by one that read the  *)
(* item before that summary was stored.                                    *)
THEOREM SummaryCorrect == FeedSpec => SummaryKept
<1>1. FeedInv /\ [FeedNext]_feed =>
        [\A i \in Items : (summary[i] # None /\ summary'[i] # summary[i])
                            => (cause'.force \/ cause'.saw # summary[i])]_feed
  BY OnlyStore
<1> QED BY <1>1, FeedInvariance, PTL DEF FeedSpec, SummaryKept

-----------------------------------------------------------------------------
(***************************************************************************)
(* III.  The cache.  What a page expects of it does not survive a step by  *)
(* itself: that the data which arrives is of the right kind rests on what  *)
(* every answer under way carries.                                         *)
(***************************************************************************)
CacheOK(K, Values) ==
  /\ CacheTypeOK(K, Values)
  /\ DOMAIN data = Keys /\ DOMAIN reply = Keys
  /\ \A k \in K : request[k] = "answered" => reply[k] \in Values

(* Reads, invalidations and time start requests and spoil entries, no more. *)
LEMMA StartingKeeps ==
  ASSUME NEW K \in SUBSET Keys, NEW Values, CacheOK(K, Values),
         known' \in SUBSET Keys, fresh' \in [Keys -> BOOLEAN],
         request' \in [Keys -> {"none", "sent", "answered"}],
         \A k \in Keys : request'[k] = "answered" => request[k] = "answered",
         data' = data, reply' = reply, fails' \in 0 .. MaxFails
  PROVE  CacheOK(K, Values)'
BY DEF CacheOK, CacheTypeOK

(* cachedJson.                                                             *)
LEMMA AskKeeps ==
  ASSUME NEW K \in SUBSET Keys, NEW Values, CacheOK(K, Values), NEW k \in Keys, Ask(k),
         UNCHANGED <<data, fresh, reply, fails>>
  PROVE  CacheOK(K, Values)'
<1>1. /\ known' \in SUBSET Keys /\ request' \in [Keys -> {"none", "sent", "answered"}]
      /\ \A l \in Keys : request'[l] = "answered" => request[l] = "answered"
  BY DEF Ask, CacheOK, CacheTypeOK
<1>2. fresh' \in [Keys -> BOOLEAN] /\ fails' \in 0 .. MaxFails
  BY DEF CacheOK, CacheTypeOK
<1> QED BY <1>1, <1>2, StartingKeeps

(* invalidateCache.                                                        *)
LEMMA InvalidateKeeps ==
  ASSUME NEW K \in SUBSET Keys, NEW Values, CacheOK(K, Values), NEW L, Invalidate(L)
  PROVE  CacheOK(K, Values)'
<1>1. /\ request' \in [Keys -> {"none", "sent", "answered"}]
      /\ \A l \in Keys : request'[l] = "answered" => request[l] = "answered"
  BY DEF Invalidate, CacheOK, CacheTypeOK
<1>2. fresh' \in [Keys -> BOOLEAN] /\ fails' \in 0 .. MaxFails /\ known' \in SUBSET Keys
  BY DEF Invalidate, CacheOK, CacheTypeOK
<1> QED BY <1>1, <1>2, StartingKeeps DEF Invalidate

(* An entry gets too old.                                                  *)
LEMMA ExpireKeeps ==
  ASSUME NEW K \in SUBSET Keys, NEW Values, CacheOK(K, Values), NEW k, Expire(k)
  PROVE  CacheOK(K, Values)'
<1>1. fresh' \in [Keys -> BOOLEAN] /\ fails' \in 0 .. MaxFails /\ known' \in SUBSET Keys
  BY DEF Expire, CacheOK, CacheTypeOK
<1> QED BY <1>1, StartingKeeps DEF Expire, CacheOK, CacheTypeOK

(* The server answers a request of the page with a value of its kind, or   *)
(* one that the page does not look at.                                     *)
LEMMA AnswerKeeps ==
  ASSUME NEW K \in SUBSET Keys, NEW Values, CacheOK(K, Values), NEW k \in Keys, NEW v,
         k \in K => v \in Values, Answer(k, v)
  PROVE  CacheOK(K, Values)'
BY DEF Answer, CacheOK, CacheTypeOK

(* The answer arrives.                                                     *)
LEMMA ArriveKeeps ==
  ASSUME NEW K \in SUBSET Keys, NEW Values, CacheOK(K, Values), NEW k \in Keys, Arrive(k)
  PROVE  CacheOK(K, Values)'
BY DEF Arrive, Settle, CacheOK, CacheTypeOK

(* The request fails.                                                      *)
LEMMA RefusedKeeps ==
  ASSUME NEW K \in SUBSET Keys, NEW Values, CacheOK(K, Values), NEW k \in Keys, Refused(k),
         fails' \in 0 .. MaxFails
  PROVE  CacheOK(K, Values)'
BY DEF Refused, Settle, CacheOK, CacheTypeOK
(* The same where failures are counted.                                    *)
LEMMA FailKeeps ==
  ASSUME NEW K \in SUBSET Keys, NEW Values, CacheOK(K, Values), NEW k \in Keys, Fail(k),
         MaxFails \in Nat
  PROVE  CacheOK(K, Values)'
<1>1. fails' \in 0 .. MaxFails
  BY DEF Fail, CacheOK, CacheTypeOK
<1> QED BY <1>1, RefusedKeeps DEF Fail

(* At the start the cache is empty.                                        *)
LEMMA EmptyCache ==
  ASSUME NEW K \in SUBSET Keys, NEW Values, CacheInit, MaxFails \in Nat
  PROVE  CacheOK(K, Values)
BY DEF CacheInit, CacheOK, CacheTypeOK

(* The home page and its server leave the cache as any page of the URLs K  *)
(* expects it, if it has nothing of the roster's URL or takes rosters.     *)
LEMMA RosterKeepsCache ==
  ASSUME NEW K \in SUBSET Keys, NEW Values, RosterUrl \in K => Values = Rosters,
         CacheOK(K, Values), file \in Files, RosterNext
  PROVE  CacheOK(K, Values)'
<1>u. RosterUrl \in Keys /\ MaxFails \in Nat /\ fails \in 0 .. MaxFails
  BY RosterAssumption DEF CacheOK, CacheTypeOK
<1>s. ASSUME UNCHANGED <<cache, fails>> PROVE CacheOK(K, Values)'
  BY <1>s DEF cache, CacheOK, CacheTypeOK
<1>1. CASE List
  <2>1. CASE Readable
    <3>1. Answer(RosterUrl, file.holds) /\ (RosterUrl \in K => file.holds \in Values)
      BY <1>1, <2>1 DEF List, Files
    <3> QED BY <3>1, <1>u, AnswerKeeps
  <2>2. CASE ~Readable
    <3>1. Refused(RosterUrl) /\ fails' = fails
      BY <1>1, <2>2 DEF List
    <3> QED BY <3>1, <1>u, RefusedKeeps
  <2> QED BY <2>1, <2>2
<1>2. CASE Restart
  <2>1. CASE request[RosterUrl] = "none"
    BY <1>2, <2>1, <1>s DEF Restart
  <2>2. CASE request[RosterUrl] # "none"
    <3>1. Refused(RosterUrl) /\ fails' = fails
      BY <1>2, <2>2 DEF Restart
    <3> QED BY <3>1, <1>u, RefusedKeeps
  <2> QED BY <2>1, <2>2
<1>3. CASE Mount
  <2>1. Ask(RosterUrl) /\ UNCHANGED <<data, fresh, reply, fails>>
    BY <1>3 DEF Mount, Read
  <2> QED BY <2>1, <1>u, AskKeeps
<1>4. CASE Arrive(RosterUrl)
  BY <1>4, <1>u, ArriveKeeps
<1>5. CASE Fail(RosterUrl)
  BY <1>5, <1>u, FailKeeps
<1>6. CASE Expire(RosterUrl)
  BY <1>6, ExpireKeeps
<1>7. ASSUME NEW s \in Slots, Return(s) PROVE CacheOK(K, Values)'
  <2>1. CASE call[s].phase = "done"
    <3>1. Invalidate({RosterUrl})
      BY <1>7, <2>1 DEF Return
    <3> QED BY <3>1, InvalidateKeeps
  <2>2. CASE call[s].phase # "done"
    BY <1>7, <2>2, <1>s DEF Return
  <2> QED BY <2>1, <2>2
<1>8. ASSUME NEW s \in Slots,
             \/ Load(s) \/ Truncate(s) \/ Fill(s)
             \/ \E verb \in {"save", "delete", "activate"}, id \in Characters : Edit(s, verb, id)
      PROVE  CacheOK(K, Values)'
  BY <1>8, <1>s DEF Load, Truncate, Fill, Edit
<1>9. ASSUME NEW s \in Slots, WriteFails(s) PROVE CacheOK(K, Values)'
  <2>1. UNCHANGED cache /\ fails' \in 0 .. MaxFails
    BY <1>9, <1>u DEF WriteFails
  <2> QED BY <2>1 DEF cache, CacheOK, CacheTypeOK
<1> QED BY <1>1, <1>2, <1>3, <1>4, <1>5, <1>6, <1>7, <1>8, <1>9 DEF RosterNext

(* The history of the roster.                                              *)
Flags == overlap \in BOOLEAN /\ clash \in BOOLEAN /\ torn \in BOOLEAN

(* What the roster's page and server know of each other.                   *)
RosterTypes ==
  /\ RosterInv /\ CacheOK({RosterUrl}, Rosters)
  /\ restarts \in 0 .. MaxRestarts /\ Flags

(* It is there at the start.                                               *)
LEMMA RosterTypesStart == RosterInit => RosterTypes
<1> SUFFICES ASSUME RosterInit PROVE RosterTypes
  OBVIOUS
<1>1. CacheInit /\ {RosterUrl} \in SUBSET Keys /\ MaxFails \in Nat
  BY RosterAssumption DEF RosterInit
<1>2. CacheOK({RosterUrl}, Rosters)
  BY <1>1, EmptyCache
<1>3. restarts \in 0 .. MaxRestarts
  BY RosterAssumption DEF RosterInit
<1>4. Flags
  BY Zenon DEF RosterInit, Flags
<1> QED BY <1>2, <1>3, <1>4, RosterStarts DEF RosterTypes

(* Every step keeps it.                                                    *)
LEMMA RosterTypesStep == RosterTypes /\ [RosterNext]_roster => RosterTypes'
<1> SUFFICES ASSUME RosterTypes, [RosterNext]_roster PROVE RosterTypes'
  OBVIOUS
<1>1. RosterInv'
  BY RosterStep DEF RosterTypes
<1>2. CASE UNCHANGED roster
  BY <1>1, <1>2 DEF roster, cache, RosterTypes, Flags, CacheOK, CacheTypeOK
<1>3. CASE RosterNext
  <2>1. CacheOK({RosterUrl}, Rosters)'
    <3>1. {RosterUrl} \in SUBSET Keys /\ file \in Files /\ CacheOK({RosterUrl}, Rosters)
      BY RosterAssumption DEF RosterTypes, RosterInv, CallsOK
    <3> QED BY <3>1, <1>3, RosterKeepsCache
  <2>2. restarts' \in 0 .. MaxRestarts /\ Flags'
    <3>t. restarts \in 0 .. MaxRestarts /\ Flags
      BY DEF RosterTypes
    <3>1. CASE UNCHANGED <<restarts, overlap, clash, torn>>
      BY <3>1, <3>t DEF Flags
    <3>2. CASE UNCHANGED server
      BY <3>2, <3>1 DEF server
    <3>3. CASE Restart
      <4>1. restarts' \in 0 .. MaxRestarts
        BY <3>3, <3>t, RosterAssumption DEF Restart
      <4>2. Flags'
        BY <3>3, <3>t, Zenon DEF Restart, Flags
      <4> QED BY <4>1, <4>2
    <3>4. ASSUME NEW s \in Slots, Load(s) \/ Truncate(s) \/ WriteFails(s)
          PROVE  restarts' \in 0 .. MaxRestarts /\ Flags'
      <4>1. restarts' = restarts
        BY <3>4 DEF Load, Truncate, WriteFails
      <4>2. Flags'
        <5>1. CASE Load(s)
          BY <5>1, <3>t, Zenon DEF Load, Flags
        <5>2. CASE Truncate(s)
          BY <5>2, <3>t, Zenon DEF Truncate, Flags
        <5>3. CASE WriteFails(s)
          BY <5>3, <3>t DEF WriteFails, Flags
        <5> QED BY <3>4, <5>1, <5>2, <5>3
      <4> QED BY <4>1, <4>2, <3>t
    <3>5. ASSUME NEW s \in Slots,
                 \/ Fill(s) \/ Return(s)
                 \/ \E verb \in {"save", "delete", "activate"}, id \in Characters : Edit(s, verb, id)
          PROVE  UNCHANGED <<restarts, overlap, clash, torn>>
      BY <3>5 DEF Fill, Return, Edit
    <3>6. CASE List \/ Mount
      BY <3>6, <3>2 DEF List, Mount
    <3> QED BY <1>3, <3>1, <3>2, <3>3, <3>4, <3>5, <3>6 DEF RosterNext
  <2> QED BY <1>1, <2>1, <2>2 DEF RosterTypes
<1> QED BY <1>2, <1>3

(* What it says of each variable.                                          *)
LEMMA RosterTyped == RosterTypes => RosterTypeOK
BY DEF RosterTypes, Flags, RosterInv, CallsOK, CacheOK, RosterTypeOK

(* The kinds of the feed page's and the feed server's variables.           *)
Requests ==
  [phase : {"idle", "sent", "asking", "done"}, item : Items \cup {NoItem}, force : BOOLEAN,
   saw : 0 .. MaxClicks, made : 0 .. MaxClicks]
Loading == [phase : {"idle", "waiting", "ready"}, url : FeedUrls, got : Lists]
Marking == [phase : {"idle", "sent", "done"}, item : Items \cup {AllItems, NoItem}, read : BOOLEAN,
            url : FeedUrls]

LocalsOK ==
  /\ read \in SUBSET Items /\ summary \in [Items -> 0 .. MaxClicks]
  /\ list \in Lists /\ filter \in FeedUrls
  /\ load \in [Loads -> Loading] /\ mark \in Marking /\ job \in [Drawers -> Requests]
  /\ clicks \in 0 .. MaxClicks
  /\ cause \in [force : BOOLEAN, saw : 0 .. MaxClicks]
  /\ mark.phase # "idle" => mark.item \in Items \cup {AllItems}

FeedTypes == FeedInv /\ CacheOK(FeedUrls, Lists) /\ LocalsOK

(* Rows of some items are a list, and a list is no more.                   *)
LEMMA ListOf == ASSUME NEW I \in SUBSET Items, NEW l \in [I -> Rows] PROVE l \in Lists
BY DEF Lists
(* And the other way round.                                                *)
LEMMA OfList == ASSUME NEW l \in Lists PROVE DOMAIN l \in SUBSET Items /\ l \in [DOMAIN l -> Rows]
BY DEF Lists

(* The empty list, and the locals of a page that does nothing.             *)
LEMMA FeedIdle ==
  /\ [i \in {} |-> 0] \in Lists
  /\ IdleLoad \in Loading /\ IdleMark \in Marking /\ IdleJob \in Requests
<1>1. [i \in {} |-> 0] \in [{} -> Rows] /\ {} \in SUBSET Items
  OBVIOUS
<1>2. [i \in {} |-> 0] \in Lists
  BY <1>1, ListOf
<1>3. IdleLoad.got \in Lists /\ IdleLoad = [phase |-> "idle", url |-> AllUrl, got |-> IdleLoad.got]
  BY <1>2 DEF IdleLoad
<1>4. IdleLoad \in Loading
  BY <1>3 DEF Loading, FeedUrls
<1>5. IdleMark \in Marking
  BY DEF IdleMark, Marking, FeedUrls
<1>6. IdleJob \in Requests
  BY FeedAssumption DEF IdleJob, Requests, None
<1> QED BY <1>2, <1>4, <1>5, <1>6

(* The server's answers are lists.                                         *)
LEMMA FeedIsList ==
  ASSUME NEW url, read \in SUBSET Items, summary \in [Items -> 0 .. MaxClicks]
  PROVE  Feed(url) \in Lists
<1> DEFINE I == {j \in Items : url = AllUrl \/ j \notin read}
           f == [i \in I |-> [read |-> i \in read, summary |-> summary[i]]]
<1>1. ASSUME NEW i \in I PROVE [read |-> i \in read, summary |-> summary[i]] \in Rows
  <2>1. summary[i] \in 0 .. MaxClicks /\ (i \in read) \in BOOLEAN
    OBVIOUS
  <2> QED BY <2>1, Zenon DEF Rows
<1>2. I \in SUBSET Items
  OBVIOUS
<1>3. f \in [I -> Rows]
  BY <1>1, Zenon
<1>4. Feed(url) = f
  BY DEF Feed
<1> HIDE DEF I, f
<1> QED BY <1>2, <1>3, <1>4, ListOf


(* The feed page and its server leave the cache as any page of the URLs K  *)
(* expects it, if it has none of the feed's URLs or takes lists.           *)
LEMMA FeedKeepsCache ==
  ASSUME NEW K \in SUBSET Keys, NEW Values, K \cap FeedUrls # {} => Values = Lists,
         CacheOK(K, Values), FeedNext, filter \in FeedUrls, mark.url \in FeedUrls,
         read \in SUBSET Items, summary \in [Items -> 0 .. MaxClicks]
  PROVE  CacheOK(K, Values)'
<1>u. FeedUrls \subseteq Keys /\ MaxFails \in Nat /\ fails \in 0 .. MaxFails
  BY FeedAssumption DEF CacheOK, CacheTypeOK
<1>s. ASSUME UNCHANGED cache, fails' \in 0 .. MaxFails PROVE CacheOK(K, Values)'
  BY <1>s DEF cache, CacheOK, CacheTypeOK
<1>1. ASSUME NEW url \in FeedUrls, GetFeed(url) PROVE CacheOK(K, Values)'
  <2>1. Answer(url, Feed(url)) /\ (url \in K => Feed(url) \in Values)
    BY <1>1, FeedIsList DEF GetFeed
  <2> QED BY <2>1, <1>u, AnswerKeeps
<1>2. ASSUME NEW url \in FeedUrls, ArriveFeed(url) PROVE CacheOK(K, Values)'
  BY <1>2, <1>u, ArriveKeeps DEF ArriveFeed
<1>3. ASSUME NEW url \in FeedUrls, FailFeed(url) PROVE CacheOK(K, Values)'
  BY <1>3, <1>u, FailKeeps DEF FailFeed
<1>4. ASSUME NEW url \in FeedUrls, ExpireFeed(url) PROVE CacheOK(K, Values)'
  BY <1>4, ExpireKeeps DEF ExpireFeed
<1>5. ASSUME NEW n \in Loads, Poll(n) PROVE CacheOK(K, Values)'
  <2>1. Ask(filter) /\ UNCHANGED <<data, fresh, reply, fails>> /\ filter \in Keys
    BY <1>5, <1>u DEF Poll, FetchAll
  <2> QED BY <2>1, AskKeeps
<1>6. ASSUME NEW n \in Loads, NEW url \in FeedUrls, SetFilter(n, url) PROVE CacheOK(K, Values)'
  <2>1. Ask(url) /\ UNCHANGED <<data, fresh, reply, fails>> /\ url \in Keys
    BY <1>6, <1>u DEF SetFilter, FetchAll
  <2> QED BY <2>1, AskKeeps
<1>7. CASE Marked
  BY <1>7, InvalidateKeeps DEF Marked
<1>8. ASSUME NEW n \in Loads, MarkedAll(n) PROVE CacheOK(K, Values)'
  <2>1. /\ request' \in [Keys -> {"none", "sent", "answered"}]
        /\ \A l \in Keys : request'[l] = "answered" => request[l] = "answered"
    BY <1>8 DEF MarkedAll, CacheOK, CacheTypeOK
  <2>2. fresh' \in [Keys -> BOOLEAN] /\ known' \in SUBSET Keys /\ fails' \in 0 .. MaxFails
    BY <1>8, <1>u DEF MarkedAll, CacheOK, CacheTypeOK
  <2>3. data' = data /\ reply' = reply
    BY <1>8 DEF MarkedAll
  <2> QED BY <2>1, <2>2, <2>3, StartingKeeps
<1>9. ASSUME \/ ServeMark \/ RefuseMark
             \/ \E n \in Loads : Show(n)
             \/ \E i \in Items \cup {AllItems}, r \in BOOLEAN : ClickMark(i, r)
      PROVE  CacheOK(K, Values)'
  <2>1. UNCHANGED cache /\ fails' \in 0 .. MaxFails
    BY <1>9, <1>u DEF ServeMark, RefuseMark, Show, ClickMark
  <2> QED BY <2>1, <1>s
<1>10. ASSUME NEW j \in Drawers,
              \/ GetItem(j) \/ Store(j) \/ RefuseJob(j) \/ Summarized(j)
              \/ \E i \in Items, f \in BOOLEAN : ClickSummarize(j, i, f)
       PROVE  CacheOK(K, Values)'
  <2>1. UNCHANGED cache /\ fails' \in 0 .. MaxFails
    BY <1>10, <1>u DEF GetItem, Store, RefuseJob, Summarized, ClickSummarize
  <2> QED BY <2>1, <1>s
<1> QED BY <1>1, <1>2, <1>3, <1>4, <1>5, <1>6, <1>7, <1>8, <1>9, <1>10 DEF FeedNext

(* It is there at the start.                                               *)
LEMMA FeedTypesStart == FeedInit => FeedTypes
<1> SUFFICES ASSUME FeedInit PROVE FeedTypes
  OBVIOUS
<1>1. CacheInit /\ FeedUrls \in SUBSET Keys /\ MaxFails \in Nat /\ MaxClicks \in Nat
  BY FeedAssumption DEF FeedInit
<1>2. CacheOK(FeedUrls, Lists)
  BY <1>1, EmptyCache
<1>3. /\ read \in SUBSET Items /\ summary \in [Items -> 0 .. MaxClicks] /\ clicks \in 0 .. MaxClicks
      /\ cause \in [force : BOOLEAN, saw : 0 .. MaxClicks] /\ filter \in FeedUrls
  BY <1>1 DEF FeedInit, None, FeedUrls
<1>4. /\ list \in Lists /\ load \in [Loads -> Loading] /\ mark \in Marking
      /\ job \in [Drawers -> Requests]
  BY FeedIdle DEF FeedInit
<1>5. mark.phase = "idle"
  BY DEF FeedInit, IdleMark
<1> QED BY <1>2, <1>3, <1>4, <1>5, FeedStarts DEF FeedTypes, LocalsOK

(* fetchAll begins.                                                        *)
LEMMA FetchAllTyped ==
  ASSUME CacheOK(FeedUrls, Lists), LocalsOK, NEW n \in Loads, NEW url \in FeedUrls, FetchAll(n, url)
  PROVE  load' \in [Loads -> Loading]
<1> DEFINE r == IF Hit(url) THEN [phase |-> "ready", url |-> url, got |-> data[url]]
                ELSE [IdleLoad EXCEPT !.phase = "waiting", !.url = url]
<1>1. r \in Loading
  <2>1. CASE Hit(url)
    <3>1. data[url] \in Lists
      BY <2>1 DEF Hit, CacheOK, CacheTypeOK
    <3> QED BY <2>1, <3>1 DEF Loading
  <2>2. CASE ~Hit(url)
    BY <2>2, FeedIdle DEF Loading
  <2> QED BY <2>1, <2>2
<1>2. load' = [load EXCEPT ![n] = r]
  BY DEF FetchAll
<1> HIDE DEF r
<1> QED BY <1>1, <1>2 DEF LocalsOK

(* A click is counted.                                                     *)
LEMMA ClickCounted == LocalsOK /\ Click => clicks' \in 1 .. MaxClicks
BY FeedAssumption DEF LocalsOK, Click

(* Patched rows are rows.                                                  *)
LEMMA PatchedList ==
  ASSUME NEW l \in Lists, NEW f, DOMAIN f = DOMAIN l, f = [i \in DOMAIN l |-> f[i]],
         \A i \in DOMAIN l : f[i] \in Rows
  PROVE  f \in Lists
<1>1. DOMAIN l \in SUBSET Items
  BY OfList
<1>2. f \in [DOMAIN l -> Rows]
  OBVIOUS
<1> QED BY <1>1, <1>2, ListOf

(* The loads of the page.                                                  *)
LEMMA LoadsTyped ==
  ASSUME CacheOK(FeedUrls, Lists), LocalsOK,
         \/ \E url \in FeedUrls : ArriveFeed(url) \/ FailFeed(url)
         \/ \E n \in Loads : \/ Poll(n) \/ Show(n) \/ MarkedAll(n)
                             \/ \E url \in FeedUrls : SetFilter(n, url)
  PROVE  LocalsOK'
<1>t. LocalsOK /\ filter \in FeedUrls
  BY DEF LocalsOK
<1>1. ASSUME NEW url \in FeedUrls, ArriveFeed(url) PROVE LocalsOK'
  <2>1. reply[url] \in Lists
    BY <1>1 DEF ArriveFeed, Arrive, CacheOK, CacheTypeOK
  <2>2. [phase |-> "ready", url |-> url, got |-> reply[url]] \in Loading
    BY <2>1 DEF Loading
  <2>3. load' \in [Loads -> Loading]
    BY <1>1, <1>t, <2>2 DEF ArriveFeed, LocalsOK
  <2> QED BY <1>1, <1>t, <2>3 DEF ArriveFeed, db, LocalsOK
<1>2. ASSUME NEW url \in FeedUrls, FailFeed(url) PROVE LocalsOK'
  <2>1. load' \in [Loads -> Loading]
    BY <1>2, <1>t, FeedIdle DEF FailFeed, LocalsOK
  <2> QED BY <1>2, <1>t, <2>1 DEF FailFeed, db, LocalsOK
<1>3. ASSUME NEW n \in Loads, Poll(n) PROVE LocalsOK'
  <2>1. load' \in [Loads -> Loading]
    BY <1>3, <1>t, FetchAllTyped DEF Poll
  <2> QED BY <1>3, <1>t, <2>1 DEF Poll, db, LocalsOK
<1>4. ASSUME NEW n \in Loads, Show(n) PROVE LocalsOK'
  <2>1. load' \in [Loads -> Loading] /\ list' \in Lists
    BY <1>4, <1>t, FeedIdle DEF Show, LocalsOK, Loading
  <2> QED BY <1>4, <1>t, <2>1 DEF Show, db, LocalsOK
<1>5. ASSUME NEW n \in Loads, MarkedAll(n) PROVE LocalsOK'
  <2>1. [IdleLoad EXCEPT !.phase = "waiting", !.url = mark.url] \in Loading
    BY <1>t, FeedIdle DEF Loading, LocalsOK, Marking
  <2>2. load' \in [Loads -> Loading]
    BY <1>5, <1>t, <2>1 DEF MarkedAll, LocalsOK
  <2>3. mark' \in Marking /\ mark'.phase = "idle"
    BY <1>5, FeedIdle DEF MarkedAll, IdleMark
  <2> QED BY <1>5, <1>t, <2>2, <2>3 DEF MarkedAll, db, LocalsOK
<1>6. ASSUME NEW n \in Loads, NEW url \in FeedUrls, SetFilter(n, url) PROVE LocalsOK'
  <2>1. load' \in [Loads -> Loading]
    BY <1>6, <1>t, FetchAllTyped DEF SetFilter
  <2>2. clicks' \in 0 .. MaxClicks
    BY <1>6, <1>t, ClickCounted DEF SetFilter
  <2> QED BY <1>6, <1>t, <2>1, <2>2 DEF SetFilter, db, LocalsOK
<1> QED BY <1>1, <1>2, <1>3, <1>4, <1>5, <1>6

(* Marking items as read.                                                  *)
LEMMA MarksTyped ==
  ASSUME LocalsOK,
         \/ ServeMark \/ Marked \/ RefuseMark
         \/ \E i \in Items \cup {AllItems}, r \in BOOLEAN : ClickMark(i, r)
  PROVE  LocalsOK'
<1>t. LocalsOK /\ mark \in Marking
  BY DEF LocalsOK
<1>1. CASE ServeMark
  <2>1. mark.item \in Items \cup {AllItems} /\ mark' = [mark EXCEPT !.phase = "done"]
    BY <1>1, <1>t DEF ServeMark, LocalsOK
  <2>2. mark' \in Marking /\ mark'.item = mark.item
    BY <2>1, <1>t DEF Marking
  <2>3. read' \in SUBSET Items
    BY <1>1, <1>t, <2>1 DEF ServeMark, LocalsOK
  <2> QED BY <1>1, <1>t, <2>1, <2>2, <2>3 DEF ServeMark, LocalsOK
<1>2. CASE Marked
  <2>1. \A i \in DOMAIN list :
          (IF i = mark.item THEN [list[i] EXCEPT !.read = mark.read] ELSE list[i]) \in Rows
    BY <1>t, OfList DEF LocalsOK, Rows, Marking
  <2>2. list' \in Lists
    BY <1>2, <1>t, <2>1, PatchedList DEF Marked, LocalsOK
  <2>3. mark' \in Marking /\ mark'.phase = "idle"
    BY <1>2, FeedIdle DEF Marked, IdleMark
  <2> QED BY <1>2, <1>t, <2>2, <2>3 DEF Marked, db, LocalsOK
<1>3. CASE RefuseMark
  <2>1. CASE mark.item = AllItems
    <3>1. mark' \in Marking /\ mark'.phase = "idle"
      BY <1>3, <2>1, FeedIdle DEF RefuseMark, IdleMark
    <3> QED BY <1>3, <1>t, <3>1 DEF RefuseMark, db, LocalsOK
  <2>2. CASE mark.item # AllItems
    <3>1. mark' \in Marking /\ mark'.item = mark.item /\ mark.phase = "sent"
      BY <1>3, <2>2, <1>t DEF RefuseMark, Marking
    <3> QED BY <1>3, <1>t, <3>1 DEF RefuseMark, db, LocalsOK
  <2> QED BY <2>1, <2>2
<1>4. ASSUME NEW i \in Items \cup {AllItems}, NEW r \in BOOLEAN, ClickMark(i, r) PROVE LocalsOK'
  <2>1. mark' \in Marking /\ mark'.item = i
    BY <1>4, <1>t DEF ClickMark, Marking, LocalsOK
  <2>2. clicks' \in 0 .. MaxClicks
    BY <1>4, <1>t, ClickCounted DEF ClickMark
  <2> QED BY <1>4, <1>t, <2>1, <2>2 DEF ClickMark, db, LocalsOK
<1> QED BY <1>1, <1>2, <1>3, <1>4

(* Making summaries.                                                       *)
LEMMA JobsTyped ==
  ASSUME FeedInv, LocalsOK, NEW j \in Drawers,
         \/ GetItem(j) \/ Store(j) \/ RefuseJob(j) \/ Summarized(j)
         \/ \E i \in Items, f \in BOOLEAN : ClickSummarize(j, i, f)
  PROVE  LocalsOK'
<1>t. LocalsOK /\ job[j] \in Requests /\ (job[j].phase \in {"sent", "asking"} => job[j].item \in Items)
  BY DEF LocalsOK, FeedInv, JobsOK
<1>1. CASE GetItem(j)
  <2>1. summary[job[j].item] \in 0 .. MaxClicks
    BY <1>1, <1>t DEF GetItem, LocalsOK
  <2> DEFINE r == [job[j] EXCEPT !.phase = IF Cached(j) THEN "done" ELSE "asking",
                                 !.saw = summary[job[j].item],
                                 !.made = IF Cached(j) THEN summary[job[j].item] ELSE @]
  <2>2. r \in Requests
    BY <2>1, <1>t DEF Requests
  <2>3. job' = [job EXCEPT ![j] = r]
    BY <1>1, <1>t DEF GetItem, LocalsOK, Requests
  <2> HIDE DEF r
  <2>4. job' \in [Drawers -> Requests]
    BY <1>t, <2>2, <2>3 DEF LocalsOK
  <2> QED BY <1>1, <1>t, <2>4 DEF GetItem, db, LocalsOK
<1>2. CASE Store(j)
  <2>1. job' \in [Drawers -> Requests] /\ summary' \in [Items -> 0 .. MaxClicks]
    BY <1>2, <1>t DEF Store, Stored, LocalsOK, Requests
  <2>2. cause' \in [force : BOOLEAN, saw : 0 .. MaxClicks]
    BY <1>2, <1>t DEF Store, Requests
  <2> QED BY <1>2, <1>t, <2>1, <2>2 DEF Store, LocalsOK
<1>3. CASE RefuseJob(j)
  <2>1. job' \in [Drawers -> Requests]
    BY <1>3, <1>t, FeedIdle DEF RefuseJob, LocalsOK
  <2> QED BY <1>3, <1>t, <2>1 DEF RefuseJob, db, LocalsOK
<1>4. CASE Summarized(j)
  <2>1. \A i \in DOMAIN list :
          (IF i = job[j].item THEN [list[i] EXCEPT !.summary = job[j].made] ELSE list[i]) \in Rows
    BY <1>t, OfList DEF LocalsOK, Rows, Requests
  <2>2. list' \in Lists
    BY <1>4, <1>t, <2>1, PatchedList DEF Summarized, LocalsOK
  <2>3. job' \in [Drawers -> Requests]
    BY <1>4, <1>t, FeedIdle DEF Summarized, LocalsOK
  <2> QED BY <1>4, <1>t, <2>2, <2>3 DEF Summarized, db, LocalsOK
<1>5. ASSUME NEW i \in Items, NEW f \in BOOLEAN, ClickSummarize(j, i, f) PROVE LocalsOK'
  <2>1. clicks' \in 1 .. MaxClicks
    BY <1>5, <1>t, ClickCounted DEF ClickSummarize
  <2>2. [phase |-> "sent", item |-> i, force |-> f, saw |-> None, made |-> clicks'] \in Requests
    BY <2>1, FeedAssumption DEF Requests, None
  <2>3. job' \in [Drawers -> Requests]
    BY <1>5, <1>t, <2>2 DEF ClickSummarize, LocalsOK
  <2>4. clicks' \in 0 .. MaxClicks
    BY <2>1
  <2> QED BY <1>5, <1>t, <2>3, <2>4 DEF ClickSummarize, db, LocalsOK
<1> QED BY <1>1, <1>2, <1>3, <1>4, <1>5

(* Every step keeps the types.                                             *)
LEMMA FeedTypesStep == FeedTypes /\ [FeedNext]_feed => FeedTypes'
<1> SUFFICES ASSUME FeedTypes, [FeedNext]_feed PROVE FeedTypes'
  OBVIOUS
<1>1. FeedInv'
  BY FeedStep DEF FeedTypes
<1>2. CASE UNCHANGED feed
  BY <1>1, <1>2 DEF feed, cache, db, page, FeedTypes, LocalsOK, CacheOK, CacheTypeOK
<1>3. CASE FeedNext
  <2>1. CacheOK(FeedUrls, Lists)'
    BY <1>3, FeedAssumption, FeedKeepsCache DEF FeedTypes, LocalsOK, Marking
  <2>2. LocalsOK'
    <3>1. ASSUME NEW url \in FeedUrls, GetFeed(url) \/ ExpireFeed(url) PROVE LocalsOK'
      BY <3>1 DEF GetFeed, ExpireFeed, db, page, FeedTypes, LocalsOK
    <3> QED BY <1>3, <3>1, LoadsTyped, MarksTyped, JobsTyped DEF FeedNext, FeedTypes
  <2> QED BY <1>1, <2>1, <2>2 DEF FeedTypes
<1> QED BY <1>2, <1>3

(* What they say of each variable.                                         *)
LEMMA FeedTyped == FeedTypes => FeedTypeOK
BY DEF FeedTypes, LocalsOK, Loading, Marking, Requests, CacheOK, FeedTypeOK

-----------------------------------------------------------------------------
(***************************************************************************)
(* IV.  Both pages.  The one that is open moves the cache; what the other  *)
(* has left there keeps its kind, because their URLs differ.               *)
(***************************************************************************)
PagesInv == RosterTypes /\ FeedTypes

(* It is there at the start.                                               *)
LEMMA PagesStart == PagesInit => PagesInv
BY RosterTypesStart, FeedTypesStart DEF PagesInit, PagesInv

(* Every step keeps it.                                                    *)
LEMMA PagesStep == PagesInv /\ [PagesNext]_pages => PagesInv'
<1> SUFFICES ASSUME PagesInv, [PagesNext]_pages PROVE PagesInv'
  OBVIOUS
<1>t. RosterTypes /\ FeedTypes
  BY DEF PagesInv
<1>1. CASE UNCHANGED pages
  <2>1. UNCHANGED roster /\ UNCHANGED feed
    BY <1>1 DEF pages, roster, feed
  <2> QED BY <1>t, <2>1, RosterTypesStep, FeedTypesStep DEF PagesInv
<1>2. CASE RosterNext /\ UNCHANGED <<db, page>>
  <2>1. RosterTypes'
    BY <1>2, <1>t, RosterTypesStep
  <2>2. CacheOK(FeedUrls, Lists)'
    BY <1>2, <1>t, FeedAssumption, PagesAssumption, RosterKeepsCache
       DEF FeedTypes, RosterTypes, RosterInv, CallsOK
  <2>3. FeedInv' /\ LocalsOK'
    BY <1>2, <1>t DEF db, page, FeedTypes, FeedInv, JobsOK, FoundNone, LocalsOK
  <2> QED BY <2>1, <2>2, <2>3 DEF PagesInv, FeedTypes
<1>3. CASE FeedNext /\ UNCHANGED server
  <2>1. FeedTypes'
    BY <1>3, <1>t, FeedTypesStep
  <2>2. CacheOK({RosterUrl}, Rosters)'
    <3>1. {RosterUrl} \in SUBSET Keys /\ {RosterUrl} \cap FeedUrls = {}
      BY RosterAssumption, PagesAssumption
    <3> QED BY <3>1, <1>3, <1>t, FeedKeepsCache DEF FeedTypes, LocalsOK, Marking, RosterTypes
  <2>3. RosterInv'
    BY <1>3, <1>t DEF server, RosterTypes, RosterInv, CallsOK, OneWriter, OneFile, Opened, Working, Readable
  <2>4. restarts' = restarts /\ UNCHANGED <<overlap, clash, torn>>
    BY <1>3 DEF server
  <2> QED BY <1>t, <2>1, <2>2, <2>3, <2>4 DEF PagesInv, RosterTypes, Flags
<1> QED BY <1>1, <1>2, <1>3 DEF PagesNext

(* The inductive invariant of the two pages is one of the specification.   *)
THEOREM PagesInvariance == PagesSpec => []PagesInv
BY PagesStart, PagesStep, PTL DEF PagesSpec

(* Page, cache and server keep their types, whichever page is open: what   *)
(* arrives in the cache for a URL is what its page takes.                  *)
THEOREM PagesTypeCorrect == PagesSpec => []PagesTypeOK
<1>1. PagesInv => PagesTypeOK
  BY RosterTyped, FeedTyped DEF PagesInv, PagesTypeOK
<1> QED BY <1>1, PagesInvariance, PTL

(* The roster file is as sound beside the feed page as on its own.         *)
THEOREM PagesRosterCorrect == PagesSpec => []RosterSound
<1>1. PagesInv => RosterSound
  BY DEF PagesInv, RosterTypes, RosterInv, OneWriter, OneFile, Opened, RosterSound
<1> QED BY <1>1, PagesInvariance, PTL

(* And summaries are kept as well beside the home page.                    *)
THEOREM PagesSummaryCorrect == PagesSpec => SummaryKept
<1>1. PagesInv /\ [PagesNext]_pages =>
        [\A i \in Items : (summary[i] # None /\ summary'[i] # summary[i])
                            => (cause'.force \/ cause'.saw # summary[i])]_feed
  <2> SUFFICES ASSUME PagesInv, [PagesNext]_pages, NEW i \in Items,
                      summary[i] # None, summary'[i] # summary[i]
               PROVE  cause'.force \/ cause'.saw # summary[i]
    OBVIOUS
  <2>1. FeedNext
    BY DEF PagesNext, pages, db
  <2> QED BY <2>1, OnlyStore DEF PagesInv, FeedTypes
<1> QED BY <1>1, PagesInvariance, PTL DEF PagesSpec, SummaryKept

(***************************************************************************)
(* V.   The chat history.  Its invariant says of the turn in progress what *)
(* panel and frames look like, and of all turns what they will show.       *)
(***************************************************************************)
Spoken    == {"text", "debug", "again", "done"}
Broadcast == {"debug", "again", "done"}

(* How far a turn is, by the response and by process_speak.                *)
TurnOK(t) ==
  /\ http[t] = "wait" <=> speak[t] = "agent"
  /\ http[t] = "ok" => speak[t] \in Spoken
  /\ speak[t] \in Spoken => answer[t] \in Texts /\ shown[t] \in Texts
  /\ t \notin DOMAIN sent => http[t] = "none" /\ speak[t] = "none"
  /\ t \in timers => sent[t].main /\ http[t] = "done" /\ speak[t] \in Spoken

FramesOK ==
  \A i \in DOMAIN frames :
    /\ frames[i].turn \in DOMAIN sent
    /\ frames[i].kind # "UserMessage" => speak[frames[i].turn] \in Broadcast
BubblesOK ==
  \A i \in DOMAIN history :
    history[i].turn \in DOMAIN sent /\ history[i].debug \in DOMAIN sent \cup {Null}

ChatTypes ==
  /\ TypeOK /\ sent \in Seq([text : Texts, main : BOOLEAN]) /\ IsFiniteSet(lost)
  /\ timers \subseteq DOMAIN sent
  /\ \A t \in Turns : TurnOK(t)
  /\ FramesOK /\ BubblesOK

(* What is appended to the panel.                                          *)
LEMMA Appended ==
  ASSUME NEW h, NEW b, NEW g \in AppendTurn(h, b)
  PROVE  g = Append(h, b) \/ (g = h /\ Repeats(h, b))
BY DEF AppendTurn

(* At the start all is empty.                                              *)
LEMMA TypesStart == Init => ChatTypes
<1> SUFFICES ASSUME Init PROVE ChatTypes
  OBVIOUS
<1>1. TypeOK
  <2>1. lost \subseteq Frame /\ Cardinality(lost) <= MaxLost
    BY FS_EmptySet, ChatAssumption DEF Init
  <2>2. DOMAIN sent = {} /\ frames \in Seq(Frame) /\ history \in Seq(Bubble)
    BY DEF Init
  <2>3. /\ http \in [Turns -> {"none", "wait", "ok", "error", "done"}]
        /\ speak \in [Turns -> {"none", "agent", "text", "debug", "again", "done"}]
        /\ answer \in [Turns -> Texts \cup {Null}] /\ shown \in [Turns -> Texts \cup {Null}]
    BY DEF Init
  <2>4. sending \in BOOLEAN /\ crossed \in BOOLEAN /\ timers = {}
        /\ pending \in Texts \cup {Null} /\ fired \in Texts \cup {Null}
    BY DEF Init
  <2> QED BY <2>1, <2>2, <2>3, <2>4 DEF TypeOK
<1>2. \A t \in Turns : TurnOK(t)
  BY DEF Init, TurnOK, Spoken
<1> QED BY <1>1, <1>2, FS_EmptySet DEF Init, ChatTypes, FramesOK, BubblesOK

(* A message is sent.                                                      *)
LEMMA SendTypes ==
  ASSUME ChatTypes, NEW t \in Turns, NEW x \in Texts, NEW main \in BOOLEAN, Send(t, x, main)
  PROVE  ChatTypes'
<1>1. /\ sent' \in Seq([text : Texts, main : BOOLEAN]) /\ DOMAIN sent' = DOMAIN sent \cup {t}
      /\ t \notin DOMAIN sent /\ sent'[t] = [text |-> x, main |-> main]
      /\ \A u \in DOMAIN sent : sent'[u] = sent[u]
  BY DEF ChatTypes, Send
<1>2. /\ http \in [Turns -> {"none", "wait", "ok", "error", "done"}]
      /\ speak \in [Turns -> {"none", "agent", "text", "debug", "again", "done"}]
      /\ timers \subseteq DOMAIN sent
      /\ http' = [http EXCEPT ![t] = "wait"] /\ speak' = [speak EXCEPT ![t] = "agent"]
      /\ timers' = timers /\ answer' = answer /\ shown' = shown
  BY DEF ChatTypes, Send, TypeOK
<1>3. frames' \in Seq(Frame) /\ FramesOK'
  <2>1. frames \in Seq(Frame) /\ [kind |-> "UserMessage", turn |-> t] \in Frame
    BY DEF ChatTypes, TypeOK, Frame
  <2>2. frames' = Append(frames, [kind |-> "UserMessage", turn |-> t])
    BY DEF Send
  <2>3. frames' \in Seq(Frame)
    BY <2>1, <2>2
  <2>4. FramesOK
    BY DEF ChatTypes
  <2> QED BY <1>1, <1>2, <2>1, <2>2, <2>3, <2>4 DEF FramesOK
<1>4. history' \in Seq(Bubble) /\ BubblesOK'
  <2>b. PICK b : b = User(t, x)
    OBVIOUS
  <2>1. history \in Seq(Bubble) /\ b \in Bubble /\ b.turn = t /\ b.debug = Null
    BY <2>b DEF ChatTypes, TypeOK, Bubble, User
  <2>2. history' = Append(history, b) \/ history' = history
    BY <2>b DEF Send
  <2>3. history' \in Seq(Bubble)
    BY <2>1, <2>2
  <2>4. BubblesOK
    BY DEF ChatTypes
  <2>5. ASSUME NEW i \in DOMAIN history' PROVE (i \in DOMAIN history /\ history'[i] = history[i]) \/ history'[i] = b
    BY <2>1, <2>2
  <2>6. \A i \in DOMAIN history' : history'[i].turn \in DOMAIN sent' /\ history'[i].debug \in DOMAIN sent' \cup {Null}
    BY <1>1, <2>1, <2>4, <2>5 DEF BubblesOK
  <2> QED BY <2>3, <2>6 DEF BubblesOK
<1>5. ASSUME NEW u \in Turns PROVE TurnOK(u)'
  <2>1. TurnOK(u)
    BY DEF ChatTypes
  <2> QED BY <1>1, <1>2, <2>1 DEF TurnOK, Spoken
<1>6. TypeOK'
  <2>1. sending' \in BOOLEAN /\ crossed' \in BOOLEAN
    BY DEF Send, ChatTypes, TypeOK
  <2>2. DOMAIN sent' \subseteq Turns /\ \A u \in DOMAIN sent' : sent'[u] \in [text : Texts, main : BOOLEAN]
    BY <1>1 DEF ChatTypes, TypeOK
  <2>3. UNCHANGED <<answer, shown, lost, pending, fired, timers>> /\ TypeOK
    BY DEF Send, ChatTypes
  <2> QED BY <1>2, <1>3, <1>4, <2>1, <2>2, <2>3 DEF TypeOK
<1> QED BY <1>1, <1>3, <1>4, <1>5, <1>6 DEF ChatTypes, Send

(* A step that only moves a turn on.                                       *)
LEMMA MovesTypes ==
  ASSUME ChatTypes, NEW t \in Turns,
         AgentAnswers(t) \/ AgentFails(t) \/ SpeakEnds(t)
  PROVE  ChatTypes'
<1>1. /\ http \in [Turns -> {"none", "wait", "ok", "error", "done"}]
      /\ speak \in [Turns -> {"none", "agent", "text", "debug", "again", "done"}]
      /\ answer \in [Turns -> Texts \cup {Null}] /\ shown \in [Turns -> Texts \cup {Null}]
  BY DEF ChatTypes, TypeOK
<1>2. UNCHANGED <<sent, sending, frames, lost, panel, crossed>>
  BY DEF AgentAnswers, AgentFails, SpeakEnds
<1>3. /\ http' \in [Turns -> {"none", "wait", "ok", "error", "done"}]
      /\ speak' \in [Turns -> {"none", "agent", "text", "debug", "again", "done"}]
      /\ answer' \in [Turns -> Texts \cup {Null}] /\ shown' \in [Turns -> Texts \cup {Null}]
  BY <1>1 DEF AgentAnswers, AgentFails, SpeakEnds
<1>4. TypeOK'
  BY <1>2, <1>3 DEF ChatTypes, TypeOK, panel
<1>5. TurnOK(t)
  BY DEF ChatTypes
<1>6. ASSUME NEW u \in Turns PROVE TurnOK(u)'
  <2>1. TurnOK(u)
    BY DEF ChatTypes
  <2>2. CASE AgentAnswers(t)
    BY <1>1, <1>2, <2>1, <2>2 DEF TurnOK, AgentAnswers, Spoken, panel
  <2>3. CASE AgentFails(t)
    BY <1>1, <1>2, <2>1, <2>3 DEF TurnOK, AgentFails, Spoken, panel
  <2>4. CASE SpeakEnds(t)
    BY <1>1, <1>2, <2>1, <2>4 DEF TurnOK, SpeakEnds, Spoken, panel
  <2> QED BY <2>2, <2>3, <2>4
<1>7. FramesOK'
  <2>1. \A u \in Turns : speak[u] \in Broadcast => speak'[u] \in Broadcast
    BY <1>1 DEF AgentAnswers, AgentFails, SpeakEnds, Broadcast
  <2>2. FramesOK /\ DOMAIN sent \subseteq Turns
    BY DEF ChatTypes, TypeOK
  <2> QED BY <1>2, <2>1, <2>2 DEF FramesOK
<1> QED BY <1>2, <1>4, <1>6, <1>7 DEF ChatTypes, BubblesOK, panel

(* process_speak broadcasts.                                               *)
LEMMA SpeakTypes ==
  ASSUME ChatTypes, NEW t \in Turns, NEW from \in Spoken, NEW to \in Broadcast,
         NEW kind \in {"Text", "Debug"}, SpeakStep(t, from, kind, to)
  PROVE  ChatTypes'
<1>1. /\ speak \in [Turns -> {"none", "agent", "text", "debug", "again", "done"}]
      /\ speak[t] \in Spoken /\ speak' = [speak EXCEPT ![t] = to]
      /\ UNCHANGED <<sent, sending, http, answer, shown, lost, panel, crossed>>
  BY DEF ChatTypes, TypeOK, SpeakStep
<1>2. TurnOK(t)
  BY DEF ChatTypes
<1>3. t \in DOMAIN sent
  BY <1>1, <1>2 DEF TurnOK, Spoken
<1>4. frames' \in Seq(Frame) /\ FramesOK'
  <2>1. frames \in Seq(Frame) /\ [kind |-> kind, turn |-> t] \in Frame
    BY DEF ChatTypes, TypeOK, Frame
  <2>2. frames' = Append(frames, [kind |-> kind, turn |-> t])
    BY DEF SpeakStep
  <2>3. frames' \in Seq(Frame)
    BY <2>1, <2>2
  <2>4. FramesOK
    BY DEF ChatTypes
  <2>5. DOMAIN sent \subseteq Turns
    BY DEF ChatTypes, TypeOK
  <2> QED BY <1>1, <1>3, <2>1, <2>2, <2>3, <2>4, <2>5 DEF FramesOK, Broadcast
<1>5. ASSUME NEW u \in Turns PROVE TurnOK(u)'
  <2>1. TurnOK(u)
    BY DEF ChatTypes
  <2> QED BY <1>1, <2>1 DEF TurnOK, Spoken, Broadcast, panel
<1>6. TypeOK'
  BY <1>1, <1>4 DEF ChatTypes, TypeOK, Broadcast, panel
<1> QED BY <1>1, <1>4, <1>5, <1>6 DEF ChatTypes, BubblesOK, panel

(* The response or its failure comes.                                      *)
LEMMA HttpTypes ==
  ASSUME ChatTypes, NEW t \in Turns, HttpReply(t) \/ HttpError(t)
  PROVE  ChatTypes'
<1>1. /\ http \in [Turns -> {"none", "wait", "ok", "error", "done"}]
      /\ http[t] \in {"ok", "error"} /\ http' = [http EXCEPT ![t] = "done"]
      /\ UNCHANGED <<sent, speak, answer, shown, frames, lost, fired>>
      /\ answer \in [Turns -> Texts \cup {Null}] /\ TurnOK(t)
      /\ timers \subseteq DOMAIN sent
  BY DEF ChatTypes, TypeOK, HttpReply, HttpError
<1>2. t \in DOMAIN sent
  BY <1>1 DEF TurnOK
<1>3. history' \in Seq(Bubble) /\ BubblesOK'
  <2>b. PICK b : b = Assistant(t, Failed)
    OBVIOUS
  <2>1. history \in Seq(Bubble) /\ b \in Bubble /\ b.turn = t /\ b.debug = Null
    BY <2>b DEF ChatTypes, TypeOK, Bubble, Assistant
  <2>2. history' = Append(history, b) \/ history' = history
    BY <2>b, Appended DEF HttpReply, HttpError
  <2>3. BubblesOK
    BY DEF ChatTypes
  <2>4. DOMAIN sent' = DOMAIN sent
    BY <1>1
  <2>5. history' \in Seq(Bubble)
    BY <2>1, <2>2
  <2> QED BY <1>2, <2>1, <2>2, <2>3, <2>4, <2>5 DEF BubblesOK
<1>4. /\ pending' \in Texts \cup {Null} /\ sending' \in BOOLEAN /\ crossed' \in BOOLEAN
      /\ timers' \subseteq DOMAIN sent'
  <2>1. pending \in Texts \cup {Null} /\ sending \in BOOLEAN /\ crossed \in BOOLEAN
    BY DEF ChatTypes, TypeOK
  <2>2. CASE HttpReply(t)
    BY <1>1, <1>2, <2>1, <2>2 DEF HttpReply, Overtakes
  <2>3. CASE HttpError(t)
    BY <1>1, <1>2, <2>1, <2>3 DEF HttpError, Overtakes
  <2> QED BY <2>2, <2>3
<1>5. ASSUME NEW u \in Turns PROVE TurnOK(u)'
  <2>1. TurnOK(u)
    BY DEF ChatTypes
  <2>2. u \in timers' => u \in timers \/ (u = t /\ sent[t].main /\ http[t] = "ok")
    BY <1>1 DEF HttpReply, HttpError
  <2>3. CASE u = t
    BY <1>1, <1>2, <2>2, <2>3 DEF TurnOK, Spoken
  <2>4. CASE u # t
    BY <1>1, <2>1, <2>2, <2>4 DEF TurnOK
  <2> QED BY <2>3, <2>4
<1>6. TypeOK'
  <2>1. DOMAIN sent \subseteq Turns
    BY DEF ChatTypes, TypeOK
  <2> QED BY <1>1, <1>3, <1>4, <2>1 DEF ChatTypes, TypeOK
<1>7. FramesOK'
  BY <1>1 DEF ChatTypes, FramesOK
<1> QED BY <1>1, <1>3, <1>4, <1>5, <1>6, <1>7 DEF ChatTypes

(* The timer runs out.                                                     *)
LEMMA FallbackTypes ==
  ASSUME ChatTypes, NEW t \in Turns, Fallback(t)
  PROVE  ChatTypes'
<1>1. /\ UNCHANGED <<sent, sending, service, frames, lost, crossed>>
      /\ t \in timers /\ timers' = timers \ {t} /\ timers \subseteq DOMAIN sent /\ TurnOK(t)
  BY DEF ChatTypes, Fallback
<1>2. answer[t] \in Texts
  BY <1>1 DEF TurnOK
<1>3. history' \in Seq(Bubble) /\ BubblesOK'
  <2>1. /\ history \in Seq(Bubble) /\ Assistant(t, answer[t]) \in Bubble
        /\ Assistant(t, answer[t]).turn = t /\ Assistant(t, answer[t]).debug = Null
    BY <1>2 DEF ChatTypes, TypeOK, Bubble, Assistant
  <2>2. history' = Append(history, Assistant(t, answer[t])) \/ history' = history
    BY Appended DEF Fallback
  <2>3. BubblesOK
    BY DEF ChatTypes
  <2> QED BY <1>1, <2>1, <2>2, <2>3 DEF BubblesOK
<1>4. pending' \in Texts \cup {Null} /\ fired' \in Texts \cup {Null}
  BY <1>2 DEF ChatTypes, TypeOK, Fallback
<1>5. ASSUME NEW u \in Turns PROVE TurnOK(u)'
  <2>1. TurnOK(u)
    BY DEF ChatTypes
  <2> QED BY <1>1, <2>1 DEF TurnOK, service
<1>6. TypeOK'
  BY <1>1, <1>3, <1>4 DEF ChatTypes, TypeOK, service
<1> QED BY <1>1, <1>3, <1>5, <1>6 DEF ChatTypes, FramesOK, service

(* A frame reaches the panel.                                              *)
LEMMA DeliverTypes == ASSUME ChatTypes, Deliver PROVE ChatTypes'
<1>1. PICK f : f = Head(frames)
  OBVIOUS
<1>2. /\ UNCHANGED <<sent, sending, service, lost, crossed>> /\ UNCHANGED timers
      /\ \/ f.kind = "UserMessage" /\ OnUserMessage(f.turn)
         \/ f.kind = "Text" /\ OnText(f.turn)
         \/ f.kind = "Debug" /\ OnDebug(f.turn)
  BY <1>1 DEF Deliver, OnUserMessage, OnText, OnDebug
<1>3. /\ frames' \in Seq(Frame) /\ f \in Frame /\ f.turn \in DOMAIN sent
      /\ f.kind = "Text" => speak[f.turn] \in Broadcast
      /\ FramesOK'
  <2>1. frames \in Seq(Frame) /\ frames # <<>> /\ frames' = Tail(frames) /\ FramesOK
    BY DEF ChatTypes, TypeOK, Deliver
  <2>2. f = frames[1] /\ 1 \in DOMAIN frames
    BY <1>1, <2>1
  <2>3. \A i \in DOMAIN frames' : i+1 \in DOMAIN frames /\ frames'[i] = frames[i+1]
    BY <2>1
  <2> QED BY <1>2, <2>1, <2>2, <2>3 DEF FramesOK, service
<1>4. f.turn \in Turns /\ f.turn \in DOMAIN sent /\ sent[f.turn].text \in Texts
  BY <1>3 DEF ChatTypes, TypeOK, Frame
<1>5. f.kind = "Text" => shown[f.turn] \in Texts
  <2>1. TurnOK(f.turn)
    BY <1>4 DEF ChatTypes
  <2> QED BY <2>1, <1>3 DEF TurnOK, Broadcast, Spoken
<1>6. history \in Seq(Bubble) /\ BubblesOK
  BY DEF ChatTypes, TypeOK
<1>7. history' \in Seq(Bubble) /\ BubblesOK'
  <2>1. CASE f.kind = "UserMessage" /\ OnUserMessage(f.turn)
    <3>1. /\ User(f.turn, sent[f.turn].text) \in Bubble
          /\ User(f.turn, sent[f.turn].text).turn = f.turn
          /\ User(f.turn, sent[f.turn].text).debug = Null
      BY <1>4 DEF Bubble, User
    <3>2. history' = Append(history, User(f.turn, sent[f.turn].text)) \/ history' = history
      BY <2>1 DEF OnUserMessage
    <3> QED BY <1>2, <1>4, <1>6, <3>1, <3>2 DEF BubblesOK
  <2>2. CASE f.kind = "Text" /\ OnText(f.turn)
    <3>1. PICK b : b = Assistant(f.turn, shown[f.turn])
      OBVIOUS
    <3>2. b \in Bubble /\ b.turn = f.turn /\ b.debug = Null
      BY <1>4, <1>5, <2>2, <3>1 DEF Bubble, Assistant
    <3>3. \/ history' = Append(history, b) \/ history' = history
          \/ history # <<>> /\ history' = [history EXCEPT ![Len(history)] = b]
      BY <2>2, <3>1, Appended DEF OnText, EndsIn
    <3> QED BY <1>2, <1>4, <1>6, <3>2, <3>3 DEF BubblesOK
  <2>3. CASE f.kind = "Debug" /\ OnDebug(f.turn)
    <3>1. PICK R : history' = [i \in DOMAIN history |->
                                 IF i \in R THEN [history[i] EXCEPT !.debug = f.turn] ELSE history[i]]
      <4> DEFINE replies == {i \in DOMAIN history : history[i].role = "assistant"}
                 S == {i \in replies : \A j \in replies : j <= i}
      <4>1. history' = [i \in DOMAIN history |-> IF i \in S THEN [history[i] EXCEPT !.debug = f.turn] ELSE history[i]]
        BY <2>3 DEF OnDebug
      <4> QED BY <4>1
    <3>2. \A b \in Bubble : [b EXCEPT !.debug = f.turn] \in Bubble /\ [b EXCEPT !.debug = f.turn].turn = b.turn
                           /\ [b EXCEPT !.debug = f.turn].debug = f.turn
      BY <1>4 DEF Bubble
    <3>3. \A i \in DOMAIN history : history'[i] \in Bubble /\ history'[i].turn = history[i].turn
                                      /\ history'[i].debug \in {history[i].debug, f.turn}
      BY <1>6, <3>1, <3>2
    <3>4. DOMAIN history' = 1 .. Len(history) /\ Len(history) \in Nat
      BY <1>6, <3>1
    <3>5. history' = [i \in 1 .. Len(history) |-> history'[i]]
      BY <1>6, <3>1
    <3>6. history' \in Seq(Bubble)
      BY <1>6, <3>3, <3>4, <3>5
    <3>7. DOMAIN sent' = DOMAIN sent
      BY <1>2
    <3> QED BY <1>4, <1>6, <3>3, <3>4, <3>6, <3>7 DEF BubblesOK
  <2> QED BY <1>2, <2>1, <2>2, <2>3
<1>8. pending' \in Texts \cup {Null} /\ fired' \in Texts \cup {Null}
  BY <1>2 DEF ChatTypes, TypeOK, OnUserMessage, OnText, OnDebug
<1>9. TypeOK'
  BY <1>2, <1>3, <1>7, <1>8 DEF ChatTypes, TypeOK, service
<1>10. \A u \in Turns : TurnOK(u)'
  BY <1>2 DEF ChatTypes, TurnOK, service
<1> QED BY <1>2, <1>3, <1>7, <1>9, <1>10 DEF ChatTypes

(* A frame is lost.                                                        *)
LEMMA LoseTypes == ASSUME ChatTypes, Lose PROVE ChatTypes'
<1>1. frames \in Seq(Frame) /\ frames # <<>> /\ frames' = Tail(frames) /\ FramesOK
  BY DEF ChatTypes, TypeOK, Lose
<1>2. UNCHANGED <<sent, sending, service, panel, crossed>>
  BY DEF Lose
<1>3. frames' \in Seq(Frame) /\ Head(frames) \in Frame /\ FramesOK'
  <2>1. \A i \in DOMAIN frames' : i+1 \in DOMAIN frames /\ frames'[i] = frames[i+1]
    BY <1>1
  <2> QED BY <1>1, <1>2, <2>1 DEF FramesOK, service
<1>4. /\ lost' \subseteq Frame /\ IsFiniteSet(lost') /\ Cardinality(lost') <= MaxLost
  <2>1. lost \subseteq Frame /\ IsFiniteSet(lost) /\ Cardinality(lost) < MaxLost
    BY DEF ChatTypes, TypeOK, Lose
  <2>2. Cardinality(lost) \in Nat /\ MaxLost \in Nat
    BY <2>1, FS_CardinalityType, ChatAssumption
  <2>3. PICK f : f = Head(frames)
    OBVIOUS
  <2>4. lost' = lost \cup {f}
    BY <2>3 DEF Lose
  <2>5. IsFiniteSet(lost') /\ Cardinality(lost') <= Cardinality(lost) + 1
    BY <2>1, <2>2, <2>4, FS_AddElement
  <2>6. lost' \subseteq Frame
    BY <1>3, <2>1, <2>3, <2>4
  <2>7. Cardinality(lost') \in Nat
    BY <2>5, FS_CardinalityType
  <2> QED BY <2>1, <2>2, <2>5, <2>6, <2>7
<1>5. TypeOK'
  BY <1>2, <1>3, <1>4 DEF ChatTypes, TypeOK, service, panel
<1>6. \A u \in Turns : TurnOK(u)'
  BY <1>2 DEF ChatTypes, TurnOK, service, panel
<1> QED BY <1>2, <1>3, <1>4, <1>5, <1>6 DEF ChatTypes, BubblesOK, panel

(* All of them together.                                                   *)
LEMMA TypesStep == ChatTypes /\ [Next]_vars => ChatTypes'
<1> SUFFICES ASSUME ChatTypes, [Next]_vars PROVE ChatTypes'
  OBVIOUS
<1>1. CASE Next
  <2>1. ASSUME NEW t \in Turns, TurnStep(t) PROVE ChatTypes'
    <3>1. SpeakText(t) => ChatTypes'
      BY SpeakTypes DEF SpeakText, Spoken, Broadcast
    <3>2. SpeakDebug(t) => ChatTypes'
      BY SpeakTypes DEF SpeakDebug, Spoken, Broadcast
    <3> QED BY <2>1, <3>1, <3>2, MovesTypes, HttpTypes, FallbackTypes DEF TurnStep
  <2> QED BY <1>1, <2>1, SendTypes, DeliverTypes, LoseTypes DEF Next
<1>2. CASE UNCHANGED vars
  BY <1>2 DEF vars, service, panel, ChatTypes, TypeOK, TurnOK, FramesOK, BubblesOK
<1> QED BY <1>1, <1>2

-----------------------------------------------------------------------------
(* A frame of a turn is on its way; its text has come or got lost.         *)
Has(t, kind) == \E i \in DOMAIN frames : frames[i].turn = t /\ frames[i].kind = kind
Gone(t)      == speak[t] \in Broadcast /\ ~Has(t, "Text")

(* Turn n is in progress: the others are over, its frames are in order.    *)
OneAtATime(n) ==
  /\ \A t \in DOMAIN sent : t < n => Closed(t)
  /\ \A i \in DOMAIN frames :
       /\ frames[i].turn = n
       /\ frames[i].kind = "UserMessage" => i = 1
       /\ frames[i].kind = "Text" => i = 1 \/ (i = 2 /\ frames[1].kind = "UserMessage")
  /\ \A t \in Turns : LostOf(t, "Text") => Gone(t)

InOrder ==
  \A i, j \in DOMAIN history : i < j =>
    \/ history[i].turn < history[j].turn
    \/ /\ history[i].turn = history[j].turn
       /\ history[i].role = "user" \/ history[i].text = Failed
       /\ history[j].role = "assistant"

(* Until the echo comes its message is the last bubble, or in none.        *)
Echo(n) ==
  Has(n, "UserMessage") =>
    /\ sent[n].main => EndsIn(history, "user", sent[n].text) /\ history[Len(history)].turn = n
    /\ ~sent[n].main => \A i \in DOMAIN history : history[i].turn < n

(* As long as the response waits for the frame, the turn has no reply; it  *)
(* waits no more when the frame has come.                                  *)
Waits(n) ==
  /\ pending # Null =>
       /\ n \in timers /\ pending = answer[n] /\ ~Has(n, "UserMessage")
       /\ \A i \in DOMAIN history : history[i].turn = n => history[i].role = "user"
       /\ history # <<>> /\ history[Len(history)].role = "user"
       /\ Gone(n) => LostOf(n, "Text")
  /\ pending = Null /\ n \in timers => Gone(n) /\ ~LostOf(n, "Text")

(* A reply that is shown before the frame comes is the fallback, and the   *)
(* last bubble.                                                            *)
Early(n) ==
  \A i \in DOMAIN history : history[i].turn = n /\ history[i].role = "assistant" =>
    \/ history[i].text = Failed /\ http[n] = "done"
    \/ history[i].text # Failed /\ Gone(n)
    \/ /\ i = Len(history) /\ history[i].text = fired
       /\ http[n] = "done" /\ speak[n] \in Spoken

(* What a frame may replace is of a turn whose own frame did not come.     *)
Stale(n) ==
  LET last == history[Len(history)] IN
  fired # Null /\ history # <<>> /\ last.role = "assistant" /\ last.text # Failed =>
    LostOf(last.turn, "Text") \/ (last.turn = n /\ ~Gone(n))

(* When the frame comes the last bubble is not the reply of an earlier     *)
(* turn.                                                                   *)
Fresh(n) ==
  n > 0 /\ Echoed(n) /\ ~Has(n, "UserMessage") /\ ~Gone(n) =>
    history # <<>> /\ (history[Len(history)].role = "user" \/ history[Len(history)].turn = n)

(* What ShowsBestText says of the turns that are over, from the moment the *)
(* text has come, or got lost and the timer ran out.                       *)
Shown(t) ==
  Gone(t) /\ ~LostOf(t, "Text") /\ Echoed(t) => \E i \in Bubbles(t) : history[i].text = shown[t]
Fallen(t) ==
  sent[t].main /\ http[t] = "done" /\ t \notin timers /\ (Gone(t) => LostOf(t, "Text")) =>
    \/ \E i \in DOMAIN history :
         /\ history[i].role = "assistant" /\ history[i].turn = t
         /\ history[i].text \in {answer[t], Failed}
    \/ \E u \in DOMAIN sent : u > t /\ ~Echoed(u)

Debugged ==
  \A i \in DOMAIN history : LET d == history[i].debug IN
    d # Null => d = history[i].turn \/ LostOf(d, "Text") \/ ~Echoed(d)

Tidy(n) ==
  /\ OneAtATime(n) /\ InOrder /\ Echo(n) /\ Waits(n) /\ Early(n) /\ Stale(n) /\ Fresh(n)
  /\ \A t \in DOMAIN sent : Shown(t) /\ Fallen(t)
  /\ Debugged

ChatInv == ChatTypes /\ (~crossed => \A n \in Nat : n = Len(sent) => Tidy(n))

(* Only the turn in progress can still do anything.                        *)
LEMMA Current ==
  ASSUME ChatTypes, NEW n \in Nat, n = Len(sent), OneAtATime(n)
  PROVE  /\ DOMAIN sent = 1 .. n /\ DOMAIN sent \subseteq Turns
         /\ \A t \in Turns : http[t] \in {"wait", "ok", "error"} => t = n /\ n \in DOMAIN sent
         /\ \A t \in Turns : speak[t] \in {"agent", "text", "debug", "again"} => t = n /\ n \in DOMAIN sent
         /\ \A t \in timers : t = n /\ n \in DOMAIN sent
<1>1. DOMAIN sent = 1 .. n /\ DOMAIN sent \subseteq Turns /\ timers \subseteq DOMAIN sent
  BY DEF ChatTypes, TypeOK
<1>2. \A t \in DOMAIN sent : t # n => Closed(t)
  BY <1>1 DEF OneAtATime
<1>3. \A t \in Turns : TurnOK(t)
  BY DEF ChatTypes
<1> QED BY <1>1, <1>2, <1>3 DEF Closed, TurnOK

(* The agent answers or fails, and process_speak ends: the panel does not  *)
(* see it.                                                                 *)
LEMMA MovesTidy ==
  ASSUME ChatTypes, NEW n \in Nat, n = Len(sent), Tidy(n), NEW t \in Turns,
         AgentAnswers(t) \/ AgentFails(t) \/ SpeakEnds(t)
  PROVE  Tidy(n)'
<1>c. /\ DOMAIN sent = 1 .. n /\ DOMAIN sent \subseteq Turns /\ t = n /\ n \in DOMAIN sent
      /\ \A u \in timers : u = n
  <2>1. speak[t] \in {"agent", "text", "debug", "again"}
    BY DEF AgentAnswers, AgentFails, SpeakEnds
  <2> QED BY <2>1, Current DEF Tidy
<1>u. /\ sent' = sent /\ frames' = frames /\ lost' = lost /\ history' = history
      /\ pending' = pending /\ fired' = fired /\ timers' = timers
  BY DEF AgentAnswers, AgentFails, SpeakEnds, panel
<1>h. /\ \A u \in Turns : u # n => http'[u] = http[u] /\ speak'[u] = speak[u]
                                /\ answer'[u] = answer[u] /\ shown'[u] = shown[u]
      /\ http'[n] = "done" <=> http[n] = "done"
      /\ http[n] = "done" => answer'[n] = answer[n] /\ shown'[n] = shown[n]
      /\ speak[n] \in Broadcast => answer'[n] = answer[n] /\ shown'[n] = shown[n]
      /\ speak'[n] \in Broadcast <=> speak[n] \in Broadcast
      /\ http[n] = "done" /\ speak[n] \in Spoken => speak'[n] \in Spoken
  <2>1. TurnOK(n)
    BY <1>c DEF ChatTypes
  <2>2. /\ http \in [Turns -> {"none", "wait", "ok", "error", "done"}]
        /\ speak \in [Turns -> {"none", "agent", "text", "debug", "again", "done"}]
        /\ answer \in [Turns -> Texts \cup {Null}] /\ shown \in [Turns -> Texts \cup {Null}]
    BY DEF ChatTypes, TypeOK
  <2>3. CASE AgentAnswers(t)
    BY <1>c, <2>1, <2>2, <2>3 DEF AgentAnswers, TurnOK, Broadcast, Spoken
  <2>4. CASE AgentFails(t)
    BY <1>c, <2>1, <2>2, <2>4 DEF AgentFails, TurnOK, Broadcast, Spoken
  <2>5. CASE SpeakEnds(t)
    BY <1>c, <2>1, <2>2, <2>5 DEF SpeakEnds, TurnOK, Broadcast, Spoken
  <2> QED BY <2>3, <2>4, <2>5
<1>g. /\ \A u \in Turns : Gone(u)' <=> Gone(u)
      /\ \A u, k : LostOf(u, k)' <=> LostOf(u, k)
      /\ \A u \in DOMAIN sent : Echoed(u)' <=> Echoed(u)
      /\ Has(n, "UserMessage")' <=> Has(n, "UserMessage")
  BY <1>c, <1>u, <1>h DEF Gone, Has, LostOf, Echoed
<1>1. OneAtATime(n)'
  BY <1>c, <1>u, <1>h, <1>g DEF Tidy, OneAtATime, Closed, InFlight
<1>2. InOrder' /\ Debugged'
  <2>1. \A i \in DOMAIN history : history[i].debug \in DOMAIN sent \cup {Null}
    BY DEF ChatTypes, BubblesOK
  <2> QED BY <1>u, <1>g, <2>1 DEF Tidy, InOrder, Debugged
<1>3. Echo(n)'
  BY <1>u, <1>g DEF Tidy, Echo, EndsIn
<1>4. Waits(n)'
  <2>1. n \in timers => http[n] = "done"
    BY <1>c DEF ChatTypes, TurnOK
  <2> QED BY <1>c, <1>u, <1>h, <1>g, <2>1 DEF Tidy, Waits
<1>5. Early(n)'
  BY <1>c, <1>u, <1>h, <1>g DEF Tidy, Early
<1>6. Stale(n)'
  BY <1>c, <1>u, <1>g DEF Tidy, Stale
<1>7. Fresh(n)'
  BY <1>c, <1>u, <1>g DEF Tidy, Fresh
<1>8. ASSUME NEW u \in DOMAIN sent PROVE Shown(u)' /\ Fallen(u)'
  <2>1. Shown(u)'
    BY <1>c, <1>u, <1>h, <1>g DEF Tidy, Shown, Bubbles, Gone
  <2>2. Fallen(u)'
    BY <1>c, <1>u, <1>h, <1>g DEF Tidy, Fallen
  <2> QED BY <2>1, <2>2
<1> QED BY <1>u, <1>1, <1>2, <1>3, <1>4, <1>5, <1>6, <1>7, <1>8 DEF Tidy

(* process_speak broadcasts.                                               *)
LEMMA SpeakTidy ==
  ASSUME ChatTypes, NEW n \in Nat, n = Len(sent), Tidy(n), NEW t \in Turns,
         \/ SpeakStep(t, "text", "Text", "debug")
         \/ SpeakStep(t, "debug", "Debug", "again")
         \/ SpeakStep(t, "again", "Debug", "done")
  PROVE  Tidy(n)'
<1>k. PICK k \in {"Text", "Debug"}, from \in {"text", "debug", "again"}, to \in Broadcast :
         SpeakStep(t, from, k, to) /\ (k = "Text" <=> from = "text")
  BY DEF Broadcast
<1>c. /\ DOMAIN sent = 1 .. n /\ DOMAIN sent \subseteq Turns /\ t = n /\ n \in DOMAIN sent
      /\ \A u \in timers : u = n
  <2>1. speak[t] \in {"agent", "text", "debug", "again"}
    BY <1>k DEF SpeakStep
  <2> QED BY <2>1, Current DEF Tidy
<1>u. /\ sent' = sent /\ lost' = lost /\ history' = history /\ http' = http
      /\ pending' = pending /\ fired' = fired /\ timers' = timers /\ answer' = answer /\ shown' = shown
  BY <1>k DEF SpeakStep, panel
<1>s. /\ speak[n] = from /\ speak'[n] = to
      /\ \A u \in Turns : u # n => speak'[u] = speak[u]
      /\ k = "Debug" => speak[n] \in Broadcast
  BY <1>c, <1>k DEF SpeakStep, ChatTypes, TypeOK, Broadcast
<1>f. /\ \A i \in DOMAIN frames' : (i \in DOMAIN frames /\ frames'[i] = frames[i])
                                   \/ (i = Len(frames) + 1 /\ frames'[i].turn = n /\ frames'[i].kind = k)
      /\ \A i \in DOMAIN frames : i \in DOMAIN frames' /\ frames'[i] = frames[i]
      /\ Len(frames) + 1 \in DOMAIN frames' /\ frames'[Len(frames) + 1].kind = k /\ frames'[Len(frames) + 1].turn = n
      /\ Len(frames) \in Nat /\ DOMAIN frames = 1 .. Len(frames)
  <2>1. frames \in Seq(Frame) /\ frames' = Append(frames, [kind |-> k, turn |-> n])
    BY <1>c, <1>k DEF SpeakStep, ChatTypes, TypeOK
  <2> QED BY <2>1
<1>t. k = "Text" => \A i \in DOMAIN frames : frames[i].kind = "UserMessage"
  BY <1>c, <1>k, <1>s DEF ChatTypes, FramesOK, Tidy, OneAtATime, Broadcast
<1>g. /\ \A u \in Turns : Gone(u)' <=> Gone(u)
      /\ \A u, q : LostOf(u, q)' <=> LostOf(u, q)
      /\ \A u \in DOMAIN sent : Echoed(u)' <=> Echoed(u)
      /\ Has(n, "UserMessage")' <=> Has(n, "UserMessage")
  <2>1. Has(n, "UserMessage")' <=> Has(n, "UserMessage")
    BY <1>f DEF Has
  <2>2. \A u \in Turns : u # n => (Has(u, "Text")' <=> Has(u, "Text"))
    BY <1>f DEF Has
  <2>3. k = "Debug" => (Has(n, "Text")' <=> Has(n, "Text"))
    BY <1>f DEF Has
  <2>4. k = "Text" => Has(n, "Text")' /\ speak[n] \notin Broadcast
    BY <1>f, <1>s, <1>k DEF Has, Broadcast
  <2>5. \A u \in Turns : Gone(u)' <=> Gone(u)
    BY <1>s, <2>2, <2>3, <2>4 DEF Gone
  <2> QED BY <1>u, <2>1, <2>5 DEF LostOf, Echoed
<1>1. OneAtATime(n)'
  <2>1. \A u \in DOMAIN sent : u < n => Closed(u)'
    <3>1. \A u \in DOMAIN sent : u < n => ~InFlight(u)'
      BY <1>f DEF Tidy, OneAtATime, Closed, InFlight
    <3> QED BY <1>c, <1>u, <1>s, <3>1 DEF Tidy, OneAtATime, Closed
  <2>2. \A i \in DOMAIN frames' :
          /\ frames'[i].turn = n
          /\ frames'[i].kind = "UserMessage" => i = 1
          /\ frames'[i].kind = "Text" => i = 1 \/ (i = 2 /\ frames'[1].kind = "UserMessage")
    <3>1. k = "Text" => Len(frames) \in {0, 1}
      <4>1. \A i \in DOMAIN frames : k = "Text" => i = 1
        BY <1>t DEF Tidy, OneAtATime
      <4> QED BY <1>f, <4>1
    <3> QED BY <1>f, <1>t, <3>1 DEF Tidy, OneAtATime
  <2>3. \A u \in Turns : LostOf(u, "Text")' => Gone(u)'
    BY <1>c, <1>g DEF Tidy, OneAtATime
  <2> QED BY <1>u, <2>1, <2>2, <2>3 DEF OneAtATime
<1>2. InOrder' /\ Debugged'
  <2>1. \A i \in DOMAIN history : history[i].debug \in DOMAIN sent \cup {Null}
    BY DEF ChatTypes, BubblesOK
  <2> QED BY <1>u, <1>g, <2>1 DEF Tidy, InOrder, Debugged
<1>3. Echo(n)'
  BY <1>u, <1>g DEF Tidy, Echo, EndsIn
<1>4. Waits(n)'
  BY <1>c, <1>u, <1>g DEF Tidy, Waits
<1>5. Early(n)'
  <2>1. speak[n] \in Spoken /\ speak'[n] \in Spoken
    BY <1>s, <1>k DEF Spoken, Broadcast
  <2> QED BY <1>c, <1>u, <1>g, <2>1 DEF Tidy, Early
<1>6. Stale(n)'
  BY <1>c, <1>u, <1>g DEF Tidy, Stale
<1>7. Fresh(n)'
  BY <1>c, <1>u, <1>g DEF Tidy, Fresh
<1>8. ASSUME NEW u \in DOMAIN sent PROVE Shown(u)' /\ Fallen(u)'
  <2>1. Shown(u)'
    BY <1>c, <1>u, <1>g DEF Tidy, Shown, Bubbles
  <2>2. Fallen(u)'
    BY <1>c, <1>u, <1>g DEF Tidy, Fallen
  <2> QED BY <2>1, <2>2
<1> QED BY <1>u, <1>1, <1>2, <1>3, <1>4, <1>5, <1>6, <1>7, <1>8 DEF Tidy

(* A response that does not overtake: the echo has come, the text has not. *)
LEMMA InTime ==
  ASSUME ChatTypes, NEW t \in Turns, ~Overtakes(t)
  PROVE  ~Has(t, "UserMessage") /\ ~Gone(t)
<1>1. frames \in Seq(Frame)
  BY DEF ChatTypes, TypeOK
<1>2. \A k : Has(t, k) => [kind |-> k, turn |-> t] \in Range(frames)
  <2> SUFFICES ASSUME NEW k, NEW i \in DOMAIN frames, frames[i].turn = t, frames[i].kind = k
               PROVE  frames[i] = [kind |-> k, turn |-> t]
    BY DEF Has, Range
  <2>1. frames[i] \in Frame
    BY <1>1
  <2> QED BY <2>1 DEF Frame
<1>3. \A k : [kind |-> k, turn |-> t] \in Range(frames) => Has(t, k)
  <2> SUFFICES ASSUME NEW k, NEW i \in DOMAIN frames, frames[i] = [kind |-> k, turn |-> t]
               PROVE  Has(t, k)
    BY DEF Range
  <2> QED BY DEF Has
<1> QED BY <1>2, <1>3 DEF Overtakes, Gone, Broadcast

(* While the response is on its way the turn has no bubble of its own but  *)
(* its message, and the last bubble is a user's or the turn's.             *)
LEMMA NoReplyYet ==
  ASSUME ChatTypes, NEW n \in Nat, n = Len(sent), Tidy(n), n \in DOMAIN sent,
         http[n] \in {"ok", "error"}, ~Overtakes(n)
  PROVE  /\ \A i \in DOMAIN history : history[i].turn = n => history[i].role = "user"
         /\ Echoed(n) => history # <<>> /\ history[Len(history)].role = "user"
         /\ n \notin timers /\ pending = Null
<1>1. DOMAIN sent \subseteq Turns /\ n \in Turns
  BY Current DEF Tidy
<1>2. ~Has(n, "UserMessage") /\ ~Gone(n)
  BY <1>1, InTime
<1>3. history \in Seq(Bubble)
  BY DEF ChatTypes, TypeOK
<1>4. \A i \in DOMAIN history : history[i].turn = n => history[i].role = "user"
  <2>1. ASSUME NEW i \in DOMAIN history PROVE history[i].role \in {"user", "assistant"}
    <3>1. history[i] \in Bubble
      BY <1>3
    <3> QED BY <3>1 DEF Bubble
  <2> QED BY <1>2, <2>1 DEF Tidy, Early
<1>5. Echoed(n) => history # <<>> /\ history[Len(history)].role = "user"
  <2>1. history # <<>> => Len(history) \in DOMAIN history
    BY <1>3
  <2>2. n > 0
    <3>1. DOMAIN sent = 1 .. n
      BY Current DEF Tidy
    <3> QED BY <3>1
  <2> QED BY <1>2, <1>4, <2>1, <2>2 DEF Tidy, Fresh
<1>6. n \notin timers
  BY <1>1 DEF ChatTypes, TurnOK
<1> QED BY <1>4, <1>5, <1>6 DEF Tidy, Waits

(* The response comes while the turn has no reply: it waits for the frame. *)
LEMMA ReplyTidy ==
  ASSUME ChatTypes, NEW n \in Nat, n = Len(sent), Tidy(n), NEW t \in Turns,
         HttpReply(t), ~crossed'
  PROVE  Tidy(n)'
<1>c. /\ DOMAIN sent = 1 .. n /\ DOMAIN sent \subseteq Turns /\ t = n /\ n \in DOMAIN sent
      /\ \A u \in timers : u = n
  <2>1. http[t] \in {"wait", "ok", "error"}
    BY DEF HttpReply
  <2> QED BY <2>1, Current DEF Tidy
<1>u. /\ sent' = sent /\ lost' = lost /\ history' = history /\ speak' = speak
      /\ fired' = fired /\ frames' = frames /\ answer' = answer /\ shown' = shown
  BY DEF HttpReply
<1>h. /\ http[n] = "ok" /\ http'[n] = "done" /\ \A u \in Turns : u # n => http'[u] = http[u]
      /\ ~Overtakes(n)
      /\ sent[n].main => pending' = answer[n] /\ timers' = timers \cup {n}
      /\ ~sent[n].main => pending' = pending /\ timers' = timers
  BY <1>c DEF HttpReply, ChatTypes, TypeOK
<1>i. ~Has(n, "UserMessage") /\ ~Gone(n)
  BY <1>c, <1>h, InTime
<1>n. /\ \A i \in DOMAIN history : history[i].turn = n => history[i].role = "user"
      /\ Echoed(n) => history # <<>> /\ history[Len(history)].role = "user"
      /\ n \notin timers /\ pending = Null
  BY <1>c, <1>h, NoReplyYet
<1>a. answer[n] \in Texts
  BY <1>c, <1>h DEF ChatTypes, TurnOK
<1>g. /\ \A u \in Turns : Gone(u)' <=> Gone(u)
      /\ \A u, q : LostOf(u, q)' <=> LostOf(u, q)
      /\ \A u \in DOMAIN sent : Echoed(u)' <=> Echoed(u)
      /\ Has(n, "UserMessage")' <=> Has(n, "UserMessage")
  BY <1>c, <1>u DEF LostOf, Echoed, Gone, Has
<1>1. OneAtATime(n)'
  BY <1>c, <1>u, <1>h, <1>g DEF Tidy, OneAtATime, Closed, InFlight
<1>2. InOrder' /\ Debugged'
  <2>1. \A i \in DOMAIN history : history[i].debug \in DOMAIN sent \cup {Null}
    BY DEF ChatTypes, BubblesOK
  <2> QED BY <1>u, <1>g, <2>1 DEF Tidy, InOrder, Debugged
<1>3. Echo(n)'
  BY <1>u, <1>g DEF Tidy, Echo, EndsIn
<1>4. Waits(n)'
  <2>1. CASE sent[n].main
    <3>1. Echoed(n) /\ pending' = answer[n] /\ pending' # Null /\ n \in timers'
      BY <1>h, <1>a, <2>1, ChatAssumption DEF Echoed
    <3> QED BY <1>c, <1>u, <1>n, <1>i, <1>g, <3>1 DEF Waits
  <2>2. CASE ~sent[n].main
    BY <1>c, <1>u, <1>h, <1>n, <2>2 DEF Waits
  <2> QED BY <2>1, <2>2
<1>5. Early(n)'
  BY <1>c, <1>u, <1>g, <1>h DEF Tidy, Early
<1>6. Stale(n)'
  BY <1>c, <1>u, <1>g DEF Tidy, Stale
<1>7. Fresh(n)'
  BY <1>c, <1>u, <1>g DEF Tidy, Fresh
<1>8. ASSUME NEW u \in DOMAIN sent PROVE Shown(u)' /\ Fallen(u)'
  <2>1. Shown(u)'
    BY <1>c, <1>u, <1>g DEF Tidy, Shown, Bubbles
  <2>2. Fallen(u)'
    <3>1. CASE u = n
      BY <1>u, <1>h, <3>1 DEF Fallen
    <3>2. CASE u # n
      BY <1>c, <1>u, <1>g, <1>h, <3>2 DEF Tidy, Fallen
    <3> QED BY <3>1, <3>2
  <2> QED BY <2>1, <2>2
<1> QED BY <1>u, <1>1, <1>2, <1>3, <1>4, <1>5, <1>6, <1>7, <1>8 DEF Tidy

(* A bubble b of turn n is appended, or the history stays: the order.      *)
LEMMA AppendsInOrder ==
  ASSUME NEW n \in Nat, history \in Seq(Bubble), NEW b, history' = Append(history, b), InOrder, b.turn = n,
         \A i \in DOMAIN history : history[i].turn \in Nat /\ history[i].turn <= n,
         \A i \in DOMAIN history : history[i].turn = n =>
           (history[i].role = "user" \/ history[i].text = Failed) /\ b.role = "assistant"
  PROVE  InOrder'
<1>1. ASSUME NEW i \in DOMAIN history', NEW j \in DOMAIN history', i < j
      PROVE  /\ i \in DOMAIN history /\ history'[i] = history[i]
             /\ (j \in DOMAIN history /\ history'[j] = history[j]) \/ history'[j] = b
  BY <1>1
<1> QED BY <1>1 DEF InOrder

(* The failure is said at once, before any reply.                          *)
LEMMA ErrorTidy ==
  ASSUME ChatTypes, NEW n \in Nat, n = Len(sent), Tidy(n), NEW t \in Turns,
         HttpError(t), ~crossed'
  PROVE  Tidy(n)'
<1>c. /\ DOMAIN sent = 1 .. n /\ DOMAIN sent \subseteq Turns /\ t = n /\ n \in DOMAIN sent
      /\ \A u \in timers : u = n
  <2>1. http[t] \in {"wait", "ok", "error"}
    BY DEF HttpError
  <2> QED BY <2>1, Current DEF Tidy
<1>u. /\ sent' = sent /\ lost' = lost /\ pending' = pending /\ speak' = speak /\ timers' = timers
      /\ fired' = fired /\ frames' = frames /\ answer' = answer /\ shown' = shown
  BY DEF HttpError
<1>h. /\ http[n] \in {"ok", "error"} /\ http'[n] = "done" /\ \A u \in Turns : u # n => http'[u] = http[u]
      /\ ~Overtakes(n)
  BY <1>c DEF HttpError, ChatTypes, TypeOK
<1>i. ~Has(n, "UserMessage") /\ ~Gone(n)
  BY <1>c, <1>h, InTime
<1>n. /\ \A i \in DOMAIN history : history[i].turn = n => history[i].role = "user"
      /\ Echoed(n) => history # <<>> /\ history[Len(history)].role = "user"
      /\ n \notin timers /\ pending = Null
  BY <1>c, <1>h, NoReplyYet
<1>b. PICK b : b = Assistant(n, Failed)
  OBVIOUS
<1>bb. b.turn = n /\ b.role = "assistant" /\ b.text = Failed /\ b.debug = Null
  BY <1>b DEF Assistant
<1>t. history \in Seq(Bubble)
  BY DEF ChatTypes, TypeOK
<1>a. /\ sent[n].main => history' = Append(history, b)
      /\ ~sent[n].main => history' = history
  <2>1. sent[n].main => history' \in AppendTurn(history, b)
    BY <1>c, <1>b DEF HttpError
  <2>2. sent[n].main => ~Repeats(history, b)
    BY <1>n, <1>bb DEF Repeats, EndsIn, Echoed
  <2>3. ~sent[n].main => history' = history
    BY <1>c DEF HttpError
  <2> QED BY <2>1, <2>2, <2>3, Appended
<1>l. /\ \A i \in DOMAIN history : i \in DOMAIN history' /\ history'[i] = history[i]
      /\ \A i \in DOMAIN history' : (i \in DOMAIN history /\ history'[i] = history[i])
                                    \/ (sent[n].main /\ history'[i] = b)
      /\ sent[n].main => history' # <<>> /\ history'[Len(history')] = b /\ Len(history') \in DOMAIN history'
  BY <1>t, <1>a
<1>g. /\ \A u \in Turns : Gone(u)' <=> Gone(u)
      /\ \A u, q : LostOf(u, q)' <=> LostOf(u, q)
      /\ \A u \in DOMAIN sent : Echoed(u)' <=> Echoed(u)
      /\ Has(n, "UserMessage")' <=> Has(n, "UserMessage")
  BY <1>c, <1>u DEF LostOf, Echoed, Gone, Has
<1>1. OneAtATime(n)'
  BY <1>c, <1>u, <1>h, <1>g DEF Tidy, OneAtATime, Closed, InFlight
<1>2. InOrder'
  <2>1. CASE sent[n].main
    <3>1. \A i \in DOMAIN history : history[i].turn \in Nat /\ history[i].turn <= n
      BY <1>c DEF ChatTypes, BubblesOK
    <3> QED BY <1>t, <1>a, <1>bb, <1>n, <2>1, <3>1, AppendsInOrder DEF Tidy
  <2>2. CASE ~sent[n].main
    BY <1>a, <2>2 DEF Tidy, InOrder
  <2> QED BY <2>1, <2>2
<1>d. Debugged'
  <2>1. \A i \in DOMAIN history : history[i].debug \in DOMAIN sent \cup {Null}
    BY DEF ChatTypes, BubblesOK
  <2> QED BY <1>l, <1>bb, <1>g, <2>1 DEF Tidy, Debugged
<1>3. Echo(n)'
  BY <1>u, <1>g, <1>i DEF Echo
<1>4. Waits(n)'
  BY <1>u, <1>n DEF Waits
<1>5. Early(n)'
  BY <1>c, <1>l, <1>bb, <1>h, <1>n, ChatAssumption DEF Early
<1>6. Stale(n)'
  <2>1. CASE sent[n].main
    BY <1>l, <1>bb, <2>1 DEF Stale
  <2>2. CASE ~sent[n].main
    BY <1>a, <1>c, <1>u, <1>g, <2>2 DEF Tidy, Stale
  <2> QED BY <2>1, <2>2
<1>7. Fresh(n)'
  <2>1. CASE sent[n].main
    BY <1>l, <1>bb, <2>1 DEF Fresh
  <2>2. CASE ~sent[n].main
    BY <1>a, <1>c, <1>u, <1>g, <2>2 DEF Tidy, Fresh
  <2> QED BY <2>1, <2>2
<1>8. ASSUME NEW u \in DOMAIN sent PROVE Shown(u)' /\ Fallen(u)'
  <2>1. Shown(u)'
    BY <1>c, <1>u, <1>g, <1>l DEF Tidy, Shown, Bubbles
  <2>2. Fallen(u)'
    <3>1. CASE u = n
      BY <1>l, <1>bb, <1>u, <3>1 DEF Fallen
    <3>2. CASE u # n
      BY <1>c, <1>u, <1>g, <1>h, <1>l, <3>2 DEF Tidy, Fallen
    <3> QED BY <3>1, <3>2
  <2> QED BY <2>1, <2>2
<1> QED BY <1>u, <1>1, <1>2, <1>d, <1>3, <1>4, <1>5, <1>6, <1>7, <1>8 DEF Tidy

(* The timer runs out.                                                     *)
LEMMA FallbackTidy ==
  ASSUME ChatTypes, NEW n \in Nat, n = Len(sent), Tidy(n), NEW t \in Turns, Fallback(t)
  PROVE  Tidy(n)'
<1>c. /\ DOMAIN sent = 1 .. n /\ DOMAIN sent \subseteq Turns /\ t = n /\ n \in DOMAIN sent
      /\ \A u \in timers : u = n
  <2>1. t \in timers
    BY DEF Fallback
  <2> QED BY <2>1, Current DEF Tidy
<1>u. /\ sent' = sent /\ lost' = lost /\ http' = http /\ speak' = speak /\ timers' = timers \ {n}
      /\ frames' = frames /\ answer' = answer /\ shown' = shown
  BY <1>c DEF Fallback, service
<1>h. n \in timers /\ http[n] = "done" /\ speak[n] \in Spoken /\ answer[n] \in Texts /\ sent[n].main
  BY <1>c DEF Fallback, ChatTypes, TurnOK
<1>t. history \in Seq(Bubble)
  BY DEF ChatTypes, TypeOK
<1>g. /\ \A u \in Turns : Gone(u)' <=> Gone(u)
      /\ \A u, q : LostOf(u, q)' <=> LostOf(u, q)
      /\ \A u \in DOMAIN sent : Echoed(u)' <=> Echoed(u)
      /\ Has(n, "UserMessage")' <=> Has(n, "UserMessage")
  BY <1>c, <1>u DEF LostOf, Echoed, Gone, Has
<1>o. OneAtATime(n)'
  BY <1>c, <1>u, <1>h, <1>g DEF Tidy, OneAtATime, Closed, InFlight
<1>e. \A i \in DOMAIN history : history[i].debug \in DOMAIN sent \cup {Null}
  BY DEF ChatTypes, BubblesOK
<1>1. CASE pending # answer[n]
  <2>u. history' = history /\ pending' = pending /\ fired' = fired
    BY <1>1, <1>c DEF Fallback
  <2>p. pending = Null /\ Gone(n) /\ ~LostOf(n, "Text")
    BY <1>1, <1>h DEF Tidy, Waits
  <2>1. Echo(n)' /\ Waits(n)'
    BY <1>u, <2>u, <2>p, <1>g DEF Tidy, Echo, EndsIn, Waits
  <2>2. InOrder' /\ Debugged'
    BY <1>u, <2>u, <1>g, <1>e DEF Tidy, InOrder, Debugged
  <2>3. Early(n)' /\ Stale(n)' /\ Fresh(n)'
    BY <1>c, <1>u, <2>u, <1>g DEF Tidy, Early, Stale, Fresh
  <2>4. ASSUME NEW u \in DOMAIN sent PROVE Shown(u)' /\ Fallen(u)'
    <3>1. Shown(u)'
      BY <1>c, <1>u, <2>u, <1>g DEF Tidy, Shown, Bubbles
    <3>2. Fallen(u)'
      BY <1>c, <1>u, <2>u, <2>p, <1>g DEF Tidy, Fallen
    <3> QED BY <3>1, <3>2
  <2> QED BY <1>u, <1>o, <2>1, <2>2, <2>3, <2>4 DEF Tidy
<1>2. CASE pending = answer[n]
  <2>b. PICK b : b = Assistant(n, answer[n])
    OBVIOUS
  <2>bb. b.turn = n /\ b.role = "assistant" /\ b.text = answer[n] /\ b.debug = Null
    BY <2>b DEF Assistant
  <2>w. /\ pending # Null /\ ~Has(n, "UserMessage")
        /\ \A i \in DOMAIN history : history[i].turn = n => history[i].role = "user"
        /\ history # <<>> /\ history[Len(history)].role = "user"
        /\ Gone(n) => LostOf(n, "Text")
    BY <1>2, <1>h, ChatAssumption DEF Tidy, Waits
  <2>a. history' = Append(history, b) /\ pending' = Null /\ fired' = answer[n]
    <3>1. history' \in AppendTurn(history, b) /\ pending' = Null /\ fired' = answer[n]
      BY <1>2, <1>c, <2>b DEF Fallback
    <3>2. ~Repeats(history, b)
      BY <2>w, <2>bb DEF Repeats, EndsIn
    <3> QED BY <3>1, <3>2, Appended
  <2>l. /\ \A i \in DOMAIN history : i \in DOMAIN history' /\ history'[i] = history[i]
        /\ \A i \in DOMAIN history' : (i \in DOMAIN history /\ history'[i] = history[i])
                                      \/ (i = Len(history') /\ history'[i] = b)
        /\ history' # <<>> /\ history'[Len(history')] = b /\ Len(history') \in DOMAIN history'
    BY <1>t, <2>a
  <2>1. InOrder'
    <3>1. \A i \in DOMAIN history : history[i].turn \in Nat /\ history[i].turn <= n
      BY <1>c DEF ChatTypes, BubblesOK
    <3> QED BY <1>t, <2>a, <2>bb, <2>w, <3>1, AppendsInOrder DEF Tidy
  <2>2. Debugged'
    BY <2>l, <2>bb, <1>g, <1>e DEF Tidy, Debugged
  <2>3. Echo(n)' /\ Waits(n)'
    BY <1>u, <2>a, <2>w, <1>g DEF Echo, Waits
  <2>4. Early(n)'
    BY <1>u, <2>a, <2>l, <2>bb, <2>w, <1>h DEF Early
  <2>5. Stale(n)'
    BY <1>c, <1>g, <2>l, <2>bb, <2>w DEF Stale
  <2>6. Fresh(n)'
    BY <2>l, <2>bb DEF Fresh
  <2>7. ASSUME NEW u \in DOMAIN sent PROVE Shown(u)' /\ Fallen(u)'
    <3>1. Shown(u)'
      BY <1>c, <1>u, <1>g, <2>l DEF Tidy, Shown, Bubbles
    <3>2. CASE u = n
      BY <1>u, <2>l, <2>bb, <3>1, <3>2 DEF Fallen
    <3>3. CASE u # n
      <4>1. Fallen(u)'
        BY <1>c, <1>u, <1>g, <2>l, <3>3 DEF Tidy, Fallen
      <4> QED BY <3>1, <4>1
    <3> QED BY <3>2, <3>3
  <2> QED BY <1>u, <1>o, <2>1, <2>2, <2>3, <2>4, <2>5, <2>6, <2>7 DEF Tidy
<1> QED BY <1>1, <1>2

(* The first frame leaves the connection, to the panel or not: its text is *)
(* gone then, if it is one.                                                *)
LEMMA HeadTaken ==
  ASSUME ChatTypes, NEW n \in Nat, n = Len(sent), Tidy(n), NEW f, f = Head(frames),
         frames # <<>>, frames' = Tail(frames), speak' = speak, sent' = sent, http' = http, timers' = timers
  PROVE  /\ DOMAIN sent = 1 .. n /\ DOMAIN sent \subseteq Turns /\ n \in DOMAIN sent
         /\ f.turn = n /\ f.kind \in {"UserMessage", "Text", "Debug"} /\ f \in Frame
         /\ f.kind # "UserMessage" => speak[n] \in Broadcast
         /\ ~Has(n, "UserMessage")'
         /\ f.kind = "UserMessage" => Has(n, "UserMessage")
         /\ f.kind # "UserMessage" => ~Has(n, "UserMessage")
         /\ f.kind = "Text" => Gone(n)' /\ ~Gone(n)
         /\ f.kind = "Debug" => Gone(n)
         /\ f.kind # "Text" => (Gone(n)' <=> Gone(n))
         /\ \A u \in Turns : u # n => (Gone(u)' <=> Gone(u))
         /\ (\A u : LostOf(u, "Text")' => LostOf(u, "Text") \/ (u = n /\ f.kind = "Text")) => OneAtATime(n)'
<1>h. frames \in Seq(Frame)
  BY DEF ChatTypes, TypeOK
<1>i. /\ 1 \in DOMAIN frames /\ frames[1] = f
      /\ \A i \in DOMAIN frames' : i + 1 \in DOMAIN frames /\ frames'[i] = frames[i + 1] /\ i + 1 # 1
      /\ \A i \in DOMAIN frames : i = 1 \/ (i - 1 \in DOMAIN frames' /\ frames'[i - 1] = frames[i])
  <2>1. /\ DOMAIN frames = 1 .. Len(frames) /\ Len(frames) \in Nat /\ Len(frames) > 0 /\ frames[1] = f
        /\ DOMAIN frames' = 1 .. Len(frames) - 1
        /\ \A i \in 1 .. Len(frames) - 1 : frames'[i] = frames[i + 1]
    BY <1>h
  <2>2. \A i \in DOMAIN frames : i = 1 \/ (i - 1 \in DOMAIN frames' /\ frames'[i - 1] = frames[i])
    <3> TAKE i \in DOMAIN frames
    <3>1. i # 1 => i - 1 \in DOMAIN frames' /\ (i - 1) + 1 = i
      BY <2>1
    <3> QED BY <2>1, <3>1
  <2> QED BY <2>1, <2>2
<1>k. f.turn = n /\ f.kind \in {"UserMessage", "Text", "Debug"} /\ f \in Frame
  <2>1. f \in Frame
    BY <1>h, <1>i
  <2>2. f.turn = n
    BY <1>i DEF Tidy, OneAtATime
  <2> QED BY <2>1, <2>2 DEF Frame
<1>c. DOMAIN sent = 1 .. n /\ DOMAIN sent \subseteq Turns /\ n \in DOMAIN sent
  <2>1. n \in DOMAIN sent
    BY <1>i, <1>k DEF ChatTypes, FramesOK
  <2> QED BY <2>1, Current DEF Tidy
<1>s. f.kind # "UserMessage" => speak[n] \in Broadcast
  BY <1>i, <1>k DEF ChatTypes, FramesOK
<1>x. /\ ~Has(n, "UserMessage")'
      /\ f.kind = "UserMessage" => Has(n, "UserMessage")
      /\ f.kind # "UserMessage" => ~Has(n, "UserMessage")
      /\ f.kind = "Text" => Gone(n)' /\ ~Gone(n)
      /\ f.kind = "Debug" => Gone(n)
      /\ f.kind # "Text" => (Gone(n)' <=> Gone(n))
      /\ \A u \in Turns : u # n => (Gone(u)' <=> Gone(u))
  <2>1. ~Has(n, "UserMessage")'
    BY <1>i DEF Has, Tidy, OneAtATime
  <2>2. (f.kind = "UserMessage" => Has(n, "UserMessage")) /\ (f.kind # "UserMessage" => ~Has(n, "UserMessage"))
    BY <1>i, <1>k DEF Has, Tidy, OneAtATime
  <2>3. f.kind = "Text" => Has(n, "Text") /\ ~Has(n, "Text")'
    <3>1. f.kind = "Text" => Has(n, "Text")
      BY <1>i, <1>k DEF Has
    <3>2. f.kind = "Text" => \A i \in DOMAIN frames : frames[i].kind = "Text" => i = 1
      BY <1>i DEF Tidy, OneAtATime
    <3> QED BY <1>i, <3>1, <3>2 DEF Has
  <2>4. f.kind # "Text" => (Has(n, "Text")' <=> Has(n, "Text"))
    <3>1. Has(n, "Text")' => Has(n, "Text")
      BY <1>i DEF Has
    <3>2. ASSUME f.kind # "Text", Has(n, "Text") PROVE Has(n, "Text")'
      <4>1. PICK i \in DOMAIN frames : frames[i].turn = n /\ frames[i].kind = "Text"
        BY <3>2 DEF Has
      <4>2. i - 1 \in DOMAIN frames' /\ frames'[i - 1] = frames[i]
        BY <1>i, <3>2, <4>1
      <4>3. PICK k \in DOMAIN frames' : frames'[k] = frames[i]
        BY <4>2
      <4> QED BY <4>1, <4>3 DEF Has
    <3> QED BY <3>1, <3>2
  <2>5. \A u \in Turns : u # n => ~Has(u, "Text") /\ ~Has(u, "Text")'
    BY <1>i DEF Has, Tidy, OneAtATime
  <2>6. f.kind = "Debug" => ~Has(n, "Text")
    <3>1. f.kind = "Debug" => \A i \in DOMAIN frames : frames[i].kind # "Text"
      BY <1>i DEF Tidy, OneAtATime
    <3> QED BY <3>1 DEF Has
  <2> QED BY <1>s, <2>1, <2>2, <2>3, <2>4, <2>5, <2>6 DEF Gone
<1>1. ASSUME \A u : LostOf(u, "Text")' => LostOf(u, "Text") \/ (u = n /\ f.kind = "Text")
      PROVE  OneAtATime(n)'
  <2>1. \A u \in DOMAIN sent : u < n => Closed(u)'
    <3>1. \A u \in DOMAIN sent : u < n => ~InFlight(u)'
      BY <1>i DEF Tidy, OneAtATime, InFlight
    <3> QED BY <3>1 DEF Tidy, OneAtATime, Closed
  <2>2. \A i \in DOMAIN frames' :
          /\ frames'[i].turn = n
          /\ frames'[i].kind = "UserMessage" => i = 1
          /\ frames'[i].kind = "Text" => i = 1 \/ (i = 2 /\ frames'[1].kind = "UserMessage")
    BY <1>i, <1>h DEF Tidy, OneAtATime
  <2>3. \A u \in Turns : LostOf(u, "Text")' => Gone(u)'
    BY <1>1, <1>c, <1>x DEF Tidy, OneAtATime
  <2> QED BY <2>1, <2>2, <2>3 DEF OneAtATime
<1> QED BY <1>k, <1>c, <1>s, <1>x, <1>1

(* A frame is lost.                                                        *)
LEMMA LoseTidy ==
  ASSUME ChatTypes, NEW n \in Nat, n = Len(sent), Tidy(n), Lose
  PROVE  Tidy(n)'
<1>f. PICK f : f = Head(frames)
  OBVIOUS
<1>u. /\ sent' = sent /\ lost' = lost \cup {f} /\ http' = http /\ speak' = speak /\ timers' = timers
      /\ answer' = answer /\ shown' = shown
      /\ history' = history /\ pending' = pending /\ fired' = fired
  BY <1>f DEF Lose, service, panel
<1>h. frames # <<>> /\ frames' = Tail(frames)
  BY DEF Lose
<1>x. /\ DOMAIN sent = 1 .. n /\ DOMAIN sent \subseteq Turns /\ n \in DOMAIN sent
      /\ f.turn = n /\ f.kind \in {"UserMessage", "Text", "Debug"} /\ f \in Frame
      /\ f.kind # "UserMessage" => speak[n] \in Broadcast
      /\ ~Has(n, "UserMessage")'
      /\ f.kind = "UserMessage" => Has(n, "UserMessage")
      /\ f.kind # "UserMessage" => ~Has(n, "UserMessage")
      /\ f.kind = "Text" => Gone(n)' /\ ~Gone(n)
      /\ f.kind = "Debug" => Gone(n)
      /\ f.kind # "Text" => (Gone(n)' <=> Gone(n))
      /\ \A u \in Turns : u # n => (Gone(u)' <=> Gone(u))
      /\ (\A u : LostOf(u, "Text")' => LostOf(u, "Text") \/ (u = n /\ f.kind = "Text")) => OneAtATime(n)'
  BY <1>f, <1>u, <1>h, HeadTaken
<1>g. /\ \A u, q : LostOf(u, q) => LostOf(u, q)'
      /\ \A u, q : LostOf(u, q)' => LostOf(u, q) \/ (u = n /\ q = f.kind)
      /\ LostOf(n, f.kind)'
      /\ \A u \in DOMAIN sent : ~Echoed(u) => ~Echoed(u)'
      /\ \A u \in DOMAIN sent : u # n \/ f.kind # "UserMessage" => (Echoed(u)' <=> Echoed(u))
  <2>1. \A u, q : [kind |-> q, turn |-> u] = f => u = n /\ q = f.kind
    BY <1>x
  <2>2. f = [kind |-> f.kind, turn |-> n]
    BY <1>x DEF Frame
  <2>3. \A u, q : LostOf(u, q) => LostOf(u, q)'
    BY <1>u DEF LostOf
  <2>4. \A u, q : LostOf(u, q)' => LostOf(u, q) \/ (u = n /\ q = f.kind)
    BY <1>u, <2>1 DEF LostOf
  <2>5. LostOf(n, f.kind)'
    BY <1>u, <2>2 DEF LostOf
  <2> QED BY <1>u, <2>3, <2>4, <2>5 DEF Echoed
<1>1. OneAtATime(n)'
  BY <1>g, <1>x
<1>2. InOrder' /\ Debugged'
  <2>1. \A i \in DOMAIN history : history[i].debug \in DOMAIN sent \cup {Null}
    BY DEF ChatTypes, BubblesOK
  <2> QED BY <1>u, <1>g, <2>1 DEF Tidy, InOrder, Debugged
<1>3. Echo(n)'
  BY <1>x DEF Echo
<1>4. Waits(n)'
  <2>1. LostOf(n, "Text")' => LostOf(n, "Text") \/ f.kind = "Text"
    BY <1>g
  <2>2. f.kind = "Text" => LostOf(n, "Text")'
    BY <1>g
  <2>3. LostOf(n, "Text") => LostOf(n, "Text")'
    BY <1>g
  <2> QED BY <1>u, <1>x, <2>1, <2>2, <2>3 DEF Tidy, Waits
<1>5. Early(n)'
  BY <1>u, <1>x DEF Tidy, Early
<1>6. Stale(n)'
  <2>1. PICK last : last = history[Len(history)]
    OBVIOUS
  <2>2. f.kind = "Text" => LostOf(n, "Text")'
    BY <1>g
  <2>3. LostOf(last.turn, "Text") => LostOf(last.turn, "Text")'
    BY <1>g
  <2> QED BY <1>u, <1>x, <2>1, <2>2, <2>3 DEF Tidy, Stale
<1>7. Fresh(n)'
  <2>1. CASE f.kind = "UserMessage"
    <3>1. Echoed(n)' => sent[n].main
      BY <1>g, <1>u, <2>1 DEF Echoed
    <3>2. sent[n].main => history # <<>> /\ history[Len(history)].role = "user"
      BY <1>x, <2>1 DEF Tidy, Echo, EndsIn
    <3> QED BY <1>u, <3>1, <3>2 DEF Fresh
  <2>2. CASE f.kind # "UserMessage"
    <3>1. Echoed(n)' <=> Echoed(n)
      BY <1>x, <1>g, <2>2
    <3> QED BY <1>u, <1>x, <2>2, <3>1 DEF Tidy, Fresh
  <2> QED BY <2>1, <2>2
<1>8. ASSUME NEW u \in DOMAIN sent PROVE Shown(u)' /\ Fallen(u)'
  <2>0. /\ Gone(u)' /\ ~LostOf(u, "Text")' => Gone(u) /\ ~LostOf(u, "Text")
        /\ (Gone(u)' => LostOf(u, "Text")') => (Gone(u) => LostOf(u, "Text"))
        /\ Echoed(u)' => Echoed(u)
        /\ \A v \in DOMAIN sent : ~Echoed(v) => ~Echoed(v)'
    <3>1. CASE u = n /\ f.kind = "Text"
      BY <1>g, <1>x, <3>1
    <3>2. CASE ~(u = n /\ f.kind = "Text")
      <4>1. (Gone(u)' <=> Gone(u)) /\ (LostOf(u, "Text")' <=> LostOf(u, "Text"))
        BY <1>g, <1>x, <3>2
      <4> QED BY <1>g, <4>1
    <3> QED BY <3>1, <3>2
  <2>1. Shown(u)'
    BY <1>u, <2>0 DEF Tidy, Shown, Bubbles
  <2>2. Fallen(u)'
    BY <1>u, <2>0 DEF Tidy, Fallen
  <2> QED BY <2>1, <2>2
<1> QED BY <1>u, <1>1, <1>2, <1>3, <1>4, <1>5, <1>6, <1>7, <1>8 DEF Tidy

(* The echo reaches the panel.                                             *)
LEMMA UserTidy ==
  ASSUME ChatTypes, NEW n \in Nat, n = Len(sent), Tidy(n), NEW f, f = Head(frames),
         Deliver, f.kind = "UserMessage", OnUserMessage(f.turn)
  PROVE  Tidy(n)'
<1>u. /\ sent' = sent /\ lost' = lost /\ http' = http /\ speak' = speak /\ timers' = timers
      /\ answer' = answer /\ shown' = shown /\ pending' = pending /\ fired' = fired
      /\ frames # <<>> /\ frames' = Tail(frames)
  BY DEF Deliver, OnUserMessage, service
<1>x. /\ DOMAIN sent = 1 .. n /\ DOMAIN sent \subseteq Turns /\ n \in DOMAIN sent /\ f.turn = n
      /\ Has(n, "UserMessage") /\ ~Has(n, "UserMessage")'
      /\ \A u \in Turns : Gone(u)' <=> Gone(u)
      /\ (\A u : LostOf(u, "Text")' => LostOf(u, "Text") \/ (u = n /\ f.kind = "Text")) => OneAtATime(n)'
  BY <1>u, HeadTaken
<1>g. /\ \A u, q : LostOf(u, q)' <=> LostOf(u, q)
      /\ \A u \in DOMAIN sent : Echoed(u)' <=> Echoed(u)
  BY <1>u DEF LostOf, Echoed
<1>b. PICK b : b = User(n, sent[n].text)
  OBVIOUS
<1>bb. b.turn = n /\ b.role = "user" /\ b.debug = Null
  BY <1>b DEF User
<1>t. history \in Seq(Bubble) /\ \A i \in DOMAIN history : history[i].debug \in DOMAIN sent \cup {Null}
  BY DEF ChatTypes, TypeOK, BubblesOK
<1>w. pending = Null
  BY <1>x DEF Tidy, Waits
<1>a. \/ /\ history' = history /\ history # <<>> /\ history[Len(history)].role = "user"
      \/ /\ history' = Append(history, b) /\ \A i \in DOMAIN history : history[i].turn < n
  <2>1. history' = IF EndsIn(history, "user", sent[n].text) THEN history ELSE Append(history, b)
    BY <1>b, <1>x DEF OnUserMessage
  <2>2. sent[n].main => EndsIn(history, "user", sent[n].text)
    BY <1>x DEF Tidy, Echo
  <2>3. ~sent[n].main => \A i \in DOMAIN history : history[i].turn < n
    BY <1>x DEF Tidy, Echo
  <2> QED BY <2>1, <2>2, <2>3 DEF EndsIn
<1>l. /\ \A i \in DOMAIN history : i \in DOMAIN history' /\ history'[i] = history[i]
      /\ \A i \in DOMAIN history' : (i \in DOMAIN history /\ history'[i] = history[i]) \/ history'[i] = b
      /\ history' # <<>> /\ history'[Len(history')].role = "user"
  BY <1>t, <1>a, <1>bb
<1>1. OneAtATime(n)'
  BY <1>g, <1>x
<1>2. InOrder'
  <2>1. CASE history' = history
    BY <2>1 DEF Tidy, InOrder
  <2>2. CASE history' = Append(history, b) /\ \A i \in DOMAIN history : history[i].turn < n
    <3>1. \A i \in DOMAIN history : history[i].turn \in Nat /\ history[i].turn <= n /\ history[i].turn # n
      BY <2>2, <1>x DEF ChatTypes, BubblesOK
    <3> QED BY <1>t, <1>bb, <2>2, <3>1, AppendsInOrder DEF Tidy
  <2> QED BY <1>a, <2>1, <2>2
<1>3. Debugged'
  BY <1>l, <1>bb, <1>g, <1>t DEF Tidy, Debugged
<1>4. Echo(n)'
  BY <1>x DEF Echo
<1>5. Waits(n)'
  BY <1>u, <1>w, <1>x, <1>g DEF Tidy, Waits
<1>6. Early(n)'
  <2>1. CASE history' = history
    BY <2>1, <1>u, <1>x DEF Tidy, Early
  <2>2. CASE history' = Append(history, b) /\ \A i \in DOMAIN history : history[i].turn < n
    BY <1>l, <1>bb, <2>2 DEF Early
  <2> QED BY <1>a, <2>1, <2>2
<1>7. Stale(n)' /\ Fresh(n)'
  BY <1>l DEF Stale, Fresh
<1>8. ASSUME NEW u \in DOMAIN sent PROVE Shown(u)' /\ Fallen(u)'
  <2>1. Shown(u)'
    BY <1>x, <1>u, <1>g, <1>l DEF Tidy, Shown, Bubbles
  <2>2. Fallen(u)'
    BY <1>x, <1>u, <1>g, <1>l DEF Tidy, Fallen
  <2> QED BY <2>1, <2>2
<1> QED BY <1>u, <1>1, <1>2, <1>3, <1>4, <1>5, <1>6, <1>7, <1>8 DEF Tidy

(* The diagnostics reach the panel.                                        *)
LEMMA DebugTidy ==
  ASSUME ChatTypes, NEW n \in Nat, n = Len(sent), Tidy(n), NEW f, f = Head(frames),
         Deliver, f.kind = "Debug", OnDebug(f.turn)
  PROVE  Tidy(n)'
<1>u. /\ sent' = sent /\ lost' = lost /\ http' = http /\ speak' = speak /\ timers' = timers
      /\ answer' = answer /\ shown' = shown /\ pending' = pending /\ fired' = fired
      /\ frames # <<>> /\ frames' = Tail(frames)
  BY DEF Deliver, OnDebug, service
<1>x. /\ DOMAIN sent = 1 .. n /\ DOMAIN sent \subseteq Turns /\ n \in DOMAIN sent /\ f.turn = n
      /\ ~Has(n, "UserMessage")' /\ Gone(n)
      /\ \A u \in Turns : Gone(u)' <=> Gone(u)
      /\ ~Has(n, "UserMessage")
      /\ (\A u : LostOf(u, "Text")' => LostOf(u, "Text") \/ (u = n /\ f.kind = "Text")) => OneAtATime(n)'
  BY <1>u, HeadTaken
<1>g. /\ \A u, q : LostOf(u, q)' <=> LostOf(u, q)
      /\ \A u \in DOMAIN sent : Echoed(u)' <=> Echoed(u)
  BY <1>u DEF LostOf, Echoed
<1>t. history \in Seq(Bubble) /\ \A i \in DOMAIN history : history[i].debug \in DOMAIN sent \cup {Null}
  BY DEF ChatTypes, TypeOK, BubblesOK
<1>d. PICK replies : replies = {i \in DOMAIN history : history[i].role = "assistant"}
  OBVIOUS
<1>a. history' = [i \in DOMAIN history |->
                    IF i \in replies /\ \A j \in replies : j <= i
                    THEN [history[i] EXCEPT !.debug = n] ELSE history[i]]
  BY <1>d, <1>x DEF OnDebug
<1>l. /\ DOMAIN history' = DOMAIN history
      /\ \A i \in DOMAIN history : /\ history'[i].role = history[i].role /\ history'[i].text = history[i].text
                                   /\ history'[i].turn = history[i].turn
                                   /\ \/ history'[i].debug = history[i].debug
                                      \/ /\ history'[i].debug = n /\ i \in replies /\ \A j \in replies : j <= i
  <2>1. DOMAIN history' = DOMAIN history
    BY <1>a
  <2>2. ASSUME NEW i \in DOMAIN history
        PROVE  /\ history'[i].role = history[i].role /\ history'[i].text = history[i].text
               /\ history'[i].turn = history[i].turn
               /\ \/ history'[i].debug = history[i].debug
                  \/ /\ history'[i].debug = n /\ i \in replies /\ \A j \in replies : j <= i
    <3>1. history[i] \in Bubble
      BY <1>t
    <3>2. CASE i \in replies /\ \A j \in replies : j <= i
      <4>1. history'[i] = [history[i] EXCEPT !.debug = n]
        BY <1>a, <3>2
      <4> QED BY <3>1, <3>2, <4>1 DEF Bubble
    <3>3. CASE ~(i \in replies /\ \A j \in replies : j <= i)
      <4>1. history'[i] = history[i]
        BY <1>a, <3>3
      <4> QED BY <4>1
    <3> QED BY <3>2, <3>3
  <2> QED BY <2>1, <2>2
<1>m. /\ Len(history') = Len(history) /\ (history' # <<>> <=> history # <<>>)
      /\ history # <<>> => Len(history) \in DOMAIN history
  <2>1. history' \in Seq(Bubble)
    BY DeliverTypes DEF ChatTypes, TypeOK
  <2>2. DOMAIN history = 1 .. Len(history) /\ DOMAIN history' = 1 .. Len(history')
        /\ Len(history) \in Nat /\ Len(history') \in Nat
    BY <1>t, <2>1
  <2>3. Len(history') = Len(history)
    BY <1>l, <2>2
  <2> QED BY <1>t, <2>1, <2>2, <2>3
<1>1. OneAtATime(n)'
  BY <1>g, <1>x
<1>2. InOrder'
  BY <1>l DEF Tidy, InOrder
<1>3. Debugged'
  <2>1. ASSUME NEW i \in replies, \A j \in replies : j <= i, ~LostOf(n, "Text"), Echoed(n)
        PROVE  history[i].turn = n
    <3>1. PICK j \in Bubbles(n) : history[j].text = shown[n]
      BY <2>1, <1>x DEF Tidy, Shown
    <3>2. j \in replies /\ history[j].turn = n
      BY <1>d, <3>1 DEF Bubbles
    <3>3. j <= i /\ i \in DOMAIN history /\ j \in DOMAIN history
      BY <2>1, <3>2, <1>d
    <3>4. history[i].turn \in 1 .. n
      BY <3>3, <1>x DEF ChatTypes, BubblesOK
    <3>5. j < i => history[j].turn < history[i].turn \/ history[j].turn = history[i].turn
      BY <3>3 DEF Tidy, InOrder
    <3>6. i \in Nat /\ j \in Nat
      BY <3>3, <1>t
    <3> QED BY <3>2, <3>3, <3>4, <3>5, <3>6
  <2> QED BY <1>l, <1>g, <1>t, <1>x, <2>1 DEF Tidy, Debugged
<1>4. Echo(n)'
  BY <1>x DEF Echo
<1>5. Waits(n)'
  BY <1>u, <1>x, <1>g, <1>l, <1>m DEF Tidy, Waits
<1>6. Early(n)'
  BY <1>u, <1>x, <1>l, <1>m DEF Tidy, Early
<1>7. Stale(n)' /\ Fresh(n)'
  BY <1>u, <1>x, <1>g, <1>l, <1>m DEF Tidy, Stale, Fresh
<1>8. ASSUME NEW u \in DOMAIN sent PROVE Shown(u)' /\ Fallen(u)'
  <2>1. Shown(u)'
    BY <1>x, <1>u, <1>g, <1>l DEF Tidy, Shown, Bubbles
  <2>2. Fallen(u)'
    BY <1>x, <1>u, <1>g, <1>l DEF Tidy, Fallen
  <2> QED BY <2>1, <2>2
<1> QED BY <1>u, <1>1, <1>2, <1>3, <1>4, <1>5, <1>6, <1>7, <1>8 DEF Tidy

(* The text reaches the panel.                                             *)
LEMMA TextTidy ==
  ASSUME ChatTypes, NEW n \in Nat, n = Len(sent), Tidy(n), NEW f, f = Head(frames),
         Deliver, f.kind = "Text", OnText(f.turn)
  PROVE  Tidy(n)'
<1>u. /\ sent' = sent /\ lost' = lost /\ http' = http /\ speak' = speak /\ timers' = timers
      /\ answer' = answer /\ shown' = shown /\ pending' = Null /\ fired' = Null
      /\ frames # <<>> /\ frames' = Tail(frames)
  BY DEF Deliver, OnText, service
<1>x. /\ DOMAIN sent = 1 .. n /\ DOMAIN sent \subseteq Turns /\ n \in DOMAIN sent /\ f.turn = n
      /\ ~Has(n, "UserMessage") /\ ~Has(n, "UserMessage")' /\ Gone(n)' /\ ~Gone(n)
      /\ speak[n] \in Broadcast
      /\ \A u \in Turns : u # n => (Gone(u)' <=> Gone(u))
      /\ (\A u : LostOf(u, "Text")' => LostOf(u, "Text") \/ (u = n /\ f.kind = "Text")) => OneAtATime(n)'
  BY <1>u, HeadTaken
<1>g. /\ \A u, q : LostOf(u, q)' <=> LostOf(u, q)
      /\ \A u \in DOMAIN sent : Echoed(u)' <=> Echoed(u)
  BY <1>u DEF LostOf, Echoed
<1>o. ~LostOf(n, "Text")
  BY <1>x DEF Tidy, OneAtATime
<1>b. PICK b : b = Assistant(n, shown[n])
  OBVIOUS
<1>bb. b.turn = n /\ b.role = "assistant" /\ b.text = shown[n] /\ b.debug = Null
  BY <1>b DEF Assistant
<1>n. shown[n] \in Texts /\ shown[n] # Failed /\ shown[n] # Null
  <2>1. TurnOK(n)
    BY <1>x DEF ChatTypes
  <2>2. shown[n] \in Texts
    BY <1>x, <2>1 DEF TurnOK, Spoken, Broadcast
  <2> QED BY <2>2, ChatAssumption
<1>t. /\ history \in Seq(Bubble)
      /\ \A i \in DOMAIN history : /\ history[i].debug \in DOMAIN sent \cup {Null}
                                   /\ history[i].turn \in 1 .. n
                                   /\ history[i].role \in {"user", "assistant"}
                                   /\ history[i].text # Failed => history[i].text # Null
  <2>1. history \in Seq(Bubble)
    BY DEF ChatTypes, TypeOK
  <2>2. ASSUME NEW i \in DOMAIN history
        PROVE  history[i].role \in {"user", "assistant"} /\ (history[i].text # Failed => history[i].text # Null)
    <3>1. history[i] \in Bubble
      BY <2>1
    <3> QED BY <3>1, ChatAssumption DEF Bubble
  <2> QED BY <2>1, <2>2, <1>x DEF ChatTypes, BubblesOK
(* Its reply is there already only as the fallback it takes the place of.  *)
<1>e. \A i \in DOMAIN history : history[i].turn = n =>
        \/ history[i].role = "user"
        \/ history[i].role = "assistant" /\ history[i].text = Failed /\ http[n] = "done"
        \/ /\ history[i].role = "assistant" /\ history[i].text # Failed
           /\ i = Len(history) /\ history[i].text = fired /\ fired # Null
  BY <1>t, <1>x DEF Tidy, Early
<1>r. Echoed(n) => history # <<>> /\ (history[Len(history)].role = "user" \/ history[Len(history)].turn = n)
  BY <1>x DEF Tidy, Fresh
<1>m. history # <<>> => Len(history) \in DOMAIN history
  BY <1>t
<1>a. \/ /\ history' = history /\ ~Echoed(n)
      \/ /\ history' = Append(history, b)
         /\ \A i \in DOMAIN history : history[i].turn = n => history[i].role = "user" \/ history[i].text = Failed
      \/ /\ history # <<>> /\ history' = [history EXCEPT ![Len(history)] = b]
         /\ fired # Null /\ history[Len(history)].role = "assistant" /\ history[Len(history)].text = fired
  <2>1. CASE fired = Null
    <3>1. history' = Append(history, b) \/ (history' = history /\ Repeats(history, b))
      BY <2>1, <1>x, <1>b, Appended DEF OnText
    <3>2. \A i \in DOMAIN history : history[i].turn = n => history[i].role = "user" \/ history[i].text = Failed
      BY <2>1, <1>e
    <3>3. Repeats(history, b) => history # <<>> /\ history[Len(history)].role = "assistant"
                                 /\ history[Len(history)].text = shown[n]
      BY <1>bb DEF Repeats, EndsIn
    <3>4. Repeats(history, b) => ~Echoed(n)
      BY <3>2, <3>3, <1>m, <1>r, <1>n
    <3> QED BY <3>1, <3>2, <3>4
  <2>2. CASE fired # Null /\ EndsIn(history, "assistant", fired)
    BY <2>2, <1>x, <1>b DEF OnText, EndsIn
  <2>3. CASE fired # Null /\ ~EndsIn(history, "assistant", fired)
    <3>1. history' = Append(history, b) /\ history # <<>>
      BY <2>3, <1>x, <1>b DEF OnText
    <3>2. \A i \in DOMAIN history : history[i].turn = n => history[i].role = "user" \/ history[i].text = Failed
      BY <2>3, <3>1, <1>e DEF EndsIn
    <3> QED BY <3>1, <3>2
  <2> QED BY <2>1, <2>2, <2>3
(* The bubble whose place it takes.                                        *)
<1>p. ASSUME history # <<>>, fired # Null, history[Len(history)].role = "assistant",
             history[Len(history)].text = fired
      PROVE  /\ history[Len(history)].turn # n => LostOf(history[Len(history)].turn, "Text") /\ ~Echoed(n)
  <2>1. fired # Failed
    BY <1>p, ChatAssumption DEF ChatTypes, TypeOK
  <2>2. LostOf(history[Len(history)].turn, "Text") \/ history[Len(history)].turn = n
    BY <1>p, <2>1 DEF Tidy, Stale
  <2>3. history[Len(history)].turn # n => ~Echoed(n)
    BY <1>p, <1>r
  <2> QED BY <2>2, <2>3
<1>l. /\ \A i \in DOMAIN history : /\ i \in DOMAIN history'
                                   /\ \/ history'[i] = history[i]
                                      \/ /\ i = Len(history) /\ history'[i] = b
                                         /\ fired # Null /\ history # <<>>
                                         /\ history[i].role = "assistant" /\ history[i].text = fired
      /\ \A i \in DOMAIN history' : (i \in DOMAIN history /\ history'[i] = history[i]) \/ history'[i] = b
      /\ Echoed(n) => \E i \in DOMAIN history' : history'[i] = b
  <2>1. CASE history' = history /\ ~Echoed(n)
    BY <2>1
  <2>2. CASE history' = Append(history, b)
    BY <2>2, <1>t
  <2>3. CASE /\ history # <<>> /\ history' = [history EXCEPT ![Len(history)] = b]
             /\ fired # Null /\ history[Len(history)].role = "assistant" /\ history[Len(history)].text = fired
    BY <2>3, <1>t, <1>m
  <2> QED BY <1>a, <2>1, <2>2, <2>3
<1>1. OneAtATime(n)'
  BY <1>g, <1>x
<1>2. InOrder'
  <2>1. CASE history' = history
    BY <2>1 DEF Tidy, InOrder
  <2>2. CASE /\ history' = Append(history, b)
             /\ \A i \in DOMAIN history : history[i].turn = n => history[i].role = "user" \/ history[i].text = Failed
    <3>1. \A i \in DOMAIN history : history[i].turn \in Nat /\ history[i].turn <= n
      BY <1>t
    <3> QED BY <1>t, <1>bb, <2>2, <3>1, AppendsInOrder DEF Tidy
  <2>3. CASE history # <<>> /\ history' = [history EXCEPT ![Len(history)] = b]
    <3>1. ASSUME NEW i \in DOMAIN history', NEW j \in DOMAIN history', i < j
          PROVE  \/ history'[i].turn < history'[j].turn
                 \/ /\ history'[i].turn = history'[j].turn
                    /\ history'[i].role = "user" \/ history'[i].text = Failed
                    /\ history'[j].role = "assistant"
      <4>1. i \in DOMAIN history /\ j \in DOMAIN history /\ history'[i] = history[i] /\ i # Len(history)
        BY <2>3, <3>1, <1>t
      <4>2. CASE j # Len(history)
        <5>1. history'[j] = history[j]
          BY <2>3, <4>1, <4>2
        <5> QED BY <3>1, <4>1, <5>1 DEF Tidy, InOrder
      <4>3. CASE j = Len(history)
        <5>1. history'[j] = b
          BY <2>3, <4>1, <4>3
        <5>2. history[i].turn = n => history[i].role = "user" \/ history[i].text = Failed
          BY <1>e, <4>1
        <5> QED BY <4>1, <5>1, <5>2, <1>bb, <1>t
      <4> QED BY <4>2, <4>3
    <3> QED BY <3>1 DEF InOrder
  <2> QED BY <1>a, <2>1, <2>2, <2>3
<1>3. Debugged'
  BY <1>l, <1>bb, <1>g, <1>t DEF Tidy, Debugged
<1>4. Echo(n)' /\ Stale(n)' /\ Fresh(n)'
  BY <1>u, <1>x DEF Echo, Stale, Fresh
<1>5. Waits(n)'
  BY <1>u, <1>x, <1>g, <1>o DEF Waits
<1>6. Early(n)'
  <2> SUFFICES ASSUME NEW i \in DOMAIN history', history'[i].turn = n, history'[i].role = "assistant"
               PROVE  (history'[i].text = Failed /\ http'[n] = "done") \/ history'[i].text # Failed
    BY <1>x DEF Early
  <2>1. CASE history'[i] = b
    BY <2>1, <1>bb, <1>n
  <2>2. CASE i \in DOMAIN history /\ history'[i] = history[i]
    BY <2>2, <1>e, <1>u
  <2> QED BY <1>l, <2>1, <2>2
<1>8. ASSUME NEW u \in DOMAIN sent PROVE Shown(u)' /\ Fallen(u)'
  <2>1. Shown(u)'
    <3>1. CASE u = n
      <4>1. Echoed(n) => \E i \in DOMAIN history' :
                history'[i].role = "assistant" /\ history'[i].turn = n /\ history'[i].text = shown[n]
        BY <1>l, <1>bb
      <4> QED BY <3>1, <4>1, <1>g, <1>u, <1>n DEF Shown, Bubbles
    <3>2. CASE u # n
      <4> SUFFICES ASSUME Gone(u), ~LostOf(u, "Text"), Echoed(u)
                   PROVE  \E i \in DOMAIN history' :
                            /\ history'[i].role = "assistant" /\ history'[i].turn = u
                            /\ history'[i].text # Failed /\ history'[i].text = shown[u]
        BY <3>2, <1>x, <1>g, <1>u DEF Shown, Bubbles
      <4>1. PICK i \in DOMAIN history : /\ history[i].role = "assistant" /\ history[i].turn = u
                                        /\ history[i].text # Failed /\ history[i].text = shown[u]
        BY DEF Tidy, Shown, Bubbles
      <4>2. history'[i] = history[i]
        BY <1>l, <1>p, <3>2, <4>1
      <4> QED BY <1>l, <4>1, <4>2
    <3> QED BY <3>1, <3>2
  <2>2. Fallen(u)'
    <3>1. CASE u = n
      BY <3>1, <1>x, <1>g, <1>o DEF Fallen
    <3>2. CASE u # n
      <4> SUFFICES ASSUME sent[u].main, http[u] = "done", u \notin timers, Gone(u) => LostOf(u, "Text")
                   PROVE  \/ \E i \in DOMAIN history' :
                               /\ history'[i].role = "assistant" /\ history'[i].turn = u
                               /\ history'[i].text \in {answer[u], Failed}
                          \/ \E v \in DOMAIN sent : v > u /\ ~Echoed(v)
        BY <3>2, <1>x, <1>g, <1>u DEF Fallen
      <4>1. CASE \E v \in DOMAIN sent : v > u /\ ~Echoed(v)
        BY <4>1
      <4>2. CASE \E i \in DOMAIN history :
                   /\ history[i].role = "assistant" /\ history[i].turn = u
                   /\ history[i].text \in {answer[u], Failed}
        <5>1. PICK i \in DOMAIN history :
                   /\ history[i].role = "assistant" /\ history[i].turn = u
                   /\ history[i].text \in {answer[u], Failed}
          BY <4>2
        <5>2. CASE history'[i] = history[i]
          BY <1>l, <5>1, <5>2
        <5>3. CASE history'[i] # history[i]
          <6>1. ~Echoed(n)
            BY <1>l, <1>p, <3>2, <5>1, <5>3
          <6>2. n > u
            BY <3>2, <1>x
          <6> QED BY <6>1, <6>2, <1>x
        <5> QED BY <5>2, <5>3
      <4> QED BY <4>1, <4>2 DEF Tidy, Fallen
    <3> QED BY <3>1, <3>2
  <2> QED BY <2>1, <2>2
<1> QED BY <1>u, <1>1, <1>2, <1>3, <1>4, <1>5, <1>6, <1>8 DEF Tidy

(* The next message is sent when the turn before is over.                  *)
LEMMA SendTidy ==
  ASSUME ChatTypes, NEW n \in Nat, n = Len(sent), Tidy(n),
         NEW t \in Turns, NEW x \in Texts, NEW main \in BOOLEAN, Send(t, x, main), ~crossed'
  PROVE  Tidy(n + 1)'
<1>c. DOMAIN sent = 1 .. n /\ DOMAIN sent \subseteq Turns
  BY Current DEF Tidy
<1>d. \A u \in DOMAIN sent : Closed(u)
  BY DEF Send
<1>s. /\ t = n + 1 /\ t \notin DOMAIN sent /\ DOMAIN sent' = 1 .. n + 1
      /\ sent'[t] = [text |-> x, main |-> main] /\ \A u \in DOMAIN sent : sent'[u] = sent[u]
  <2>1. sent \in Seq([text : Texts, main : BOOLEAN]) /\ sent' = Append(sent, [text |-> x, main |-> main])
        /\ t = Len(sent) + 1
    BY DEF ChatTypes, Send
  <2> QED BY <2>1, <1>c
<1>u. /\ lost' = lost /\ timers' = timers /\ answer' = answer /\ shown' = shown
      /\ pending' = pending /\ fired' = fired
      /\ http'[t] = "wait" /\ speak'[t] = "agent"
      /\ \A u \in Turns : u # t => http'[u] = http[u] /\ speak'[u] = speak[u]
  BY DEF Send, ChatTypes, TypeOK
<1>w. timers = {} /\ pending = Null
  <2>1. timers = {}
    BY <1>d DEF ChatTypes, Closed
  <2> QED BY <2>1 DEF Tidy, Waits
<1>f. frames = <<>> /\ frames' = <<[kind |-> "UserMessage", turn |-> t]>>
  <2>1. \A i \in DOMAIN frames : FALSE
    BY <1>d DEF ChatTypes, FramesOK, Closed, InFlight
  <2>2. frames \in Seq(Frame)
    BY DEF ChatTypes, TypeOK
  <2>3. Len(frames) = 0
    <3>1. Len(frames) # 0 => 1 \in DOMAIN frames
      BY <2>2
    <3> QED BY <2>1, <3>1
  <2>4. frames = <<>>
    BY <2>2, <2>3
  <2> QED BY <2>4 DEF Send
<1>ff. /\ DOMAIN frames' = {1} /\ frames'[1].kind = "UserMessage" /\ frames'[1].turn = t
       /\ DOMAIN frames = {}
  BY <1>f
<1>l. speak[t] = "none" /\ ~Gone(t)
  <2>1. speak[t] = "none"
    BY <1>s DEF ChatTypes, TurnOK
  <2> QED BY <2>1 DEF Gone, Broadcast
<1>g. /\ \A u \in DOMAIN sent : Gone(u)' <=> Gone(u)
      /\ ~Gone(t)' /\ Has(t, "UserMessage")'
      /\ \A u, q : LostOf(u, q)' <=> LostOf(u, q)
      /\ \A u \in DOMAIN sent : Echoed(u)' <=> Echoed(u)
  <2>1. \A u : ~Has(u, "Text") /\ ~Has(u, "Text")'
    BY <1>ff DEF Has
  <2>2. Has(t, "UserMessage")'
    BY <1>ff DEF Has
  <2> QED BY <1>c, <1>s, <1>u, <2>1, <2>2 DEF Gone, LostOf, Echoed, Broadcast
<1>b. PICK b : b = User(t, x)
  OBVIOUS
<1>bb. b.turn = n + 1 /\ b.role = "user" /\ b.text = x /\ b.debug = Null
  BY <1>b, <1>s DEF User
<1>t. /\ history \in Seq(Bubble)
      /\ \A i \in DOMAIN history : history[i].debug \in DOMAIN sent \cup {Null} /\ history[i].turn \in 1 .. n
  BY <1>c DEF ChatTypes, TypeOK, BubblesOK
<1>a. /\ main => history' = Append(history, b)
      /\ ~main => history' = history
  BY <1>b DEF Send
<1>h. /\ \A i \in DOMAIN history : i \in DOMAIN history' /\ history'[i] = history[i]
      /\ \A i \in DOMAIN history' : (i \in DOMAIN history /\ history'[i] = history[i]) \/ history'[i] = b
      /\ main => history' # <<>> /\ history'[Len(history')] = b
  <2>1. CASE main
    <3>1. history \in Seq(Bubble) /\ history' = Append(history, b)
      BY <1>t, <1>a, <2>1
    <3> QED BY <3>1
  <2>2. CASE ~main
    BY <1>a, <2>2
  <2> QED BY <2>1, <2>2
<1>1. OneAtATime(n + 1)'
  <2>1. \A u \in DOMAIN sent' : u < n + 1 => Closed(u)'
    <3>1. \A u \in DOMAIN sent : ~InFlight(u)' /\ u # t /\ u \in Turns
      BY <1>ff, <1>s, <1>c DEF InFlight
    <3>2. \A u \in DOMAIN sent' : u < n + 1 => u \in DOMAIN sent
      BY <1>s, <1>c
    <3> QED BY <1>d, <1>u, <3>1, <3>2 DEF Closed
  <2>2. \A u \in Turns : LostOf(u, "Text")' => Gone(u)'
    <3>1. \A u \in Turns : LostOf(u, "Text") => u \in DOMAIN sent
      <4>1. \A u \in Turns : u \notin DOMAIN sent => speak[u] = "none"
        BY DEF ChatTypes, TurnOK
      <4> QED BY <4>1 DEF Tidy, OneAtATime, Gone, Broadcast
    <3> QED BY <1>g, <3>1 DEF Tidy, OneAtATime
  <2> QED BY <1>ff, <1>s, <2>1, <2>2 DEF OneAtATime
<1>2. InOrder'
  <2>1. CASE main
    <3>1. \A i \in DOMAIN history : history[i].turn \in Nat /\ history[i].turn <= n + 1 /\ history[i].turn # n + 1
      BY <1>t
    <3> QED BY <1>t, <1>a, <1>bb, <2>1, <3>1, AppendsInOrder DEF Tidy
  <2>2. CASE ~main
    BY <1>a, <2>2 DEF Tidy, InOrder
  <2> QED BY <2>1, <2>2
<1>3. Debugged'
  BY <1>h, <1>bb, <1>g, <1>t DEF Tidy, Debugged
<1>4. Echo(n + 1)'
  <2>1. CASE main
    BY <1>h, <1>bb, <1>s, <2>1 DEF Echo, EndsIn
  <2>2. CASE ~main
    BY <1>a, <1>s, <1>t, <2>2 DEF Echo
  <2> QED BY <2>1, <2>2
<1>5. Waits(n + 1)'
  BY <1>u, <1>w DEF Waits
<1>6. Early(n + 1)'
  BY <1>h, <1>bb, <1>t DEF Early
<1>7. Stale(n + 1)'
  <2>1. CASE main
    BY <1>h, <1>bb, <2>1 DEF Stale
  <2>2. CASE ~main
    <3> SUFFICES ASSUME fired # Null, history # <<>>, history[Len(history)].role = "assistant",
                        history[Len(history)].text # Failed
                 PROVE  LostOf(history[Len(history)].turn, "Text")
      BY <1>a, <1>u, <1>g, <2>2 DEF Stale
    <3>1. Len(history) \in DOMAIN history
      BY <1>t
    <3>2. CASE LostOf(history[Len(history)].turn, "Text")
      BY <3>2
    <3>3. CASE history[Len(history)].turn = n /\ ~Gone(n)
      <4>1. n \in DOMAIN sent
        BY <1>t, <1>c, <3>1, <3>3
      <4>2. speak[n] \in Spoken
        BY <3>1, <3>3 DEF Tidy, Early
      <4>3. speak[n] = "done" /\ ~Has(n, "Text")
        BY <1>d, <1>ff, <4>1, <4>2 DEF Closed, Spoken, Has
      <4> QED BY <3>3, <4>3 DEF Gone, Broadcast
    <3> QED BY <3>2, <3>3 DEF Tidy, Stale
  <2> QED BY <2>1, <2>2
<1>8. Fresh(n + 1)'
  BY <1>g, <1>s DEF Fresh
<1>9. ASSUME NEW u \in DOMAIN sent' PROVE Shown(u)' /\ Fallen(u)'
  <2>1. CASE u = t
    BY <1>g, <1>u, <2>1 DEF Shown, Fallen
  <2>2. CASE u # t
    <3>1. u \in DOMAIN sent /\ u \in Turns
      BY <1>s, <1>c, <2>2
    <3>2. Shown(u)'
      BY <1>u, <1>g, <1>h, <3>1 DEF Tidy, Shown, Bubbles
    <3>3. Fallen(u)'
      <4>1. \A v \in DOMAIN sent : v \in DOMAIN sent'
        BY <1>s, <1>c
      <4> QED BY <1>u, <1>g, <1>h, <1>s, <2>2, <3>1, <4>1 DEF Tidy, Fallen
    <3> QED BY <3>2, <3>3
  <2> QED BY <2>1, <2>2
<1> QED BY <1>1, <1>2, <1>3, <1>4, <1>5, <1>6, <1>7, <1>8, <1>9 DEF Tidy

(* Nothing is sent yet.                                                    *)
LEMMA ChatStarts == Init => ChatInv
<1> SUFFICES ASSUME Init PROVE ChatInv
  OBVIOUS
<1>1. ASSUME NEW n \in Nat, n = Len(sent) PROVE Tidy(n)
  <2>1. n = 0 /\ DOMAIN sent = {} /\ DOMAIN frames = {} /\ DOMAIN history = {} /\ history = <<>>
    BY <1>1 DEF Init
  <2>2. \A t, k : ~LostOf(t, k) /\ ~Has(t, k)
    BY <2>1 DEF Init, LostOf, Has
  <2>3. OneAtATime(n) /\ Echo(n)
    BY <2>1, <2>2 DEF OneAtATime, Echo
  <2>4. InOrder /\ Early(n) /\ Debugged
    BY <2>1 DEF InOrder, Early, Debugged
  <2>5. Waits(n)
    BY DEF Init, Waits
  <2>6. Stale(n) /\ Fresh(n)
    BY <2>1 DEF Init, Stale, Fresh
  <2> QED BY <2>1, <2>3, <2>4, <2>5, <2>6 DEF Tidy
<1> QED BY <1>1, TypesStart DEF ChatInv

(* Every step keeps the invariant, until turns cross.                      *)
LEMMA ChatStep == ChatInv /\ [Next]_vars => ChatInv'
<1> SUFFICES ASSUME ChatInv, [Next]_vars PROVE ChatInv'
  OBVIOUS
<1>1. ChatTypes /\ ChatTypes'
  BY TypesStep DEF ChatInv
<1>2. ASSUME ~crossed', NEW m \in Nat, m = Len(sent') PROVE Tidy(m)'
  <2>c. ~crossed
    <3>1. crossed \in BOOLEAN
      BY <1>1 DEF ChatTypes, TypeOK
    <3>2. CASE Next
      BY <1>2, <3>2 DEF Next, TurnStep, Send, AgentAnswers, AgentFails, SpeakText, SpeakDebug, SpeakStep, SpeakEnds,
           HttpReply, HttpError, Fallback, Deliver, Lose
    <3>3. CASE UNCHANGED vars
      BY <1>2, <3>3 DEF vars
    <3> QED BY <3>2, <3>3
  <2>n. PICK n \in Nat : n = Len(sent)
    BY <1>1 DEF ChatTypes
  <2>t. Tidy(n)
    BY <2>c, <2>n DEF ChatInv
  <2>1. ASSUME NEW t \in Turns, NEW x \in Texts, NEW main \in BOOLEAN, Send(t, x, main) PROVE Tidy(m)'
    <3>1. m = n + 1
      <4>1. sent \in Seq([text : Texts, main : BOOLEAN]) /\ sent' = Append(sent, [text |-> x, main |-> main])
        BY <1>1, <2>1 DEF ChatTypes, Send
      <4> QED BY <4>1, <1>2, <2>n
    <3>2. Tidy(n + 1)'
      BY <1>1, <1>2, <2>n, <2>t, <2>1, SendTidy
    <3> QED BY <3>1, <3>2
  <2>2. ASSUME NEW t \in Turns, TurnStep(t) PROVE Tidy(m)'
    <3>1. sent' = sent
      BY <2>2 DEF TurnStep, AgentAnswers, AgentFails, SpeakText, SpeakDebug, SpeakStep, SpeakEnds,
           HttpReply, HttpError, Fallback
    <3>2. m = n
      BY <1>2, <2>n, <3>1
    <3>3. Tidy(n)'
      <4>1. AgentAnswers(t) \/ AgentFails(t) \/ SpeakEnds(t) => Tidy(n)'
        BY <1>1, <2>n, <2>t, MovesTidy
      <4>2. SpeakText(t) \/ SpeakDebug(t) => Tidy(n)'
        BY <1>1, <2>n, <2>t, SpeakTidy DEF SpeakText, SpeakDebug
      <4>3. HttpReply(t) => Tidy(n)'
        BY <1>1, <1>2, <2>n, <2>t, ReplyTidy
      <4>4. HttpError(t) => Tidy(n)'
        BY <1>1, <1>2, <2>n, <2>t, ErrorTidy
      <4>5. Fallback(t) => Tidy(n)'
        BY <1>1, <2>n, <2>t, FallbackTidy
      <4> QED BY <2>2, <4>1, <4>2, <4>3, <4>4, <4>5 DEF TurnStep
    <3> QED BY <3>2, <3>3
  <2>3. ASSUME Deliver PROVE Tidy(m)'
    <3>1. m = n
      BY <1>2, <2>n, <2>3 DEF Deliver
    <3>2. PICK f : f = Head(frames)
      OBVIOUS
    <3>3. \/ f.kind = "UserMessage" /\ OnUserMessage(f.turn)
          \/ f.kind = "Text" /\ OnText(f.turn)
          \/ f.kind = "Debug" /\ OnDebug(f.turn)
      BY <2>3, <3>2 DEF Deliver
    <3>4. Tidy(n)'
      BY <1>1, <2>n, <2>t, <2>3, <3>2, <3>3, UserTidy, TextTidy, DebugTidy
    <3> QED BY <3>1, <3>4
  <2>4. ASSUME Lose PROVE Tidy(m)'
    <3>1. m = n
      BY <1>2, <2>n, <2>4 DEF Lose
    <3> QED BY <1>1, <2>n, <2>t, <2>4, <3>1, LoseTidy
  <2>5. ASSUME UNCHANGED vars PROVE Tidy(m)'
    <3>1. m = n
      BY <1>2, <2>n, <2>5 DEF vars
    <3>2. Tidy(n)' <=> Tidy(n)
      BY <2>5 DEF vars, service, panel, Tidy, OneAtATime, InOrder, Echo, Waits, Early, Stale, Fresh, Shown, Fallen,
           Debugged, Closed, InFlight, LostOf, Gone, Has, Echoed, EndsIn, Bubbles
    <3> QED BY <2>t, <3>1, <3>2
  <2> QED BY <2>1, <2>2, <2>3, <2>4, <2>5 DEF Next
<1> QED BY <1>1, <1>2 DEF ChatInv

-----------------------------------------------------------------------------
(* The inductive invariant holds, for any turns, texts and losses.         *)
THEOREM ChatInvariance == Spec => []ChatInv
<1>1. Init => ChatInv
  BY ChatStarts
<1>2. ChatInv /\ [Next]_vars => ChatInv'
  BY ChatStep
<1> QED BY <1>1, <1>2, PTL DEF Spec

(* The panel and what it waits for keep their types.                       *)
THEOREM ChatTypeCorrect == Spec => []TypeOK
<1>1. ChatInv => TypeOK
  BY DEF ChatInv, ChatTypes
<1> QED BY <1>1, ChatInvariance, PTL

(* What holds in the turn in progress, once a history did not cross.       *)
LEMMA TidyNow == ASSUME ChatInv, ~crossed PROVE Tidy(Len(sent))
<1>1. PICK n \in Nat : n = Len(sent)
  BY DEF ChatInv, ChatTypes
<1> QED BY <1>1 DEF ChatInv

(* While turns do not cross the panel shows each message and reply once,   *)
(* in the order they were said.                                            *)
THEOREM ChatOrderCorrect == Spec => []TurnsInOrder
<1>1. ChatInv => TurnsInOrder
  BY TidyNow DEF Tidy, InOrder, TurnsInOrder
<1> QED BY <1>1, ChatInvariance, PTL

(* A turn that is over shows the best text there is.                       *)
THEOREM ChatTextCorrect == Spec => []ShowsBestText
<1>1. ASSUME ChatInv, ~crossed, NEW t \in DOMAIN sent, Closed(t), speak[t] = "done", Echoed(t)
      PROVE  IF LostOf(t, "Text")
             THEN sent[t].main =>
                    \/ \E i \in DOMAIN history :
                         /\ history[i].role = "assistant" /\ history[i].turn = t
                         /\ history[i].text \in {answer[t], Failed}
                    \/ \E u \in DOMAIN sent : u > t /\ ~Echoed(u)
             ELSE \E i \in Bubbles(t) : history[i].text = shown[t]
  <2>1. Shown(t) /\ Fallen(t)
    BY <1>1, TidyNow DEF Tidy
  <2>2. Gone(t) /\ http[t] = "done" /\ t \notin timers
    BY <1>1 DEF Closed, InFlight, Gone, Has, Broadcast
  <2> QED BY <1>1, <2>1, <2>2 DEF Shown, Fallen
<1>2. ChatInv => ShowsBestText
  BY <1>1 DEF ShowsBestText
<1> QED BY <1>2, ChatInvariance, PTL

(* The diagnostics of a turn hang on its own bubble.                       *)
THEOREM ChatDebugCorrect == Spec => []DebugOnItsBubble
<1>1. ChatInv => DebugOnItsBubble
  BY TidyNow DEF Tidy, Debugged, DebugOnItsBubble
<1> QED BY <1>1, ChatInvariance, PTL

(***************************************************************************)
(* VI.  The socket under the pages.  The invariant ties a receiver's       *)
(* position to what its connection got and missed.                         *)
(***************************************************************************)
(* A socket task that has not subscribed has delivered nothing yet.        *)
Unsubscribed(v) == phase[v] = "greeted" => got[v] = <<>> /\ missed[v] = 0

(* A connection sees events in order, each at most once.                   *)
Rising(v) == \A i, j \in 1 .. Len(got[v]) : i < j => got[v][i] < got[v][j]

(* What a listening connection got lies between its subscription and its   *)
(* receiver's position, and with what it missed makes up that stretch.     *)
Between(v) == \A i \in 1 .. Len(got[v]) : start[v] <= got[v][i] /\ got[v][i] < next[v]
Accounted(v) ==
  /\ start[v] <= next[v] /\ next[v] <= count + 1
  /\ Len(got[v]) + missed[v] = next[v] - start[v]

(* Of the events before the position, those still in the ring were got.    *)
Kept(v) ==
  \A n \in start[v] .. next[v] - 1 :
    n >= Oldest => \E i \in 1 .. Len(got[v]) : got[v][i] = n

ViewerInv(v) ==
  /\ Unsubscribed(v)
  /\ Rising(v)
  /\ Listening(v) => Between(v) /\ Accounted(v) /\ Kept(v)

FanoutInv == FanoutTypeOK /\ \A v \in Viewers : ViewerInv(v)

-----------------------------------------------------------------------------
(* The ring's oldest event is a position, and never moves back.            *)
LEMMA OldestBounds ==
  ASSUME FanoutTypeOK
  PROVE  Oldest \in 1 .. count + 1 /\ Oldest \in Nat
BY FanoutAssumption, SMT DEF Oldest, FanoutTypeOK

(* What appending one element does to a sequence of numbers.               *)
LEMMA AppendFacts ==
  ASSUME NEW S, NEW q \in Seq(S), NEW e \in S
  PROVE  /\ Append(q, e) \in Seq(S)
         /\ Len(Append(q, e)) = Len(q) + 1 /\ Len(q) \in Nat
         /\ Append(q, e)[Len(q) + 1] = e
         /\ \A i \in 1 .. Len(q) : Append(q, e)[i] = q[i]
OBVIOUS

(* Initially nobody is connected and nothing was sent.                     *)
LEMMA FanoutStarts == FanoutInit => FanoutInv
<1> SUFFICES ASSUME FanoutInit PROVE FanoutInv
  OBVIOUS
<1>1. FanoutTypeOK
  <2>1. <<>> \in Seq(1 .. MaxEvents)
    OBVIOUS
  <2>2. 0 \in 0 .. MaxEvents /\ 0 \in 0 .. MaxConnections /\ 1 \in 1 .. MaxEvents + 1
    BY FanoutAssumption
  <2> QED BY <2>1, <2>2 DEF FanoutInit, FanoutTypeOK
<1>2. ASSUME NEW v \in Viewers PROVE ViewerInv(v)
  BY DEF FanoutInit, ViewerInv, Unsubscribed, Rising, Listening
<1> QED BY <1>1, <1>2 DEF FanoutInv

(* Every step preserves the invariant.                                     *)
LEMMA FanoutStep == FanoutInv /\ [FanoutNext]_fanout => FanoutInv'
<1> SUFFICES ASSUME FanoutInv, [FanoutNext]_fanout PROVE FanoutInv'
  OBVIOUS
<1> USE FanoutAssumption
<1>t. FanoutTypeOK /\ \A v \in Viewers : ViewerInv(v)
  BY DEF FanoutInv
<1>o. Oldest \in 1 .. count + 1 /\ Oldest \in Nat
  BY <1>t, OldestBounds
<1>1. CASE Publish
  <2>1. FanoutTypeOK'
    BY <1>1, <1>t DEF Publish, FanoutTypeOK
  <2>2. Oldest' \in Nat /\ Oldest' >= Oldest
    BY <1>1, <1>t DEF Publish, FanoutTypeOK, Oldest
  <2>3. ASSUME NEW v \in Viewers PROVE ViewerInv(v)'
    <3>1. ViewerInv(v) /\ UNCHANGED <<phase, start, next, missed, got>> /\ count' = count + 1
      BY <1>t, <1>1 DEF Publish
    <3>2. Unsubscribed(v)' /\ Rising(v)'
      BY <3>1 DEF ViewerInv, Unsubscribed, Rising
    <3>3. ASSUME Listening(v)' PROVE Between(v)' /\ Accounted(v)'
      BY <3>1, <3>3, <1>t DEF ViewerInv, Listening, Between, Accounted, FanoutTypeOK
    <3>4. ASSUME Listening(v)' PROVE Kept(v)'
      <4>1. Kept(v)
        BY <3>1, <3>4 DEF ViewerInv, Listening
      <4>2. SUFFICES ASSUME NEW n \in start[v] .. next[v] - 1, n >= Oldest'
                     PROVE  \E i \in 1 .. Len(got[v]) : got[v][i] = n
        BY <3>1 DEF Kept
      <4>3. start[v] \in Nat /\ next[v] \in Nat
        BY <1>t DEF FanoutTypeOK
      <4>4. n >= Oldest
        BY <2>2, <4>2, <4>3, <1>o
      <4> QED BY <4>1, <4>4 DEF Kept
    <3> QED BY <3>2, <3>3, <3>4 DEF ViewerInv
  <2> QED BY <2>1, <2>3 DEF FanoutInv
<1>2. ASSUME NEW w \in Viewers, Connect(w) \/ SocketStep(w) \/ Disconnect(w)
      PROVE  FanoutInv'
  <2>c. count' = count /\ Oldest' = Oldest
    BY <1>2 DEF Connect, SocketStep, Subscribe, Receive, Lag, Disconnect, Oldest
  <2>n. ASSUME NEW v \in Viewers, v # w PROVE ViewerInv(v)'
    <3>1. /\ phase'[v] = phase[v] /\ start'[v] = start[v] /\ next'[v] = next[v]
          /\ missed'[v] = missed[v] /\ got'[v] = got[v]
      BY <1>2, <2>n, <1>t DEF Connect, SocketStep, Subscribe, Receive, Lag, Disconnect, FanoutTypeOK
    <3> QED
      BY <3>1, <2>c, <1>t
      DEF ViewerInv, Unsubscribed, Rising, Between, Accounted, Kept, Listening
  <2>i. ViewerInv(w)
    BY <1>t
  <2>1. CASE Connect(w)
    <3>1. /\ phase'[w] = "greeted" /\ got'[w] = <<>> /\ missed'[w] = 0
          /\ UNCHANGED <<count, start, next>>
      BY <2>1, <1>t DEF Connect, FanoutTypeOK
    <3>2. FanoutTypeOK'
      <4>1. <<>> \in Seq(1 .. MaxEvents) /\ 0 \in 0 .. MaxEvents
        OBVIOUS
      <4> QED BY <2>1, <1>t, <4>1 DEF Connect, FanoutTypeOK
    <3>3. ViewerInv(w)'
      BY <3>1 DEF ViewerInv, Unsubscribed, Rising, Listening
    <3> QED BY <3>2, <3>3, <2>n DEF FanoutInv
  <2>2. CASE Subscribe(w)
    <3>1. /\ phase'[w] = "listening" /\ start'[w] = count + 1 /\ next'[w] = count + 1
          /\ got'[w] = <<>> /\ missed'[w] = 0
      BY <2>2, <2>i, <1>t DEF Subscribe, SubscribeAt, FanoutTypeOK, ViewerInv, Unsubscribed
    <3>2. FanoutTypeOK'
      BY <2>2, <1>t DEF Subscribe, SubscribeAt, FanoutTypeOK
    <3>3. Len(got'[w]) = 0 /\ count \in Nat
      BY <3>1, <1>t DEF FanoutTypeOK
    <3>4. ViewerInv(w)'
      BY <3>1, <3>3, <2>c DEF ViewerInv, Unsubscribed, Rising, Between, Accounted, Kept, Listening
    <3> QED BY <3>2, <3>4, <2>n DEF FanoutInv
  <2>3. CASE Receive(w)
    <3> DEFINE e == next[w]
               q == got[w]
    <3>1. /\ phase'[w] = "listening" /\ got'[w] = Append(q, e) /\ next'[w] = e + 1
          /\ start'[w] = start[w] /\ missed'[w] = missed[w] /\ e \in Oldest .. count
      BY <2>3, <1>t DEF Receive, FanoutTypeOK
    <3>2. /\ e \in 1 .. MaxEvents /\ q \in Seq(1 .. MaxEvents)
          /\ start[w] \in Nat /\ missed[w] \in Nat /\ count \in Nat
      BY <3>1, <1>o, <1>t DEF FanoutTypeOK
    <3>3. /\ Append(q, e) \in Seq(1 .. MaxEvents)
          /\ Len(Append(q, e)) = Len(q) + 1 /\ Len(q) \in Nat
          /\ Append(q, e)[Len(q) + 1] = e
          /\ \A i \in 1 .. Len(q) : Append(q, e)[i] = q[i]
      BY <3>2, AppendFacts
    <3>4. Rising(w) /\ Between(w) /\ Accounted(w) /\ Kept(w)
      BY <2>3, <2>i DEF Receive, ViewerInv, Listening
    <3>e. \A i \in 1 .. Len(q) : q[i] \in Nat
      BY <3>2
    <3>5. FanoutTypeOK'
      <4>1. next' \in [Viewers -> 1 .. MaxEvents + 1]
        BY <2>3, <3>2, <1>t DEF Receive, FanoutTypeOK
      <4>2. got' \in [Viewers -> Seq(1 .. MaxEvents)]
        BY <2>3, <3>3, <1>t DEF Receive, FanoutTypeOK
      <4> QED BY <4>1, <4>2, <2>3, <1>t DEF Receive, FanoutTypeOK
    <3>6. Rising(w)'
      <4> SUFFICES ASSUME NEW i \in 1 .. Len(q) + 1, NEW j \in 1 .. Len(q) + 1, i < j
                   PROVE  Append(q, e)[i] < Append(q, e)[j]
        BY <3>1, <3>3 DEF Rising
      <4>1. i \in 1 .. Len(q) /\ Append(q, e)[i] = q[i]
        BY <3>3
      <4>2. CASE j \in 1 .. Len(q)
        BY <4>1, <4>2, <3>3, <3>4 DEF Rising
      <4>3. CASE j = Len(q) + 1
        BY <4>1, <4>3, <3>3, <3>4 DEF Between
      <4> QED BY <4>2, <4>3, <3>3
    <3>7. Between(w)' /\ Accounted(w)'
      <4>1. Between(w)'
        <5> SUFFICES ASSUME NEW i \in 1 .. Len(q) + 1
                     PROVE  start[w] <= Append(q, e)[i] /\ Append(q, e)[i] < e + 1
          BY <3>1, <3>3 DEF Between
        <5>1. CASE i \in 1 .. Len(q)
          BY <5>1, <3>e, <3>2, <3>3, <3>4 DEF Between
        <5>2. CASE i = Len(q) + 1
          BY <5>2, <3>2, <3>3, <3>4 DEF Accounted
        <5> QED BY <5>1, <5>2, <3>3
      <4>2. Accounted(w)'
        <5>1. start[w] <= e /\ Len(q) + missed[w] = e - start[w]
          BY <3>4 DEF Accounted
        <5>n. e \in Nat /\ Len(q) \in Nat /\ e <= count
          BY <3>1, <3>2, <3>3, <1>o
        <5>2. start[w] <= e + 1 /\ e + 1 <= count + 1
          BY <5>1, <5>n, <3>2
        <5>4. (Len(q) + 1) + missed[w] = (e + 1) - start[w]
          <6>1. missed[w] \in Nat /\ start[w] \in Nat
            BY <3>2
          <6>2. Len(q) + missed[w] = e - start[w]
            BY <5>1
          <6> DEFINE l == Len(q)
                     m == missed[w]
                     s == start[w]
          <6>3. l \in Nat /\ m \in Nat /\ s \in Nat /\ e \in Nat /\ l + m = e - s
            BY <5>n, <6>1, <6>2
          <6>4. (l + 1) + m = (e + 1) - s
            <7> HIDE DEF l, m, s, e
            <7> QED BY <6>3
          <6> QED BY <6>4
        <5>3. Len(got'[w]) = Len(q) + 1
          BY <3>1, <3>3
        <5> QED BY <5>2, <5>3, <5>4, <3>1, <2>c DEF Accounted
      <4> QED BY <4>1, <4>2
    <3>8. Kept(w)'
      <4>a. Len(got'[w]) = Len(q) + 1 /\ next'[w] - 1 = e
        BY <3>1, <3>2, <3>3
      <4> SUFFICES ASSUME NEW n \in start[w] .. e, n >= Oldest
                   PROVE  \E i \in 1 .. Len(q) + 1 : Append(q, e)[i] = n
        BY <3>1, <4>a, <2>c DEF Kept
      <4>1. CASE n = e
        <5>1. Len(q) + 1 \in 1 .. Len(q) + 1
          BY <3>3
        <5>2. Append(q, e)[Len(q) + 1] = n
          BY <4>1, <3>3
        <5> HIDE DEF q
        <5> QED BY <5>1, <5>2
      <4>2. CASE n # e
        <5>1. n \in start[w] .. e - 1
          BY <4>2, <3>2
        <5>2. PICK i \in 1 .. Len(q) : q[i] = n
          BY <5>1, <3>4 DEF Kept
        <5>3. i \in 1 .. Len(q) + 1 /\ Append(q, e)[i] = n
          BY <5>2, <3>3
        <5> QED BY <5>3
      <4> QED BY <4>1, <4>2
    <3>9. ViewerInv(w)'
      BY <3>1, <3>6, <3>7, <3>8 DEF ViewerInv, Unsubscribed
    <3> QED BY <3>5, <3>9, <2>n DEF FanoutInv
  <2>4. CASE Lag(w)
    <3>1. /\ phase'[w] = "listening" /\ got'[w] = got[w] /\ next'[w] = Oldest
          /\ start'[w] = start[w] /\ missed'[w] = missed[w] + (Oldest - next[w])
          /\ next[w] < Oldest
      BY <2>4, <1>t DEF Lag, ResumeAt, Overwritten, FanoutTypeOK
    <3>2. /\ next[w] \in Nat /\ start[w] \in Nat \ {0} /\ missed[w] \in Nat /\ count \in Nat
          /\ got[w] \in Seq(1 .. MaxEvents) /\ Len(got[w]) \in Nat /\ count <= MaxEvents
      BY <1>t DEF FanoutTypeOK
    <3>3. Rising(w) /\ Between(w) /\ Accounted(w)
      BY <2>4, <2>i DEF Lag, ViewerInv, Listening
    <3>a. start[w] <= next[w] /\ Len(got[w]) + missed[w] = next[w] - start[w]
      BY <3>3 DEF Accounted
    <3>4. Accounted(w)'
      <4>1. start[w] <= Oldest /\ Oldest <= count + 1
        BY <3>a, <3>1, <3>2, <1>o
      <4>2. Len(got[w]) + (missed[w] + (Oldest - next[w])) = Oldest - start[w]
        <5>1. /\ Len(got[w]) \in Nat /\ missed[w] \in Nat /\ next[w] \in Nat
              /\ start[w] \in Nat /\ Oldest \in Nat
          BY <3>2, <1>o
        <5>2. Len(got[w]) + missed[w] = next[w] - start[w]
          BY <3>a
        <5> DEFINE l == Len(got[w])
                   m == missed[w]
                   n == next[w]
                   s == start[w]
                   o == Oldest
        <5>3. /\ l \in Nat /\ m \in Nat /\ n \in Nat /\ s \in Nat /\ o \in Nat
              /\ l + m = n - s
          BY <5>1, <5>2
        <5>4. l + (m + (o - n)) = o - s
          <6> HIDE DEF l, m, n, s, o
          <6> QED BY <5>3
        <5> QED BY <5>4
      <4> QED BY <4>1, <4>2, <3>1, <2>c DEF Accounted
    <3>5. Between(w)'
      <4>1. \A i \in 1 .. Len(got[w]) : got[w][i] \in Nat
        BY <3>2
      <4> QED BY <4>1, <3>1, <3>2, <3>3, <1>o DEF Between
    <3>6. Rising(w)' /\ Kept(w)'
      <4>1. Rising(w)'
        BY <3>1, <3>3 DEF Rising
      <4>2. \A n \in start[w] .. Oldest - 1 : ~(n >= Oldest)
        BY <3>2, <1>o
      <4>3. Kept(w)'
        BY <4>2, <3>1, <2>c DEF Kept
      <4> QED BY <4>1, <4>3
    <3>7. FanoutTypeOK'
      <4>1. Oldest \in 1 .. MaxEvents + 1
        BY <1>o, <3>2
      <4>2. missed[w] + (Oldest - next[w]) \in 0 .. MaxEvents
        BY <3>a, <3>1, <3>2, <1>o
      <4> QED BY <4>1, <4>2, <2>4, <1>t DEF Lag, ResumeAt, Overwritten, FanoutTypeOK
    <3>8. ViewerInv(w)'
      BY <3>1, <3>4, <3>5, <3>6 DEF ViewerInv, Unsubscribed
    <3> QED BY <3>7, <3>8, <2>n DEF FanoutInv
  <2>5. CASE Disconnect(w)
    <3>1. FanoutTypeOK'
      BY <2>5, <1>t DEF Disconnect, FanoutTypeOK
    <3>2. phase'[w] = "away" /\ got'[w] = got[w]
      BY <2>5, <1>t DEF Disconnect, FanoutTypeOK
    <3>3. ViewerInv(w)'
      BY <3>2, <2>i DEF ViewerInv, Unsubscribed, Rising, Listening
    <3> QED BY <3>1, <3>3, <2>n DEF FanoutInv
  <2> QED BY <1>2, <2>1, <2>2, <2>3, <2>4, <2>5 DEF SocketStep
<1>3. CASE UNCHANGED fanout
  <2>1. UNCHANGED <<count, phase, start, next, missed, got, tries>>
    BY <1>3 DEF fanout
  <2> QED
    BY <2>1, <1>t
    DEF FanoutInv, FanoutTypeOK, ViewerInv, Unsubscribed, Rising, Between, Accounted, Kept, Listening, Oldest
<1> QED BY <1>1, <1>2, <1>3 DEF FanoutNext

(* The invariant holds in every behaviour.                                 *)
THEOREM FanoutInvariance == FanoutSpec => []FanoutInv
<1>1. FanoutInit => FanoutInv
  BY FanoutStarts
<1>2. FanoutInv /\ [FanoutNext]_fanout => FanoutInv'
  BY FanoutStep
<1> QED BY <1>1, <1>2, PTL DEF FanoutSpec

(* The channel and the socket tasks keep their types.                      *)
THEOREM FanoutTypeCorrect == FanoutSpec => []FanoutTypeOK
<1>1. FanoutInv => FanoutTypeOK
  BY DEF FanoutInv
<1> QED BY <1>1, FanoutInvariance, PTL

(* broadcast::Receiver and the socket loop: order, no repeats, and every   *)
(* event since the subscription delivered, to come or counted as missed.   *)
THEOREM FanoutOrderCorrect == FanoutSpec => []InOrderAndAccounted
<1>1. FanoutInv => InOrderAndAccounted
  <2> SUFFICES ASSUME FanoutInv, NEW v \in Viewers
               PROVE  /\ \A i, j \in DOMAIN got[v] : i < j => got[v][i] < got[v][j]
                      /\ Listening(v) =>
                           /\ \A i \in DOMAIN got[v] : start[v] <= got[v][i] /\ got[v][i] < next[v]
                           /\ Len(got[v]) + missed[v] = next[v] - start[v]
    BY DEF InOrderAndAccounted
  <2>1. DOMAIN got[v] = 1 .. Len(got[v])
    BY DEF FanoutInv, FanoutTypeOK
  <2> QED BY <2>1 DEF FanoutInv, ViewerInv, Rising, Between, Accounted
<1> QED BY <1>1, FanoutInvariance, PTL

(* Lag costs a viewer the oldest events only: what is still in the ring    *)
(* has reached it or is still ahead of it.                                 *)
THEOREM FanoutLagCorrect == FanoutSpec => []NewestSurviveLag
<1>1. FanoutInv => NewestSurviveLag
  <2> SUFFICES ASSUME FanoutInv, NEW v \in Viewers, Listening(v),
                      NEW n \in start[v] .. count, n >= Oldest
               PROVE  n >= next[v] \/ \E i \in DOMAIN got[v] : got[v][i] = n
    BY DEF NewestSurviveLag
  <2>1. DOMAIN got[v] = 1 .. Len(got[v]) /\ next[v] \in Nat /\ start[v] \in Nat
    BY DEF FanoutInv, FanoutTypeOK
  <2>2. n >= next[v] \/ n \in start[v] .. next[v] - 1
    BY <2>1
  <2> QED BY <2>1, <2>2 DEF FanoutInv, ViewerInv, Kept
<1> QED BY <1>1, FanoutInvariance, PTL
==============================================================================
