------------------------------- MODULE Roster -------------------------------
(***************************************************************************)
(* The characters: the roster on the home page (CharacterRoster.tsx), the  *)
(* calls it makes (characters.ts) and the file the server keeps            *)
(* (characters.rs, handlers/characters.rs).                                *)
(*                                                                         *)
(* A handler reads the whole file, changes it and writes it whole, without *)
(* a lock and without a temporary file: fs::write truncates, then writes.  *)
(* The page may have several calls under way: its buttons stay enabled.    *)
(***************************************************************************)
EXTENDS FetchCache

CONSTANTS
  Characters,  \* ids
  NoOne,       \* the empty id
  RosterUrl,   \* /api/characters
  Slots,       \* calls under way at a time
  MaxEdits,    \* calls the user makes
  MaxRestarts  \* how often the server is killed and started again

ASSUME RosterAssumption ==
  MaxEdits \in Nat /\ MaxRestarts \in Nat /\ MaxFails \in Nat /\ RosterUrl \in Keys

VARIABLES
  file,      \* companion.characters.json
  call,      \* the page's calls and how far the server is with each
  edits,     \* calls made; the number of a save is the text it writes
  restarts,
  overlap,   \* history: two handlers have worked at once
  clash,     \* history: two handlers have had the file open at once
  torn       \* history: a write broke off, as the server was killed or the disk full

roster == <<cache, fails, file, call, edits, restarts, overlap, clash, torn>>

Blank == [active |-> NoOne, body |-> [c \in {} |-> 0]]
Rosters ==
  [active : Characters \cup {NoOne}, body : UNION {[C -> 1 .. MaxEdits] : C \in SUBSET Characters}]

(* A call of which nothing but its phase is left.                           *)
Over(phase) == [phase |-> phase, verb |-> "save", id |-> NoOne, text |-> 0, copy |-> Blank]
NoCall == Over("idle")

Calls ==
  [phase : {"idle", "sent", "loaded", "opened", "done", "refused"},
   verb : {"save", "delete", "activate"}, id : Characters \cup {NoOne},
   text : 0 .. MaxEdits, copy : Rosters]
Files == [kind : {"absent", "json", "empty", "garbled"}, holds : Rosters]

RosterTypeOK ==
  /\ CacheTypeOK({RosterUrl}, Rosters)
  /\ file \in Files
  /\ call \in [Slots -> Calls]
  /\ edits \in 0 .. MaxEdits /\ restarts \in 0 .. MaxRestarts
  /\ overlap \in BOOLEAN /\ clash \in BOOLEAN /\ torn \in BOOLEAN

RosterInit ==
  /\ CacheInit
  /\ file = [kind |-> "absent", holds |-> Blank]
  /\ call = [s \in Slots |-> NoCall]
  /\ edits = 0 /\ restarts = 0 /\ overlap = FALSE /\ clash = FALSE /\ torn = FALSE

server == <<file, call, edits, restarts, overlap, clash, torn>>

-----------------------------------------------------------------------------
(* The server.                                                              *)

(* characters::load: no file yet is an empty roster, a broken one an error. *)
Readable == file.kind \in {"absent", "json"}

(* Which requests are refused with 400 or 404.                              *)
Accepts(c) ==
  CASE c.verb = "save"     -> c.id # NoOne
    [] c.verb = "activate" -> c.id \in DOMAIN file.holds.body \cup {NoOne}
    [] c.verb = "delete"   -> c.id \in DOMAIN file.holds.body

(* Seeded fault: a deleted character stays the active one.                  *)
Edited_StaysActive(r, c) ==
  CASE c.verb = "save"     -> [r EXCEPT !.body = [d \in DOMAIN @ \cup {c.id} |->
                                                    IF d = c.id THEN c.text ELSE @[d]]]
    [] c.verb = "activate" -> [r EXCEPT !.active = c.id]
    [] c.verb = "delete"   -> [r EXCEPT !.body = [d \in DOMAIN @ \ {c.id} |-> @[d]]]

(* Seeded fault: what is saved is blank.                                    *)
Edited_Blank(r, c) ==
  CASE c.verb = "save"     -> [r EXCEPT !.body = [d \in DOMAIN @ \cup {c.id} |->
                                                    IF d = c.id THEN 0 ELSE @[d]]]
    [] c.verb = "activate" -> [r EXCEPT !.active = c.id]
    [] c.verb = "delete"   -> [active |-> IF r.active = c.id THEN NoOne ELSE r.active,
                               body   |-> [d \in DOMAIN r.body \ {c.id} |-> r.body[d]]]

(* What the three handlers make of the roster.                              *)
Edited(r, c) ==
  CASE c.verb = "save"     -> [active |-> r.active,
                               body   |-> [d \in DOMAIN r.body \cup {c.id} |->
                                             IF d = c.id THEN c.text ELSE r.body[d]]]
    [] c.verb = "activate" -> [active |-> c.id, body |-> r.body]
    [] c.verb = "delete"   -> [active |-> IF r.active = c.id THEN NoOne ELSE r.active,
                               body   |-> [d \in DOMAIN r.body \ {c.id} |-> r.body[d]]]

Length(r) == 2 * Cardinality(DOMAIN r.body) + IF r.active = NoOne THEN 0 ELSE 1

Working(s) == call[s].phase \in {"loaded", "opened"}

Load(s) ==
  /\ call[s].phase = "sent"
  /\ LET ok == Readable /\ Accepts(call[s])
     IN /\ call' = [call EXCEPT ![s].phase = IF ok THEN "loaded" ELSE "refused",
                                ![s].copy  = IF ok THEN Edited(file.holds, call[s]) ELSE Blank]
        /\ overlap' = (overlap \/ (ok /\ \E t \in Slots : Working(t)))
  /\ UNCHANGED <<cache, fails, file, edits, restarts, clash, torn>>

(* fs::write opens the file and truncates it ...                            *)
Truncate(s) ==
  /\ call[s].phase = "loaded" /\ call' = [call EXCEPT ![s].phase = "opened"]
  /\ file' = [kind |-> "empty", holds |-> Blank]
  /\ clash' = (clash \/ \E t \in Slots : call[t].phase = "opened")
  /\ UNCHANGED <<cache, fails, edits, restarts, overlap, torn>>

(* ... and writes from its start: over what another handler wrote meanwhile *)
(* it leaves the end of a longer text.                                      *)
Fill(s) ==
  /\ call[s].phase = "opened"
  /\ file' = IF file.kind = "garbled" \/ (file.kind = "json" /\ Length(call[s].copy) < Length(file.holds))
             THEN [kind |-> "garbled", holds |-> Blank]
             ELSE [kind |-> "json", holds |-> call[s].copy]
  /\ call' = [call EXCEPT ![s].phase = "done", ![s].copy = Blank]
  /\ UNCHANGED <<cache, fails, edits, restarts, overlap, clash, torn>>

(* fs::write fails, which the page is told: the file cannot be opened, or   *)
(* not be written to its end, and then all or a part of the text is lost.   *)
WriteFails(s) ==
  /\ fails < MaxFails /\ fails' = fails + 1
  /\ \/ call[s].phase = "loaded" /\ UNCHANGED <<file, torn>>
     \/ /\ call[s].phase = "opened" /\ torn' = TRUE
        /\ UNCHANGED file \/ file' = [kind |-> "garbled", holds |-> Blank]
  /\ call' = [call EXCEPT ![s] = Over("refused")]
  /\ UNCHANGED <<cache, edits, restarts, overlap, clash>>

(* GET /api/characters.                                                     *)
List ==
  /\ IF Readable THEN Answer(RosterUrl, file.holds)
                 ELSE request[RosterUrl] = "sent" /\ Refused(RosterUrl) /\ UNCHANGED fails
  /\ UNCHANGED server

(* The server is killed and started again; what it had not answered fails.  *)
Restart ==
  /\ restarts < MaxRestarts /\ restarts' = restarts + 1
  /\ torn' = (torn \/ \E s \in Slots : call[s].phase = "opened")
  /\ call' = [s \in Slots |->
       IF call[s].phase = "idle" THEN NoCall ELSE Over("refused")]
  /\ IF request[RosterUrl] = "none" THEN UNCHANGED <<cache, fails>>
     ELSE Refused(RosterUrl) /\ UNCHANGED fails
  /\ UNCHANGED <<file, edits, overlap, clash>>

-----------------------------------------------------------------------------
(* The page.                                                                *)

(* The page is opened: useCachedJson reads the roster.                      *)
Mount == Read(RosterUrl) /\ UNCHANGED server

(* The user saves a character, or deletes or activates one that is shown.   *)
Edit(s, verb, id) ==
  /\ call[s].phase = "idle" /\ edits < MaxEdits /\ edits' = edits + 1
  /\ RosterUrl \in known
  /\ verb = "save" \/ (data[RosterUrl] # Nothing /\ id \in DOMAIN data[RosterUrl].body)
  /\ call' = [call EXCEPT ![s] = [phase |-> "sent", verb |-> verb, id |-> id,
                                  text |-> IF verb = "save" THEN edits' ELSE 0, copy |-> Blank]]
  /\ UNCHANGED <<cache, fails, file, restarts, overlap, clash, torn>>

(* A call that succeeded invalidates the roster's URL.                      *)
Return(s) ==
  /\ call[s].phase \in {"done", "refused"} /\ call' = [call EXCEPT ![s] = NoCall]
  /\ IF call[s].phase = "done" THEN Invalidate({RosterUrl}) ELSE UNCHANGED <<cache, fails>>
  /\ UNCHANGED <<file, edits, restarts, overlap, clash, torn>>

RosterNext ==
  \/ List \/ Restart \/ Mount
  \/ (Arrive(RosterUrl) \/ Fail(RosterUrl) \/ Expire(RosterUrl)) /\ UNCHANGED server
  \/ \E s \in Slots :
       \/ Load(s) \/ Truncate(s) \/ Fill(s) \/ WriteFails(s) \/ Return(s)
       \/ \E verb \in {"save", "delete", "activate"}, id \in Characters : Edit(s, verb, id)

RosterSpec == RosterInit /\ [][RosterNext]_roster

-----------------------------------------------------------------------------
InRoster(r) == r.active \in DOMAIN r.body \cup {NoOne}

(* While nobody has it open, the roster is a file every handler can read:   *)
(* only two handlers that have it open at once, or a write that breaks off  *)
(* (a kill, a full disk), break it, and then for good (characters::load).   *)
(* Handlers that overlap otherwise lose each other's edits at most, or      *)
(* leave a deleted character active: without overlap the active character   *)
(* is in the roster.                                                        *)
RosterSound ==
  \/ \E s \in Slots : call[s].phase = "opened"
  \/ torn
  \/ (clash \/ Readable) /\ (overlap \/ InRoster(file.holds))

(* With nothing under way the page shows the roster the server has: "force  *)
(* a refetch on next read" and "re-render again when the refetch completes  *)
(* with fresh data" (fetchCache.ts, invalidateCache).                       *)
RosterUpToDate ==
  (request[RosterUrl] = "none" /\ \A s \in Slots : call[s].phase = "idle")
    => (data[RosterUrl] = Nothing \/ data[RosterUrl] = file.holds)
=============================================================================
