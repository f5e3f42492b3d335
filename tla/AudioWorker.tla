----------------------------- MODULE AudioWorker -----------------------------
(***************************************************************************)
(* The native audio worker of the Tauri host (run_audio_worker in          *)
(* apps/companion-tauri/src/lib.rs): one thread that takes Play and Stop   *)
(* commands from a channel, keeps the chunks of one turn, drops repeats,   *)
(* holds the opening chunks back in a jitter buffer and feeds a sink.      *)
(*                                                                         *)
(* The locals of the thread are the record `worker'.  A command is handled *)
(* in one step; the clock shows only as the choice of whether the          *)
(* prebuffer deadline has passed, and a chunk's length only in units of    *)
(* which Prebuffer make PREBUFFER_SECS.  A chunk counts as fed once it is  *)
(* handed to append_wav.                                                   *)
(***************************************************************************)
EXTENDS Naturals, Sequences

CONSTANTS
  Turns,      \* turn ids
  NoTurn,     \* current_turn = None
  Seqs,       \* chunk indices within a turn
  Lens,       \* lengths of a chunk's audio; 0 is the empty terminator
  Prebuffer   \* PREBUFFER_SECS

ASSUME WorkerAssumption ==
  /\ NoTurn \notin Turns
  /\ Seqs \subseteq Nat /\ Lens \subseteq Nat
  /\ Prebuffer \in Nat \ {0}

Chunk == [turn : Turns, seq : Seqs, last : BOOLEAN, len : Lens]

VARIABLE worker

(* The record's fields: current_turn, what was fed to the sink, the seqs   *)
(* seen, the chunks held back and their length, whether playback started,  *)
(* whether the chunk flagged last came, whether first_chunk_at is set; and *)
(* as history every chunk with audio accepted since the last reset.        *)
WorkerType ==
  [turn : Turns \cup {NoTurn}, sink : Seq(Chunk), seen : SUBSET Seqs,
   pending : Seq(Chunk), secs : Nat, playing : BOOLEAN, lastSeen : BOOLEAN,
   armed : BOOLEAN, accepted : Seq(Chunk)]

(* reset_turn!, then current_turn = t.                                     *)
Reset(t) ==
  [turn |-> t, sink |-> <<>>, seen |-> {}, pending |-> <<>>, secs |-> 0,
   playing |-> FALSE, lastSeen |-> FALSE, armed |-> FALSE, accepted |-> <<>>]

(* Seeded fault: repeats are not recognised.                               *)
Duplicate_Never(s, c) == FALSE

(* seen_chunks.insert(seq) returned false.                                 *)
Duplicate(s, c) == c.seq \in s.seen

(* Seeded fault: the seq is counted from one.                              *)
Noted_OffByOne(s, c) == [s EXCEPT !.seen = @ \cup {c.seq + 1}, !.lastSeen = @ \/ c.last]

(* The seq and the last flag of a new chunk are noted, whatever its length.*)
Noted(s, c) == [s EXCEPT !.seen = @ \cup {c.seq}, !.lastSeen = @ \/ c.last]

(* The audio of a new chunk goes to the sink of a turn that plays and to   *)
(* the jitter buffer of one that does not.                                 *)
Accept(s, c) ==
  IF c.len = 0 THEN Noted(s, c)
  ELSE IF s.playing
    THEN [Noted(s, c) EXCEPT !.sink = Append(@, c), !.accepted = Append(@, c)]
    ELSE [Noted(s, c) EXCEPT !.armed = TRUE, !.secs = @ + c.len,
                             !.pending = Append(@, c), !.accepted = Append(@, c)]

(* Seeded fault: the final chunk does not release the buffer.              *)
Ready_IgnoresLast(s, expired) == s.secs >= Prebuffer \/ (s.armed /\ expired)

(* The prebuffer condition.                                                *)
Ready(s, expired) == s.lastSeen \/ s.secs >= Prebuffer \/ (s.armed /\ expired)

(* start_playback, and playing = true when it succeeds.  Allocating the    *)
(* sink may fail, which empties the buffer.                                *)
Start(s, ok) ==
  IF s.pending = <<>> THEN s
  ELSE IF ok THEN [s EXCEPT !.sink = s.pending, !.pending = <<>>, !.playing = TRUE]
  ELSE [s EXCEPT !.pending = <<>>]

(* AudioCmd::Stop.                                                         *)
Stop == worker' = Reset(NoTurn)

(* AudioCmd::Play: another turn_id resets, a repeat is dropped, a new      *)
(* chunk is accepted and may start the playback.                           *)
Play(c) ==
  LET base == IF worker.turn = c.turn THEN worker ELSE Reset(c.turn)
      next == Accept(base, c)
  IN
  IF Duplicate(base, c) THEN worker' = base
  ELSE \E expired, ok \in BOOLEAN :
         /\ expired => base.armed
         /\ worker' = IF ~next.playing /\ Ready(next, expired) THEN Start(next, ok) ELSE next

(* recv_timeout waits for the deadline only while this holds, otherwise    *)
(* for an hour.                                                            *)
WaitsForDeadline == worker.armed /\ ~worker.playing

(* Seeded fault: the deadline is not acted upon.                           *)
Deadline_Ignored == WaitsForDeadline /\ UNCHANGED worker

(* RecvTimeoutError::Timeout.                                              *)
Deadline ==
  /\ WaitsForDeadline
  /\ \E ok \in BOOLEAN : worker' = Start(worker, ok)

Init == worker = Reset(NoTurn)
Next == Stop \/ (\E c \in Chunk : Play(c)) \/ Deadline
Spec == Init /\ [][Next]_worker

-----------------------------------------------------------------------------
(* The locals have their types.                                            *)
TypeOK == worker \in WorkerType

(* The sequence q is the end of the sequence a, element by element.        *)
EndsWith(a, q) ==
  /\ Len(q) <= Len(a)
  /\ \A i \in 1 .. Len(q) : q[i] = a[Len(a) - Len(q) + i]

(* "All chunks of the same turn_id queue into the same Sink ... a new      *)
(* turn_id drops the previous queue": what is fed and held back belongs to *)
(* the current turn, each chunk once, in order of arrival with none        *)
(* missing in between; only a failed sink allocation loses an opening.     *)
HeldInOrder ==
  LET s == worker IN
  /\ EndsWith(s.accepted, s.sink \o s.pending)
  /\ \A i, j \in DOMAIN s.accepted :
       /\ s.accepted[i].turn = s.turn
       /\ s.accepted[i].seq = s.accepted[j].seq => i = j

(* "a short reply immediately instead of waiting for a second chunk that   *)
(* will never come": audio is held back only while more is expected, less  *)
(* than the prebuffer is in hand, and a deadline is running.               *)
HeldOnlyWhileExpecting ==
  worker.pending # <<>> =>
    /\ ~worker.playing /\ ~worker.lastSeen
    /\ worker.secs < Prebuffer
    /\ WaitsForDeadline

(* Both, whatever comes in which order.                                    *)
HeldRightly == HeldInOrder /\ HeldOnlyWhileExpecting
=============================================================================
