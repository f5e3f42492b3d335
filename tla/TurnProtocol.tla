---------------------------- MODULE TurnProtocol ----------------------------
(***************************************************************************)
(* What the frames of a chat turn promise a viewer (protocol.rs): the      *)
(* user's message is echoed, the reply's text is shown once and before any *)
(* sound, the reply then sounds as Audio frames of one turn_id with rising *)
(* seq, the frame flagged last closes it, and Idle ends it.  A turn may    *)
(* rest without having sounded, though not without having shown its text,  *)
(* and a turn whose agent failed stays asked.                              *)
(***************************************************************************)
EXTENDS Naturals

CONSTANT Turns

VARIABLES
  stage,  \* how far the turn is, as its frames show
  text,   \* "hidden", then "first": shown once and ahead of every sound
  mark    \* a bound that every seq to come reaches

Stages == {"silent", "asked", "speaking", "closed", "resting"}

Init ==
  /\ stage = [t \in Turns |-> "silent"]
  /\ text = [t \in Turns |-> "hidden"]
  /\ mark = [t \in Turns |-> 0]

Move(t, from, to) ==
  /\ stage[t] \in from
  /\ stage' = [stage EXCEPT ![t] = to]

(* By the first frame that sounds, or that ends the turn, the text is out. *)
Show(t) == text' = [text EXCEPT ![t] = "first"]

(* A frame whose seq is at least mark; the next one must be above it.      *)
Advance(t) ==
  /\ mark'[t] > mark[t]
  /\ mark' = [mark EXCEPT ![t] = mark'[t]]

Ask(t)   == Move(t, {"silent"}, "asked") /\ UNCHANGED <<text, mark>>
Speak(t) == Move(t, {"asked", "speaking"}, "speaking") /\ Show(t) /\ Advance(t)
Close(t) == Move(t, {"asked", "speaking"}, "closed") /\ Show(t) /\ Advance(t)
Rest(t)  == Move(t, {"asked", "closed"}, "resting") /\ Show(t) /\ UNCHANGED mark

Next == \E t \in Turns : Ask(t) \/ Speak(t) \/ Close(t) \/ Rest(t)

Spec == Init /\ [][Next]_<<stage, text, mark>>
=============================================================================
