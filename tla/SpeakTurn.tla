------------------------------ MODULE SpeakTurn ------------------------------
(***************************************************************************)
(* The speak pipeline of companion-server: what one chat turn broadcasts   *)
(* to the avatar viewers, from the POST /api/chat that starts it to the    *)
(* Idle frame that ends it (handlers/chat.rs and companion-avatar's        *)
(* ws/mod.rs).                                                             *)
(*                                                                         *)
(* A turn runs in a task of its own and takes one of two paths.  The bulk  *)
(* path analyses the whole reply once, cuts it into chunks and awaits one  *)
(* TTS call per chunk.  The streaming path runs two tasks, a producer      *)
(* driven by the translator's deltas and a dispatcher that synthesises     *)
(* paragraph by paragraph, joined by an unbounded queue.  Meanwhile the    *)
(* settings handlers replace the TTS manager, the subagent and the avatar  *)
(* config under the running turns.                                         *)
(*                                                                         *)
(* A frame is broadcast with a send that never blocks and never fails, so  *)
(* the frames a task sends between two awaits are appended to its turn's   *)
(* history in one step: `sent' is per turn, and no other turn reads it.    *)
(***************************************************************************)
EXTENDS Naturals, Sequences

CONSTANTS
  Turns,      \* the chat turns that may run, possibly at the same time
  Tts,        \* the TTS managers a hot-swap can install
  Silent,     \* stands for "no manager": the voice of a frame without audio
  Configs,    \* the avatar configs a save can install
  MaxChunks,  \* chunks (bulk) or paragraphs (streaming) of one reply
  MaxSwaps    \* hot-swaps of the live handles in one behaviour

(* The config fields that steer a turn: whether the chat and TTS languages *)
(* differ, [avatar.subagent] streaming and only_when_translating, and      *)
(* [avatar.tts] streaming.                                                 *)
ConfigType == [translate : BOOLEAN, stream : BOOLEAN,
               onlyTranslate : BOOLEAN, chunked : BOOLEAN]

(* No subagent; one whose LLM cannot stream; one that can.                 *)
Subagents == {"none", "bulk", "stream"}

ASSUME SpeakAssumption ==
  /\ Tts # {} /\ Silent \notin Tts
  /\ Configs # {} /\ Configs \subseteq ConfigType
  /\ MaxChunks \in Nat \ {0}
  /\ MaxSwaps \in Nat

VARIABLES
  live,       \* the ArcSwap handles: [tts, sub, cfg]
  swaps,      \* how many hot-swaps happened
  pc,         \* where the turn's task is
  snap,       \* the handles the turn loaded when it began to speak
  total,      \* bulk: the number of chunks of the reply
  seq,        \* the seq of the next Audio frame
  motion,     \* the analysis picked a motion for the intro
  introSent,  \* the intro frames have been broadcast
  queue,      \* streaming: the unbounded channel to the dispatcher
  produced,   \* streaming: how many paragraphs the translator has emitted
  disp,       \* streaming: where the dispatcher task is
  current,    \* streaming: the paragraph in synthesis and its manager
  translated, \* streaming: translate_stream returned a non-empty text
  sent        \* every frame of the turn, in the order of broadcast

producer == <<queue, produced, translated>>
dispatch == <<disp, current>>
vars == <<live, swaps, pc, snap, total, seq, motion, introSent,
          producer, dispatch, sent>>

-----------------------------------------------------------------------------
(* Frames.  voice is the TTS manager that synthesised the audio; an Audio  *)
(* frame without one is the empty end-of-turn terminator.                  *)

Kinds  == {"UserMessage", "Expression", "Motion", "Text", "Debug", "Audio", "Idle"}
Frame  == [kind : Kinds, seq : Nat, last : BOOLEAN, voice : Tts \cup {Silent}]

Plain(k)       == [kind |-> k, seq |-> 0, last |-> FALSE, voice |-> Silent]
Audio(n, l, v) == [kind |-> "Audio", seq |-> n, last |-> l, voice |-> v]
Terminator(n)  == Audio(n, TRUE, Silent)

IntroFrames(m) ==
  IF m THEN <<Plain("Expression"), Plain("Motion"), Plain("Text"), Plain("Debug")>>
       ELSE <<Plain("Expression"), Plain("Text"), Plain("Debug")>>

(* emit_intro_once: the intro frames, unless they are already out.         *)
IntroOnce(t, m) == IF introSent[t] THEN <<>> ELSE IntroFrames(m)

Emit(t, frames) == sent' = [sent EXCEPT ![t] = @ \o frames]
Goto(t, label)  == pc' = [pc EXCEPT ![t] = label]
Introduced(t)   == introSent' = [introSent EXCEPT ![t] = TRUE]

(* A message of the dispatcher's channel: the text to speak ("blank" is    *)
(* text of which nothing is left once emoji and markdown are stripped,     *)
(* "none" the bare completion signal) and whether it is the final one.     *)
Message == [text : {"words", "blank", "none"}, final : BOOLEAN]
Send(t, x, f) == queue' = [queue EXCEPT ![t] = Append(@, [text |-> x, final |-> f])]

(* Seeded fault: the sender outlives a producer that panics.               *)
Closed_NotOnPanic(t) == pc[t] = "join"

(* The producer has dropped its sender.                                    *)
Closed(t) == pc[t] \in {"join", "panicked"}

-----------------------------------------------------------------------------
(* The chat handler.                                                       *)

(* handle_chat echoes the user's message to every window, then awaits the  *)
(* agent.                                                                  *)
ChatArrive(t) ==
  /\ pc[t] = "new"
  /\ Goto(t, "agent")
  /\ Emit(t, <<Plain("UserMessage")>>)
  /\ UNCHANGED <<live, swaps, snap, total, seq, motion, introSent, producer, dispatch>>

(* The agent answered: process_speak runs in a spawned task.               *)
AgentAnswer(t) ==
  /\ pc[t] = "agent"
  /\ Goto(t, "reply")
  /\ UNCHANGED <<live, swaps, snap, total, seq, motion, introSent, producer, dispatch, sent>>

(* 502 or 504 to the poster; nothing more is broadcast.                    *)
AgentFail(t) ==
  /\ pc[t] = "agent"
  /\ Goto(t, "failed")
  /\ UNCHANGED <<live, swaps, snap, total, seq, motion, introSent, producer, dispatch, sent>>

-----------------------------------------------------------------------------
(* process_speak.                                                          *)

RunSubagent(h) == h.sub # "none" /\ (h.cfg.translate \/ ~h.cfg.onlyTranslate)
Streaming(h)   == RunSubagent(h) /\ h.cfg.stream /\ h.cfg.translate /\ h.sub = "stream"

(* How many chunks compute_tts_chunks makes of a text to speak: one unless *)
(* sentence streaming is on, none when nothing speakable is left.          *)
ChunkCounts(h, speakable) ==
  IF ~speakable THEN {0} ELSE IF h.cfg.chunked THEN 0 .. MaxChunks ELSE {0, 1}

(* The rest of process_speak once the expression and the spoken text are   *)
(* known: with nothing to speak the intro and Idle go out at once,         *)
(* otherwise the synthesis loop begins.                                    *)
Resolve(t, n, m) ==
  /\ total' = [total EXCEPT ![t] = n]
  /\ motion' = [motion EXCEPT ![t] = m]
  /\ \/ /\ n = 0
        /\ Goto(t, "done")
        /\ Emit(t, IntroOnce(t, m) \o <<Plain("Idle")>>)
        /\ Introduced(t)
     \/ /\ n > 0
        /\ Goto(t, "synth")
        /\ UNCHANGED <<sent, introSent>>

(* The task snapshots the three handles and picks its path.                *)
BeginStreaming(t) ==
  /\ pc[t] = "reply" /\ Streaming(live)
  /\ snap' = [snap EXCEPT ![t] = live]
  /\ Goto(t, "open")
  /\ disp' = [disp EXCEPT ![t] = "recv"]
  /\ UNCHANGED <<live, swaps, total, seq, motion, introSent, producer, current, sent>>

BeginAnalysis(t) ==
  /\ pc[t] = "reply" /\ RunSubagent(live) /\ ~Streaming(live)
  /\ snap' = [snap EXCEPT ![t] = live]
  /\ Goto(t, "analyze")
  /\ UNCHANGED <<live, swaps, total, seq, motion, introSent, producer, dispatch, sent>>

(* No subagent: the reply itself is spoken, unless it is in the wrong      *)
(* language.                                                               *)
BeginPlain(t) ==
  /\ pc[t] = "reply" /\ ~RunSubagent(live)
  /\ snap' = [snap EXCEPT ![t] = live]
  /\ \E n \in ChunkCounts(live, ~live.cfg.translate) : Resolve(t, n, FALSE)
  /\ UNCHANGED <<live, swaps, seq, producer, dispatch>>

(* subagent.analyze: both attempts may fail (None), which leaves a         *)
(* cross-language reply without a translation and so without speech; a     *)
(* successful one may pick a motion and may still lack the translation.    *)
(* The first attempt cuts the reply to 2000 bytes: where that is inside a  *)
(* character the cut panics and the turn's task is gone, with no frame     *)
(* sent and nothing left to send one.                                      *)
Analyze(t) ==
  /\ pc[t] = "analyze"
  /\ \/ \E ok, m \in BOOLEAN :
          /\ m => ok
          /\ \E n \in ChunkCounts(snap[t], ok \/ ~snap[t].cfg.translate) : Resolve(t, n, m)
     \/ /\ Goto(t, "crashed")
        /\ UNCHANGED <<total, motion, introSent, sent>>
  /\ UNCHANGED <<live, swaps, snap, seq, producer, dispatch>>

(* Seeded fault: the final chunk is recognised one too early.              *)
IsLast_Early(t) == seq[t] + 2 >= total[t]

(* is_last = i + 1 == total.                                               *)
IsLast(t) == seq[t] + 1 = total[t]

(* The manager the synthesis loop uses.                                    *)
TurnTts(t) == snap[t].tts

(* One turn of the synthesis loop, with the snapshotted manager.  A failed *)
(* chunk is silently skipped, except the last one, which still closes the  *)
(* turn with an empty terminator.                                          *)
SynthChunk(t) ==
  LET intro == IntroOnce(t, motion[t]) IN
  /\ pc[t] = "synth" /\ seq[t] < total[t]
  /\ \/ /\ Emit(t, intro \o <<Audio(seq[t], IsLast(t), TurnTts(t))>>)
        /\ Introduced(t)
     \/ /\ IsLast(t)
        /\ Emit(t, intro \o <<Terminator(seq[t])>>)
        /\ Introduced(t)
     \/ /\ ~IsLast(t)
        /\ UNCHANGED <<sent, introSent>>
  /\ seq' = [seq EXCEPT ![t] = @ + 1]
  /\ UNCHANGED <<live, swaps, pc, snap, total, motion, producer, dispatch>>

(* After the loop: the intro if it never went out, and Idle.               *)
FinishBulk(t) ==
  /\ pc[t] = "synth" /\ seq[t] = total[t]
  /\ Emit(t, IntroOnce(t, motion[t]) \o <<Plain("Idle")>>)
  /\ Introduced(t)
  /\ Goto(t, "done")
  /\ UNCHANGED <<live, swaps, snap, total, seq, motion, producer, dispatch>>

-----------------------------------------------------------------------------
(* run_streaming_speak, the producer.                                      *)

(* The producer loads the live subagent a second time and expects one.     *)
OpenStream(t) ==
  /\ pc[t] = "open"
  /\ Goto(t, IF live.sub = "none" THEN "panicked" ELSE "translate")
  /\ UNCHANGED <<live, swaps, snap, total, seq, motion, introSent, producer, dispatch, sent>>

(* A delta completes a sentence or a paragraph.                            *)
Paragraph(t) ==
  /\ pc[t] = "translate" /\ produced[t] < MaxChunks
  /\ \E x \in {"words", "blank"} : Send(t, x, FALSE)
  /\ produced' = [produced EXCEPT ![t] = @ + 1]
  /\ UNCHANGED <<live, swaps, pc, snap, total, seq, motion, introSent, translated, dispatch, sent>>

(* translate_stream returned, with the full text or, after an error or the *)
(* timeout, with None; whatever is left in the buffer is the final         *)
(* message either way, and the sender is dropped.                          *)
EndTranslation(t) ==
  /\ pc[t] = "translate"
  /\ \E x \in {"words", "blank", "none"} : Send(t, x, TRUE)
  /\ \E full \in BOOLEAN : translated' = [translated EXCEPT ![t] = full]
  /\ Goto(t, "join")
  /\ UNCHANGED <<live, swaps, snap, total, seq, motion, introSent, produced, dispatch, sent>>

(* Seeded fault: Idle without awaiting the dispatcher.                     *)
Joined_NoWait(t) == TRUE

(* dispatcher.await returned.                                              *)
Joined(t) == disp[t] = "ended"

(* The dispatcher has been awaited: the Debug frame is sent again with the *)
(* spoken text if there is one, then Idle.                                 *)
FinishStream(t) ==
  /\ pc[t] = "join" /\ Joined(t)
  /\ Emit(t, (IF translated[t] THEN <<Plain("Debug")>> ELSE <<>>) \o <<Plain("Idle")>>)
  /\ Goto(t, "done")
  /\ UNCHANGED <<live, swaps, snap, total, seq, motion, introSent, producer, dispatch>>

-----------------------------------------------------------------------------
(* run_streaming_speak, the dispatcher.                                    *)

Receive(t) ==
  /\ disp[t] = "recv" /\ queue[t] # <<>>
  /\ queue' = [queue EXCEPT ![t] = Tail(@)]

(* Nothing speakable: a non-final message is skipped, the final one closes *)
(* the turn.                                                               *)
SkipBlank(t) ==
  /\ Receive(t)
  /\ Head(queue[t]).text # "words"
  /\ \/ /\ ~Head(queue[t]).final
        /\ UNCHANGED <<sent, introSent, disp>>
     \/ /\ Head(queue[t]).final
        /\ Emit(t, IntroOnce(t, FALSE) \o <<Terminator(seq[t])>>)
        /\ Introduced(t)
        /\ disp' = [disp EXCEPT ![t] = "ended"]
  /\ UNCHANGED <<live, swaps, pc, snap, total, seq, motion, produced, translated, current>>

(* A paragraph goes to the TTS manager that is live now.                   *)
StartSynth(t) ==
  /\ Receive(t)
  /\ Head(queue[t]).text = "words"
  /\ current' = [current EXCEPT ![t] = [final |-> Head(queue[t]).final, tts |-> live.tts]]
  /\ disp' = [disp EXCEPT ![t] = "synth"]
  /\ UNCHANGED <<live, swaps, pc, snap, total, seq, motion, introSent, produced, translated, sent>>

(* The synthesis returned.  Only a success consumes a seq.                 *)
FinishSynth(t) ==
  LET c == current[t]
      intro == IntroOnce(t, FALSE)
  IN
  /\ disp[t] = "synth"
  /\ \/ /\ Emit(t, intro \o <<Audio(seq[t], c.final, c.tts)>>)
        /\ Introduced(t)
        /\ seq' = [seq EXCEPT ![t] = @ + 1]
     \/ /\ c.final
        /\ Emit(t, intro \o <<Terminator(seq[t])>>)
        /\ Introduced(t)
        /\ UNCHANGED seq
     \/ /\ ~c.final
        /\ UNCHANGED <<sent, introSent, seq>>
  /\ disp' = [disp EXCEPT ![t] = IF c.final THEN "ended" ELSE "recv"]
  /\ UNCHANGED <<live, swaps, pc, snap, total, motion, producer, current>>

(* Seeded fault: no safety net.                                            *)
NeedsNet_Never(t) == FALSE

(* if !intro_sent, after the dispatcher's loop.                            *)
NeedsNet(t) == ~introSent[t]

(* The channel closed before a final message: the safety net.              *)
ChannelClosed(t) ==
  /\ disp[t] = "recv" /\ queue[t] = <<>> /\ Closed(t)
  /\ \/ /\ NeedsNet(t)
        /\ Emit(t, IntroFrames(FALSE) \o <<Terminator(seq[t])>>)
        /\ Introduced(t)
     \/ /\ ~NeedsNet(t)
        /\ UNCHANGED <<sent, introSent>>
  /\ disp' = [disp EXCEPT ![t] = "ended"]
  /\ UNCHANGED <<live, swaps, pc, snap, total, seq, motion, producer, current>>

-----------------------------------------------------------------------------
(* The settings handlers replace one handle each.                          *)

Swap(field, new) ==
  /\ swaps < MaxSwaps
  /\ swaps' = swaps + 1
  /\ live' = [live EXCEPT ![field] = new]
  /\ UNCHANGED <<pc, snap, total, seq, motion, introSent, producer, dispatch, sent>>

SwapTts      == \E v \in Tts \ {live.tts}       : Swap("tts", v)
SwapSubagent == \E s \in Subagents \ {live.sub} : Swap("sub", s)
SwapConfig   == \E c \in Configs \ {live.cfg}   : Swap("cfg", c)

-----------------------------------------------------------------------------
Init ==
  /\ live \in [tts : Tts, sub : Subagents, cfg : Configs]
  /\ swaps = 0
  /\ pc = [t \in Turns |-> "new"]
  /\ snap = [t \in Turns |-> live]
  /\ total = [t \in Turns |-> 0]
  /\ seq = [t \in Turns |-> 0]
  /\ motion = [t \in Turns |-> FALSE]
  /\ introSent = [t \in Turns |-> FALSE]
  /\ queue = [t \in Turns |-> <<>>]
  /\ produced = [t \in Turns |-> 0]
  /\ translated = [t \in Turns |-> FALSE]
  /\ disp = [t \in Turns |-> "off"]
  /\ current = [t \in Turns |-> [final |-> FALSE, tts |-> live.tts]]
  /\ sent = [t \in Turns |-> <<>>]

(* The steps a turn takes by itself once its chat request has arrived.     *)
BulkStep(t) ==
  \/ AgentAnswer(t) \/ AgentFail(t) \/ BeginPlain(t) \/ BeginAnalysis(t)
  \/ Analyze(t) \/ SynthChunk(t) \/ FinishBulk(t)
ProducerStep(t) ==
  \/ BeginStreaming(t) \/ OpenStream(t) \/ Paragraph(t) \/ EndTranslation(t)
  \/ FinishStream(t)
DispatcherStep(t) ==
  \/ SkipBlank(t) \/ StartSynth(t) \/ FinishSynth(t) \/ ChannelClosed(t)

Next ==
  \/ \E t \in Turns : ChatArrive(t) \/ BulkStep(t) \/ ProducerStep(t) \/ DispatcherStep(t)
  \/ SwapTts \/ SwapSubagent \/ SwapConfig

Spec == Init /\ [][Next]_vars

(* Every await of a turn has a timeout: the agent's HTTP client, analyze   *)
(* and translate_stream, each TTS request.  A runnable task is scheduled.  *)
FairSpec ==
  Spec /\ \A t \in Turns : /\ WF_vars(BulkStep(t))
                           /\ WF_vars(ProducerStep(t))
                           /\ WF_vars(DispatcherStep(t))
-----------------------------------------------------------------------------
(* Properties.                                                             *)

Idx(t)      == DOMAIN sent[t]
Of(t, k)    == {i \in Idx(t) : sent[t][i].kind = k}
Began(t)    == pc[t] \notin {"new", "agent", "failed", "reply"}
IsStream(t) == disp[t] # "off"

(* Every variable has its type.                                            *)
TypeOK ==
  /\ live \in [tts : Tts, sub : Subagents, cfg : ConfigType]
  /\ swaps \in 0 .. MaxSwaps
  /\ pc \in [Turns -> {"new", "agent", "failed", "reply", "analyze", "synth",
                       "open", "translate", "join", "done", "panicked", "crashed"}]
  /\ snap \in [Turns -> [tts : Tts, sub : Subagents, cfg : ConfigType]]
  /\ total \in [Turns -> 0 .. MaxChunks]
  /\ seq \in [Turns -> Nat]
  /\ motion \in [Turns -> BOOLEAN]
  /\ introSent \in [Turns -> BOOLEAN]
  /\ queue \in [Turns -> Seq(Message)]
  /\ produced \in [Turns -> 0 .. MaxChunks]
  /\ translated \in [Turns -> BOOLEAN]
  /\ disp \in [Turns -> {"off", "recv", "synth", "ended"}]
  /\ current \in [Turns -> [final : BOOLEAN, tts : Tts]]
  /\ sent \in [Turns -> Seq(Frame)]

(* emit_intro_once, on both paths: the reply text is shown exactly once,   *)
(* and no sound leaves before it.                                          *)
IntroOnceBeforeAudio ==
  \A t \in Turns :
    /\ \A i, j \in Of(t, "Text") : i = j
    /\ \A a \in Of(t, "Audio") : \E i \in Of(t, "Text") : i < a

(* "each Audio frame's seq is broadcast in monotonic order", and nothing   *)
(* follows the frame flagged last: across skipped chunks, failed chunks,   *)
(* empty terminators and the dispatcher's safety net.                      *)
AudioInOrder ==
  \A t \in Turns : \A i, j \in Of(t, "Audio") :
    i < j => sent[t][i].seq < sent[t][j].seq /\ ~sent[t][i].last

(* Idle ends a turn, and ends it only once everything that sounded was     *)
(* closed: a viewer that clears "speaking" on last and then on Idle is     *)
(* never left waiting for audio that will not come.                        *)
IdleAfterLast ==
  \A t \in Turns : \A i \in Of(t, "Idle") :
    /\ i = Len(sent[t])
    /\ Of(t, "Text") # {}
    /\ Of(t, "Audio") # {} => \E a \in Of(t, "Audio") : sent[t][a].last

(* A dispatcher never ends without closing its turn, not even when the     *)
(* producer died before sending anything.                                  *)
DispatcherCloses ==
  \A t \in Turns : disp[t] = "ended" =>
    \E a \in Of(t, "Audio") : sent[t][a].last

(* "the in-flight turn keeps using the snapshot": true of the bulk path,   *)
(* whose audio all comes from the manager loaded when the turn began.      *)
BulkKeepsSnapshot ==
  \A t \in Turns : ~IsStream(t) =>
    \A a \in Of(t, "Audio") : sent[t][a].voice \in {snap[t].tts, Silent}

(* What a viewer may rely on, read off the frames of each turn.            *)
LastAudio(t) == CHOOSE a \in Of(t, "Audio") : \A b \in Of(t, "Audio") : b <= a
StageOf(t) ==
  CASE Of(t, "Idle") # {}        -> "resting"
    [] Of(t, "Idle") = {} /\ Of(t, "Audio") # {} ->
         IF sent[t][LastAudio(t)].last THEN "closed" ELSE "speaking"
    [] Of(t, "Idle") = {} /\ Of(t, "Audio") = {} ->
         IF Of(t, "UserMessage") # {} THEN "asked" ELSE "silent"
MarkOf(t) == IF Of(t, "Audio") = {} THEN 0 ELSE sent[t][LastAudio(t)].seq + 1
TextOf(t) ==
  IF Of(t, "Text") = {} THEN "hidden"
  ELSE IF \E i \in Of(t, "Text") :
            Of(t, "Text") = {i} /\ \A a \in Of(t, "Audio") : i < a
       THEN "first" ELSE "late"

Protocol == INSTANCE TurnProtocol
              WITH stage <- [t \in Turns |-> StageOf(t)], text <- [t \in Turns |-> TextOf(t)],
                   mark <- [t \in Turns |-> MarkOf(t)]

(* Every step of a turn is a step of the viewer's protocol or invisible to *)
(* it: asked, speaking with rising seqs, closed, resting, in this order,   *)
(* and its text shown once, ahead of every sound and of the rest.          *)
ImplementsProtocol == Protocol!Spec

(* A reply the agent gave is shown, whatever the subagent, the translator, *)
(* the TTS manager and the settings do meanwhile, unless the reply itself  *)
(* kills its task: the analysis panics on a text it cannot cut.            *)
ReplyIsShown ==
  \A t \in Turns : pc[t] = "reply" ~> Of(t, "Text") # {} \/ pc[t] = "crashed"

(* A turn that began to speak closes what it opened: it reaches Idle, or   *)
(* its producer died and the dispatcher's safety net flagged the end, or   *)
(* its analysis died before anything was opened: no text, no sound, and    *)
(* no Idle either, only the echo of the question.                          *)
TurnEnds ==
  \A t \in Turns : Began(t) ~>
    \/ Of(t, "Idle") # {}
    \/ pc[t] = "panicked" /\ \E a \in Of(t, "Audio") : sent[t][a].last
    \/ pc[t] = "crashed" /\ \A i \in Idx(t) : sent[t][i].kind = "UserMessage"
=============================================================================
