--------------------------- MODULE NativePlayback ---------------------------
(***************************************************************************)
(* From the broadcast Audio frames to the native sink: every Tauri window  *)
(* (the main one and the desktop-pet overlay) has its own WebSocket and    *)
(* its own page state, and each forwards each frame to the one audio       *)
(* worker of the host process.  useAvatarSocket.ts plays a frame at module *)
(* level, and where the Avatar page is mounted Avatar.tsx plays it again;  *)
(* both first stop the worker when a frame is of another turn than the one *)
(* before it.  The worker is meant to drop the repeats.                    *)
(*                                                                         *)
(* Every reply is spoken by a task of its own (chat.rs spawns them and     *)
(* nothing makes one wait for the other), so the frames of replies that    *)
(* overlap alternate on the broadcast, and the windows and the worker are  *)
(* switched back and forth between their turns.                            *)
(***************************************************************************)
EXTENDS AudioWorker

CONSTANTS
  Windows,    \* the webview windows
  TurnOrder,  \* the turns in the order in which their replies begin
  MaxToggles  \* times the user leaves or enters the Avatar page

ASSUME PlaybackAssumption ==
  /\ TurnOrder \in Seq(Turns)
  /\ Windows # {}
  /\ MaxToggles \in Nat

VARIABLES
  feed,        \* every Audio frame broadcast, in order
  cursor,      \* how many of them each window has taken
  moduleTurn,  \* currentNativeTurnId of each window's module
  hookTurn,    \* currentTurnRef of each window's Avatar page
  mounted,     \* the Avatar page is mounted in the window
  entered,     \* history: the page was entered since a frame of another turn came
  toggles,
  calls,       \* invoke calls of each window not yet handled by the worker
  aired        \* history: every chunk handed to a sink

window == <<cursor, moduleTurn, hookTurn, mounted, entered, toggles>>
pvars  == <<worker, feed, window, calls, aired>>

Call == [cmd : {"stop"}] \cup [cmd : {"play"}, chunk : Chunk]
StopCall    == [cmd |-> "stop"]
PlayCall(c) == [cmd |-> "play", chunk |-> c]

-----------------------------------------------------------------------------
(* A reply's frames have rising seqs and end with the one flagged last,    *)
(* which may be the empty terminator.  The bulk loop numbers the chunks    *)
(* before it knows which of them it can synthesise and sends nothing for   *)
(* one that fails, so that seqs may be missing anywhere.  The next frame   *)
(* is of any reply under way, or the first of the next one.                *)

Latest      == feed[Len(feed)]
Frames(t)   == {i \in DOMAIN feed : feed[i].turn = t}
TurnsOpened == {t \in Turns : Frames(t) # {}}
UnderWay    == {t \in TurnsOpened : \A i \in Frames(t) : ~feed[i].last}
NextTurn    == {TurnOrder[i] : i \in {j \in DOMAIN TurnOrder :
                  /\ TurnOrder[j] \notin TurnsOpened
                  /\ \A k \in 1 .. j - 1 : TurnOrder[k] \in TurnsOpened}}

Broadcast ==
  /\ \E t \in UnderWay \cup NextTurn, n \in Seqs, l \in BOOLEAN, len \in Lens :
       /\ \A i \in Frames(t) : feed[i].seq < n
       /\ (\A m \in Seqs : m <= n) => l
       /\ len = 0 => l
       /\ feed' = Append(feed, [turn |-> t, seq |-> n, last |-> l, len |-> len])
  /\ UNCHANGED <<worker, window, calls, aired>>

(* Seeded fault: a handler stops the worker for every frame.               *)
Forward_StopsAlways(known, f) == <<StopCall, PlayCall(f)>>

(* What a handler that last saw turn `known' invokes for a frame: stop if  *)
(* the turn is new to it, then play.                                       *)
Forward(known, f) ==
  IF known # f.turn THEN <<StopCall, PlayCall(f)>> ELSE <<PlayCall(f)>>

(* A window takes its next frame: ws.onmessage runs handleAudioFrame and   *)
(* then the subscribers' onAudio.                                          *)
Deliver(w) ==
  LET f == feed[cursor[w] + 1] IN
  /\ cursor[w] < Len(feed)
  /\ cursor' = [cursor EXCEPT ![w] = @ + 1]
  /\ moduleTurn' = [moduleTurn EXCEPT ![w] = f.turn]
  /\ entered' = [entered EXCEPT ![w] = @ /\ moduleTurn[w] = f.turn]
  /\ \/ /\ mounted[w]
        /\ hookTurn' = [hookTurn EXCEPT ![w] = f.turn]
        /\ calls' = [calls EXCEPT ![w] = @ \o Forward(moduleTurn[w], f) \o Forward(hookTurn[w], f)]
     \/ /\ ~mounted[w]
        /\ calls' = [calls EXCEPT ![w] = @ \o Forward(moduleTurn[w], f)]
        /\ UNCHANGED hookTurn
  /\ UNCHANGED <<worker, feed, mounted, toggles, aired>>

(* The user leaves the Avatar page or enters it: the page's refs start     *)
(* afresh, the module's state stays.                                       *)
Toggle(w) ==
  /\ toggles < MaxToggles
  /\ toggles' = toggles + 1
  /\ mounted' = [mounted EXCEPT ![w] = ~@]
  /\ hookTurn' = [hookTurn EXCEPT ![w] = NoTurn]
  /\ entered' = [entered EXCEPT ![w] = @ \/ ~mounted[w]]
  /\ UNCHANGED <<worker, feed, cursor, moduleTurn, calls, aired>>

Elements(s) == {s[i] : i \in DOMAIN s}

(* What a step of the worker handed to a sink.                             *)
NewlyFed ==
  IF worker'.turn = worker.turn /\ Len(worker'.sink) >= Len(worker.sink)
  THEN SubSeq(worker'.sink, Len(worker.sink) + 1, Len(worker'.sink))
  ELSE worker'.sink

(* The worker handles the oldest call of a window.                         *)
Handle(w) ==
  /\ calls[w] # <<>>
  /\ \/ Head(calls[w]).cmd = "stop" /\ Stop
     \/ Head(calls[w]).cmd = "play" /\ Play(Head(calls[w]).chunk)
  /\ calls' = [calls EXCEPT ![w] = Tail(@)]
  /\ aired' = aired \cup Elements(NewlyFed)
  /\ UNCHANGED <<feed, window>>

Expire ==
  /\ Deadline
  /\ aired' = aired \cup Elements(NewlyFed)
  /\ UNCHANGED <<feed, window, calls>>

PInit ==
  /\ Init
  /\ feed = <<>>
  /\ cursor = [w \in Windows |-> 0]
  /\ moduleTurn = [w \in Windows |-> NoTurn]
  /\ hookTurn = [w \in Windows |-> NoTurn]
  /\ mounted \in [Windows -> BOOLEAN]
  /\ entered = [w \in Windows |-> FALSE]
  /\ toggles = 0
  /\ calls = [w \in Windows |-> <<>>]
  /\ aired = {}

PNext ==
  \/ Broadcast
  \/ \E w \in Windows : Deliver(w) \/ Toggle(w) \/ Handle(w)
  \/ Expire

PSpec == PInit /\ [][PNext]_pvars

(* Frames are delivered, calls are handled, the deadline fires.            *)
PFairSpec ==
  PSpec /\ WF_pvars(Expire) /\ \A w \in Windows : WF_pvars(Deliver(w)) /\ WF_pvars(Handle(w))

-----------------------------------------------------------------------------
PTypeOK ==
  /\ TypeOK
  /\ feed \in Seq(Chunk)
  /\ cursor \in [Windows -> 0 .. Len(feed)]
  /\ moduleTurn \in [Windows -> Turns \cup {NoTurn}]
  /\ hookTurn \in [Windows -> Turns \cup {NoTurn}]
  /\ mounted \in [Windows -> BOOLEAN]
  /\ entered \in [Windows -> BOOLEAN]
  /\ toggles \in 0 .. MaxToggles
  /\ calls \in [Windows -> Seq(Call)]
  /\ aired \subseteq Chunk

(* Every window has taken every frame, the worker has handled every call.  *)
Settled ==
  /\ feed # <<>>
  /\ \A w \in Windows : cursor[w] = Len(feed) /\ calls[w] = <<>>

(* The frame and all after it are of one turn, that of the latest frame:   *)
(* nothing switched the windows to another turn since.                     *)
InRun(i) == \A j \in DOMAIN feed : j >= i => feed[j].turn = Latest.turn

(* The chunks with audio of the latest reply, from where it was last       *)
(* switched to: the whole reply, unless another one came in between.       *)
LatestRun   == {feed[i] : i \in {j \in DOMAIN feed : InRun(j) /\ feed[j].len > 0}}
LatestReply == {c \in Elements(feed) : c.turn = Latest.turn /\ c.len > 0}
Undivided   == \A i \in Frames(Latest.turn) : InRun(i)

(* In the order of broadcast, which is that of seq within a reply.         *)
Rising(s) == \A i, j \in DOMAIN s : i < j => s[i].seq < s[j].seq

(* All that was accepted since the last reset reached the sink: no sink    *)
(* allocation failed and nothing is held back.                             *)
NothingDropped == worker.accepted = worker.sink

(* Nobody entered the Avatar page since the latest reply was switched to.  *)
NotEntered == \A w \in Windows : ~entered[w]

(* However the frames of replies that overlap alternate, whatever chunks   *)
(* failed, however the windows' calls interleave, however far one window   *)
(* lags the other, and whichever of them stops the worker when: once all   *)
(* is settled, the sink was fed since its last reset every chunk of the    *)
(* latest run and nothing else, not even an older chunk of the same reply. *)
(* That is the latest reply whole if no other one came between its frames. *)
LatestReplyComplete ==
  Settled /\ NothingDropped /\ NotEntered =>
    /\ Elements(worker.sink) = LatestRun
    /\ Undivided => Elements(worker.sink) = LatestReply

(* With one window the latest run also plays in order, and leaving the     *)
(* page in the middle of it, or entering it before, does no harm.          *)
LatestReplyInOrder ==
  Settled /\ NothingDropped /\ NotEntered =>
    /\ Elements(worker.sink) = LatestRun
    /\ Undivided => Elements(worker.sink) = LatestReply
    /\ Rising(worker.sink)

(* However replies overlap and the page and the module stop the worker,    *)
(* and even when the server goes silent in the middle of a reply: every    *)
(* chunk of the latest run that was broadcast is in the end handed to a    *)
(* sink, unless no sink could be allocated for it.                         *)
LatestReplySounds ==
  <>[](feed # <<>> /\ NotEntered /\ worker.accepted = worker.sink \o worker.pending
         => LatestRun \subseteq aired)
=============================================================================
