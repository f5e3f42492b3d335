----------------------------- MODULE ChatPanel -----------------------------
(***************************************************************************)
(* The chat history of the main window (pages/Avatar.tsx).  A turn is      *)
(* typed in the main window or in the overlay; its user message, its text  *)
(* and its diagnostics come over the WebSocket, which may lose frames; the *)
(* window that typed it also gets the reply in its HTTP response, and a    *)
(* timer shows that one when the frame is late.                            *)
(*                                                                         *)
(* Callbacks of a window run one at a time, so each is one step.  Texts    *)
(* are compared, nothing else is done with them.  The turn field of a      *)
(* bubble is history: the code keeps the role, the text and the debug      *)
(* frame.                                                                  *)
(***************************************************************************)
EXTENDS Naturals, Sequences, FiniteSets, Functions

CONSTANTS
  Turns,    \* messages the user sends, in this order: 1 .. N
  Texts,    \* what user and agent may write
  Failed,   \* the text of an error bubble
  Null,     \* null
  MaxLost   \* frames the connection loses

ASSUME ChatAssumption ==
  /\ Turns \subseteq Nat
  /\ Null \notin Texts /\ Failed \notin Texts
  /\ MaxLost \in Nat

VARIABLES
  sent,     \* the turns sent so far, with the user's text and the window
  sending,  \* the main window awaits the response of its request
  http,     \* the HTTP response of a turn
  speak,    \* where process_speak is with a turn
  answer,   \* the agent's reply
  shown,    \* the text process_speak makes of it
  frames,   \* frames on their way to the main window
  lost,     \* history: the frames that got lost
  history,  \* the bubbles of the chat panel
  pending,  \* pendingHttpReplyRef
  fired,    \* httpFallbackFiredRef
  timers,   \* turns whose five second timer runs
  crossed   \* history: turns overlapped, or frames and response overtook each other

service == <<http, speak, answer, shown>>
panel   == <<history, pending, fired, timers>>
vars    == <<sent, sending, service, frames, lost, panel, crossed>>

Frame  == [kind : {"UserMessage", "Text", "Debug"}, turn : Turns]
Bubble == [role : {"user", "assistant"}, text : Texts \cup {Failed},
           turn : Turns, debug : Turns \cup {Null}]

TypeOK ==
  /\ DOMAIN sent \subseteq Turns
  /\ \A t \in DOMAIN sent : sent[t] \in [text : Texts, main : BOOLEAN]
  /\ sending \in BOOLEAN
  /\ http  \in [Turns -> {"none", "wait", "ok", "error", "done"}]
  /\ speak \in [Turns -> {"none", "agent", "text", "debug", "again", "done"}]
  /\ answer \in [Turns -> Texts \cup {Null}]
  /\ shown \in [Turns -> Texts \cup {Null}]
  /\ frames \in Seq(Frame)
  /\ lost \subseteq Frame /\ Cardinality(lost) <= MaxLost
  /\ history \in Seq(Bubble)
  /\ pending \in Texts \cup {Null}
  /\ fired \in Texts \cup {Null}
  /\ timers \subseteq Turns
  /\ crossed \in BOOLEAN

Init ==
  /\ sent = <<>> /\ sending = FALSE
  /\ http  = [t \in Turns |-> "none"]
  /\ speak = [t \in Turns |-> "none"]
  /\ answer = [t \in Turns |-> Null]
  /\ shown = [t \in Turns |-> Null]
  /\ frames = <<>> /\ lost = {}
  /\ history = <<>>
  /\ pending = Null /\ fired = Null /\ timers = {}
  /\ crossed = FALSE

-----------------------------------------------------------------------------
User(t, x)      == [role |-> "user", text |-> x, turn |-> t, debug |-> Null]
Assistant(t, x) == [role |-> "assistant", text |-> x, turn |-> t, debug |-> Null]

EndsIn(h, role, x) == h # <<>> /\ h[Len(h)].role = role /\ h[Len(h)].text = x

(* appendTurn: an assistant bubble that repeats the last one within twenty *)
(* seconds is dropped.                                                     *)
Repeats(h, b) == b.role = "assistant" /\ EndsIn(h, b.role, b.text)

AppendTurn(h, b) ==
  {Append(h, b)} \cup (IF Repeats(h, b) THEN {h} ELSE {})

InFlight(t) == \E i \in DOMAIN frames : frames[i].turn = t

(* The turn has nothing to come any more.                                  *)
Closed(t) ==
  /\ http[t] = "done" /\ t \notin timers
  /\ speak[t] \in {"none", "done"} /\ ~InFlight(t)

-----------------------------------------------------------------------------
(* handleSendChat up to its fetch; the overlay keeps no history.  /api/chat *)
(* echoes the message before it asks the agent.                             *)
Send(t, x, main) ==
  /\ t = Len(sent) + 1 /\ t \in Turns
  /\ main => ~sending
  /\ sent' = Append(sent, [text |-> x, main |-> main])
  /\ sending' = (sending \/ main)
  /\ http' = [http EXCEPT ![t] = "wait"]
  /\ speak' = [speak EXCEPT ![t] = "agent"]
  /\ history' = IF main THEN Append(history, User(t, x)) ELSE history
  /\ frames' = Append(frames, [kind |-> "UserMessage", turn |-> t])
  /\ crossed' = (crossed \/ \E u \in DOMAIN sent : ~Closed(u))
  /\ UNCHANGED <<answer, shown, lost, pending, fired, timers>>

(* The agent answers: the response goes out and process_speak is spawned.  *)
AgentAnswers(t) ==
  /\ speak[t] = "agent"
  /\ \E r, s \in Texts :
       answer' = [answer EXCEPT ![t] = r] /\ shown' = [shown EXCEPT ![t] = s]
  /\ http'  = [http EXCEPT ![t] = "ok"]
  /\ speak' = [speak EXCEPT ![t] = "text"]
  /\ UNCHANGED <<sent, sending, frames, lost, panel, crossed>>

(* The agent fails or times out: 502 or 504, and nothing is spoken.        *)
AgentFails(t) ==
  /\ speak[t] = "agent"
  /\ http'  = [http EXCEPT ![t] = "error"]
  /\ speak' = [speak EXCEPT ![t] = "none"]
  /\ UNCHANGED <<sent, sending, answer, shown, frames, lost, panel, crossed>>

(* process_speak shows its text once, then its diagnostics, and the latter *)
(* once more if it translated the text by parts.                           *)
SpeakStep(t, from, kind, to) ==
  /\ speak[t] = from
  /\ speak' = [speak EXCEPT ![t] = to]
  /\ frames' = Append(frames, [kind |-> kind, turn |-> t])
  /\ UNCHANGED <<sent, sending, http, answer, shown, lost, panel, crossed>>

SpeakText(t)  == SpeakStep(t, "text", "Text", "debug")
SpeakDebug(t) == \/ SpeakStep(t, "debug", "Debug", "again")
                 \/ SpeakStep(t, "again", "Debug", "done")
SpeakEnds(t)  ==
  /\ speak[t] = "again"
  /\ speak' = [speak EXCEPT ![t] = "done"]
  /\ UNCHANGED <<sent, sending, http, answer, shown, frames, lost, panel, crossed>>

-----------------------------------------------------------------------------
(* The response comes before the echo, or after the text.                  *)
Overtakes(t) ==
  \/ [kind |-> "UserMessage", turn |-> t] \in Range(frames)
  \/ speak[t] \in {"debug", "again", "done"} /\ [kind |-> "Text", turn |-> t] \notin Range(frames)

(* The response reaches the window that asked, and waits for the frame.    *)
HttpReply(t) ==
  /\ http[t] = "ok"
  /\ http' = [http EXCEPT ![t] = "done"]
  /\ IF sent[t].main
       THEN pending' = answer[t] /\ timers' = timers \cup {t} /\ sending' = FALSE
       ELSE UNCHANGED <<pending, timers, sending>>
  /\ crossed' = (crossed \/ Overtakes(t))
  /\ UNCHANGED <<sent, speak, answer, shown, frames, lost, history, fired>>

(* Seeded fault: the error text is left for the timer too.                 *)
HttpError_LeavesPending(t) ==
  /\ http[t] \in {"ok", "error"}
  /\ http' = [http EXCEPT ![t] = "done"]
  /\ IF sent[t].main
       THEN pending' = Failed /\ timers' = timers \cup {t} /\ sending' = FALSE
       ELSE UNCHANGED <<pending, timers, sending>>
  /\ crossed' = (crossed \/ Overtakes(t))
  /\ UNCHANGED <<sent, speak, answer, shown, frames, lost, history, fired>>

(* An error response, or a response that never came: the bubble says so at *)
(* once.                                                                   *)
HttpError(t) ==
  /\ http[t] \in {"ok", "error"}
  /\ http' = [http EXCEPT ![t] = "done"]
  /\ IF sent[t].main
       THEN history' \in AppendTurn(history, Assistant(t, Failed)) /\ sending' = FALSE
       ELSE UNCHANGED <<history, sending>>
  /\ crossed' = (crossed \/ Overtakes(t))
  /\ UNCHANGED <<sent, speak, answer, shown, frames, lost, pending, fired, timers>>

(* Five seconds later the reply is shown unless pendingHttpReplyRef says   *)
(* that the frame came first.                                              *)
Fallback(t) ==
  /\ t \in timers
  /\ timers' = timers \ {t}
  /\ IF pending = answer[t]
       THEN /\ pending' = Null /\ fired' = answer[t]
            /\ history' \in AppendTurn(history, Assistant(t, answer[t]))
       ELSE UNCHANGED <<pending, fired, history>>
  /\ UNCHANGED <<sent, sending, service, frames, lost, crossed>>

(* onUserMessage: the echo of what is already the last bubble is dropped.  *)
OnUserMessage(t) ==
  /\ history' = IF EndsIn(history, "user", sent[t].text) THEN history
                ELSE Append(history, User(t, sent[t].text))
  /\ UNCHANGED <<pending, fired, timers>>

(* Seeded fault: the frame does not call off the timer's reply.            *)
OnText_LeavesPending(t) ==
  /\ fired' = Null
  /\ IF fired # Null /\ EndsIn(history, "assistant", fired)
       THEN history' = [history EXCEPT ![Len(history)] = Assistant(t, shown[t])]
       ELSE history' \in AppendTurn(history, Assistant(t, shown[t]))
  /\ UNCHANGED <<pending, timers>>

(* Seeded fault: a frame that comes after the fallback is ignored.         *)
OnText_TooLate(t) ==
  /\ pending' = Null /\ fired' = Null
  /\ IF fired # Null THEN UNCHANGED history
     ELSE history' \in AppendTurn(history, Assistant(t, shown[t]))
  /\ UNCHANGED timers

(* onText: it takes the place of the fallback, or is appended.             *)
OnText(t) ==
  /\ pending' = Null /\ fired' = Null
  /\ \/ /\ fired = Null
        /\ history' \in AppendTurn(history, Assistant(t, shown[t]))
     \/ /\ fired # Null /\ EndsIn(history, "assistant", fired)
        /\ history' = [history EXCEPT ![Len(history)] = Assistant(t, shown[t])]
     \/ /\ fired # Null /\ history # <<>> /\ ~EndsIn(history, "assistant", fired)
        /\ history' = Append(history, Assistant(t, shown[t]))
  /\ UNCHANGED timers

(* Seeded fault: it goes to the first one.                                 *)
OnDebug_First(t) ==
  LET replies == {i \in DOMAIN history : history[i].role = "assistant"}
  IN /\ history' = [i \in DOMAIN history |->
                      IF i \in replies /\ \A j \in replies : i <= j
                      THEN [history[i] EXCEPT !.debug = t] ELSE history[i]]
     /\ UNCHANGED <<pending, fired, timers>>

(* onDebug: the frame goes to the last assistant bubble, whose ever it is. *)
OnDebug(t) ==
  LET replies == {i \in DOMAIN history : history[i].role = "assistant"}
  IN /\ history' = [i \in DOMAIN history |->
                      IF i \in replies /\ \A j \in replies : j <= i
                      THEN [history[i] EXCEPT !.debug = t] ELSE history[i]]
     /\ UNCHANGED <<pending, fired, timers>>

Deliver ==
  /\ frames # <<>>
  /\ frames' = Tail(frames)
  /\ LET f == Head(frames) IN
       \/ f.kind = "UserMessage" /\ OnUserMessage(f.turn)
       \/ f.kind = "Text" /\ OnText(f.turn)
       \/ f.kind = "Debug" /\ OnDebug(f.turn)
  /\ UNCHANGED <<sent, sending, service, lost, crossed>>

(* The connection lags or is down while a frame is broadcast.              *)
Lose ==
  /\ frames # <<>> /\ Cardinality(lost) < MaxLost
  /\ frames' = Tail(frames)
  /\ lost' = lost \cup {Head(frames)}
  /\ UNCHANGED <<sent, sending, service, panel, crossed>>

-----------------------------------------------------------------------------
TurnStep(t) == \/ AgentAnswers(t) \/ AgentFails(t) \/ SpeakText(t) \/ SpeakDebug(t)
               \/ SpeakEnds(t) \/ HttpReply(t) \/ HttpError(t) \/ Fallback(t)

Next ==
  \/ \E t \in Turns, x \in Texts, main \in BOOLEAN : Send(t, x, main)
  \/ \E t \in Turns : TurnStep(t)
  \/ Deliver \/ Lose

Spec == Init /\ [][Next]_vars

-----------------------------------------------------------------------------
Bubbles(t) == {i \in DOMAIN history : history[i].role = "assistant"
                                        /\ history[i].turn = t /\ history[i].text # Failed}
LostOf(t, kind) == [kind |-> kind, turn |-> t] \in lost

(* With the echo of an overlay's message its reply may look like a repeat. *)
Echoed(t) == sent[t].main \/ ~LostOf(t, "UserMessage")

(* As long as one turn is over before the next begins and its frames and    *)
(* its response come in order, the history never shows a message or a reply *)
(* twice and never in another order than it was said; an error bubble may   *)
(* precede the reply.                                                       *)
TurnsInOrder ==
  ~crossed =>
    \A i, j \in DOMAIN history : i < j =>
      \/ history[i].turn < history[j].turn
      \/ /\ history[i].turn = history[j].turn
         /\ history[i].role = "user" \/ history[i].text = Failed
         /\ history[j].role = "assistant"

(* "when WS Text arrives later, onText replaces our fallback", and "if the *)
(* WS dropped ... the user would otherwise see no reply at all": under the *)
(* same proviso a turn that is over shows the frame's text if the frame    *)
(* came, and the response's or its failure if not, for who asked.  One     *)
(* reply does go: a fallback whose frame got lost is what the next frame   *)
(* takes the place of, unless the echo of its turn stands in between.      *)
ShowsBestText ==
  ~crossed =>
    \A t \in DOMAIN sent : Closed(t) /\ speak[t] = "done" /\ Echoed(t) =>
      IF LostOf(t, "Text")
      THEN sent[t].main =>
             \/ \E i \in DOMAIN history :
                  /\ history[i].role = "assistant" /\ history[i].turn = t
                  /\ history[i].text \in {answer[t], Failed}
             \/ \E u \in DOMAIN sent : u > t /\ ~Echoed(u)
      ELSE \E i \in Bubbles(t) : history[i].text = shown[t]

(* The diagnostics of a turn hang on its own bubble, if text and echo came. *)
DebugOnItsBubble ==
  ~crossed =>
    \A i \in DOMAIN history : LET d == history[i].debug IN
      d # Null => d = history[i].turn \/ LostOf(d, "Text") \/ ~Echoed(d)
=============================================================================
