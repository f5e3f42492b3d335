---------------------------- MODULE AvatarFanout ----------------------------
(***************************************************************************)
(* From the producers to the viewers: the broadcast channel of             *)
(* AvatarWsState (tokio's, a ring of Capacity events in which every        *)
(* receiver has its own position) and the socket task that serves each     *)
(* /ws/avatar client (handle_avatar_socket).  Events are numbered in the   *)
(* order in which they were sent.                                          *)
(***************************************************************************)
EXTENDS Naturals, Sequences

CONSTANTS
  Viewers,         \* /ws/avatar clients
  Capacity,        \* slots of the channel, 64 in the server
  MaxEvents,       \* events sent in one behaviour
  MaxConnections   \* times one client connects

ASSUME FanoutAssumption ==
  /\ Capacity \in Nat \ {0}
  /\ MaxEvents \in Nat /\ MaxConnections \in Nat

VARIABLES
  count,    \* events sent so far
  phase,    \* where the client's socket task is
  start,    \* the first event after its subscription
  next,     \* the receiver's position
  missed,   \* events its receiver was told it lagged behind
  got,      \* events written to its socket on this connection
  tries     \* connections of the client so far

fanout == <<count, phase, start, next, missed, got, tries>>

(* The oldest event the ring still holds.                                  *)
Oldest == IF count > Capacity THEN count - Capacity + 1 ELSE 1

(* event_tx.send: never blocks, overwrites the oldest event.               *)
Publish ==
  /\ count < MaxEvents
  /\ count' = count + 1
  /\ UNCHANGED <<phase, start, next, missed, got, tries>>

(* The socket task sends Connected and ModelInfo; the page is connected.   *)
Connect(v) ==
  /\ phase[v] = "away" /\ tries[v] < MaxConnections
  /\ phase' = [phase EXCEPT ![v] = "greeted"]
  /\ tries' = [tries EXCEPT ![v] = @ + 1]
  /\ got' = [got EXCEPT ![v] = <<>>]
  /\ missed' = [missed EXCEPT ![v] = 0]
  /\ UNCHANGED <<count, start, next>>

(* Where a new receiver starts: at the next event.                         *)
SubscribeAt == count + 1

(* Only then does the task subscribe.                                      *)
Subscribe(v) ==
  /\ phase[v] = "greeted"
  /\ phase' = [phase EXCEPT ![v] = "listening"]
  /\ start' = [start EXCEPT ![v] = count + 1]
  /\ next' = [next EXCEPT ![v] = SubscribeAt]
  /\ UNCHANGED <<count, missed, got, tries>>

(* recv() yields the next event, which is written to the socket.           *)
Receive(v) ==
  /\ phase[v] = "listening" /\ next[v] \in Oldest .. count
  /\ got' = [got EXCEPT ![v] = Append(@, next[v])]
  /\ next' = [next EXCEPT ![v] = @ + 1]
  /\ UNCHANGED <<count, phase, start, missed, tries>>

(* Seeded fault: a receiver that lagged starts over at the end.            *)
ResumeAt_End == count + 1

(* Where a receiver continues once it was told how much it missed.         *)
ResumeAt == Oldest

(* Seeded fault: the count of what was missed is that of what is left.     *)
Overwritten_Left(v) == count - Oldest + 1

(* How many events the receiver missed.                                    *)
Overwritten(v) == Oldest - next[v]

(* recv() yields Lagged(n): logged, and the receiver moves to the oldest   *)
(* event that is left.                                                     *)
Lag(v) ==
  /\ phase[v] = "listening" /\ next[v] < Oldest
  /\ missed' = [missed EXCEPT ![v] = @ + Overwritten(v)]
  /\ next' = [next EXCEPT ![v] = ResumeAt]
  /\ UNCHANGED <<count, phase, start, got, tries>>

(* The client closes or its connection breaks: the task ends.              *)
Disconnect(v) ==
  /\ phase[v] # "away"
  /\ phase' = [phase EXCEPT ![v] = "away"]
  /\ UNCHANGED <<count, start, next, missed, got, tries>>

FanoutInit ==
  /\ count = 0
  /\ phase = [v \in Viewers |-> "away"]
  /\ start = [v \in Viewers |-> 1]
  /\ next = [v \in Viewers |-> 1]
  /\ missed = [v \in Viewers |-> 0]
  /\ got = [v \in Viewers |-> <<>>]
  /\ tries = [v \in Viewers |-> 0]

SocketStep(v) == Subscribe(v) \/ Receive(v) \/ Lag(v)

FanoutNext ==
  \/ Publish
  \/ \E v \in Viewers : Connect(v) \/ SocketStep(v) \/ Disconnect(v)

FanoutSpec == FanoutInit /\ [][FanoutNext]_fanout

(* The socket task's select loop is polled whenever an event is there.     *)
FanoutFairSpec == FanoutSpec /\ \A v \in Viewers : WF_fanout(SocketStep(v))

-----------------------------------------------------------------------------
FanoutTypeOK ==
  /\ count \in 0 .. MaxEvents
  /\ phase \in [Viewers -> {"away", "greeted", "listening"}]
  /\ start \in [Viewers -> 1 .. MaxEvents + 1]
  /\ next \in [Viewers -> 1 .. MaxEvents + 1]
  /\ missed \in [Viewers -> 0 .. MaxEvents]
  /\ got \in [Viewers -> Seq(1 .. MaxEvents)]
  /\ tries \in [Viewers -> 0 .. MaxConnections]

Listening(v) == phase[v] = "listening"

(* A connection sees events in order, each at most once, and every event   *)
(* since its subscription is delivered, still to come or accounted for as  *)
(* lag: nothing disappears silently.                                       *)
InOrderAndAccounted ==
  \A v \in Viewers :
    /\ \A i, j \in DOMAIN got[v] : i < j => got[v][i] < got[v][j]
    /\ Listening(v) =>
         /\ \A i \in DOMAIN got[v] : start[v] <= got[v][i] /\ got[v][i] < next[v]
         /\ Len(got[v]) + missed[v] = next[v] - start[v]

(* Lag costs a viewer the oldest events, never the newest: whatever is     *)
(* still in the ring reaches it, and with it the frame flagged last and    *)
(* the Idle of the turn that was sent last.                                *)
NewestSurviveLag ==
  \A v \in Viewers : Listening(v) =>
    \A n \in start[v] .. count :
      n >= Oldest => n >= next[v] \/ \E i \in DOMAIN got[v] : got[v][i] = n

(* A viewer that stays gets the end of what was sent after it subscribed.  *)
ViewerCatchesUp ==
  \A v \in Viewers :
    Listening(v) /\ count = MaxEvents /\ start[v] <= MaxEvents ~>
      phase[v] = "away" \/ \E i \in DOMAIN got[v] : got[v][i] = MaxEvents
=============================================================================
