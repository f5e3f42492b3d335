------------------------ MODULE NativePlayback_proofs ------------------------
(***************************************************************************)
(* The audio worker keeps the chunks of a turn once each and in order, and *)
(* the latest run of a reply reaches its sink whole, for any turns, seqs,  *)
(* lengths and prebuffer, any overlap of the replies, any number of        *)
(* windows and any interleaving of their calls.                            *)
(***************************************************************************)
EXTENDS NativePlayback, SequenceTheorems, TLAPS

(***************************************************************************)
(* I.  The worker.                                                         *)
(***************************************************************************)

(* A reset leaves a well-typed record.                                     *)
LEMMA ResetType ==
  ASSUME NEW t \in Turns \cup {NoTurn}
  PROVE  Reset(t) \in WorkerType
  BY DEF Reset, WorkerType

(* A chunk may be queued in a well-typed record.                           *)
LEMMA QueueType ==
  ASSUME NEW s \in WorkerType, NEW c \in Chunk
  PROVE  /\ [s EXCEPT !.sink = Append(@, c), !.accepted = Append(@, c)] \in WorkerType
         /\ [s EXCEPT !.armed = TRUE, !.secs = @ + c.len,
                      !.pending = Append(@, c), !.accepted = Append(@, c)] \in WorkerType
<1>1. /\ Append(s.sink, c) \in Seq(Chunk)
      /\ Append(s.pending, c) \in Seq(Chunk)
      /\ Append(s.accepted, c) \in Seq(Chunk)
  BY DEF WorkerType
<1>2. s.secs + c.len \in Nat
  <2>1. s.secs \in Nat
    BY DEF WorkerType
  <2>2. c.len \in Nat
    BY WorkerAssumption DEF Chunk
  <2>3. QED
    BY <2>1, <2>2
<1>3. QED
  BY <1>1, <1>2 DEF WorkerType

(* Accepting a chunk keeps the record well-typed.                          *)
LEMMA AcceptType ==
  ASSUME NEW s \in WorkerType, NEW c \in Chunk
  PROVE  Accept(s, c) \in WorkerType
<1>1. Noted(s, c) \in WorkerType
  BY DEF Noted, WorkerType, Chunk
<1>2. QED
  BY <1>1, QueueType DEF Accept

(* So does starting the playback, whether or not the sink is allocated.    *)
LEMMA StartType ==
  ASSUME NEW s \in WorkerType, NEW ok \in BOOLEAN
  PROVE  Start(s, ok) \in WorkerType
<1>0. <<>> \in Seq(Chunk)
  OBVIOUS
<1>1. [s EXCEPT !.pending = <<>>] \in WorkerType
  BY <1>0 DEF WorkerType
<1>2. [s EXCEPT !.sink = s.pending, !.pending = <<>>, !.playing = TRUE] \in WorkerType
  BY <1>0 DEF WorkerType
<1>3. QED
  BY <1>1, <1>2 DEF Start

-----------------------------------------------------------------------------
(* What holds of the record between two commands.  The jitter buffer and   *)
(* the sink are never both in use, and each is the end of what was         *)
(* accepted; seen knows every seq accepted, which is why no chunk can be   *)
(* accepted twice.                                                         *)
Held(s) == IF s.playing THEN s.sink ELSE s.pending

Orderly(s) ==
  /\ s.playing => s.pending = <<>>
  /\ ~s.playing => s.sink = <<>>
  /\ EndsWith(s.accepted, Held(s))
  /\ \A i \in DOMAIN s.accepted :
       s.accepted[i].turn = s.turn /\ s.accepted[i].seq \in s.seen
  /\ \A i, j \in DOMAIN s.accepted : s.accepted[i].seq = s.accepted[j].seq => i = j

(* The buffer is kept only while it must be.                               *)
Expecting(s) ==
  s.pending # <<>> =>
    /\ ~s.playing /\ ~s.lastSeen
    /\ s.secs < Prebuffer
    /\ s.armed

(* Appending the same chunk to both keeps one the end of the other.        *)
LEMMA EndsWithAppend ==
  ASSUME NEW a \in Seq(Chunk), NEW q \in Seq(Chunk), NEW c \in Chunk, EndsWith(a, q)
  PROVE  EndsWith(Append(a, c), Append(q, c))
<1> DEFINE A == Append(a, c)
           Q == Append(q, c)
<1>1. Len(A) = Len(a) + 1 /\ Len(Q) = Len(q) + 1
  OBVIOUS
<1>2. Len(Q) <= Len(A)
  BY <1>1 DEF EndsWith
<1>3. ASSUME NEW i \in 1 .. Len(Q)
      PROVE  Q[i] = A[Len(A) - Len(Q) + i]
  <2>1. CASE i = Len(q) + 1
    BY <1>1, <2>1 DEF EndsWith
  <2>2. CASE i \in 1 .. Len(q)
    <3>1. Len(A) - Len(Q) + i = Len(a) - Len(q) + i
      BY <1>1
    <3>2. Len(a) - Len(q) + i \in 1 .. Len(a)
      BY <2>2 DEF EndsWith
    <3>3. Q[i] = q[i] /\ A[Len(a) - Len(q) + i] = a[Len(a) - Len(q) + i]
      BY <2>2, <3>2
    <3>4. QED
      BY <2>2, <3>1, <3>3 DEF EndsWith
  <2>3. Len(q) \in Nat
    OBVIOUS
  <2>4. i \in 1 .. Len(q) \/ i = Len(q) + 1
    BY <1>1, <2>3
  <2>5. QED
    BY <2>1, <2>2, <2>4
<1>4. QED
  BY <1>2, <1>3 DEF EndsWith

(* The empty sequence is the end of every sequence.                        *)
LEMMA EndsWithEmpty ==
  ASSUME NEW a \in Seq(Chunk)
  PROVE  EndsWith(a, <<>>)
  BY DEF EndsWith

(* A reset record is orderly.                                              *)
LEMMA ResetOrderly ==
  ASSUME NEW t \in Turns \cup {NoTurn}
  PROVE  Orderly(Reset(t)) /\ Expecting(Reset(t))
<1>1. EndsWith(<<>>, <<>>)
  BY DEF EndsWith
<1>2. QED
  BY <1>1 DEF Reset, Orderly, Held, Expecting

(* Accepting a chunk whose seq is new keeps the record orderly.            *)
LEMMA AcceptOrderly ==
  ASSUME NEW s \in WorkerType, NEW c \in Chunk,
         Orderly(s), s.turn = c.turn, ~Duplicate(s, c)
  PROVE  Orderly(Accept(s, c))
<1> DEFINE n == Accept(s, c)
<1>0. /\ s.accepted \in Seq(Chunk) /\ s.sink \in Seq(Chunk) /\ s.pending \in Seq(Chunk)
      /\ n \in WorkerType
  BY AcceptType DEF WorkerType
<1>1. /\ n.turn = s.turn /\ n.playing = s.playing
      /\ n.seen = s.seen \cup {c.seq}
  BY DEF Accept, Noted, WorkerType
<1>2. CASE c.len = 0
  BY <1>2 DEF Accept, Noted, Orderly, Held, WorkerType
<1>3. CASE c.len # 0
  <2>1. n.accepted = Append(s.accepted, c)
    BY <1>3 DEF Accept, Noted, WorkerType
  <2>2. Held(n) = Append(Held(s), c)
    BY <1>3 DEF Accept, Noted, Held, WorkerType
  <2>3. /\ n.playing => n.pending = <<>>
        /\ ~n.playing => n.sink = <<>>
    BY <1>3 DEF Accept, Noted, Orderly, WorkerType
  <2>4. EndsWith(n.accepted, Held(n))
    BY <1>0, <2>1, <2>2, EndsWithAppend DEF Orderly, Held
  <2>5. ASSUME NEW i \in DOMAIN n.accepted
        PROVE  n.accepted[i].turn = n.turn /\ n.accepted[i].seq \in n.seen
    <3>1. CASE i = Len(s.accepted) + 1
      BY <1>0, <1>1, <2>1, <3>1
    <3>2. CASE i \in DOMAIN s.accepted
      BY <1>0, <1>1, <2>1, <3>2 DEF Orderly
    <3>3. QED
      BY <1>0, <2>1, <3>1, <3>2
  <2>6. ASSUME NEW i \in DOMAIN n.accepted, NEW j \in DOMAIN n.accepted,
               n.accepted[i].seq = n.accepted[j].seq
        PROVE  i = j
    <3>1. \A k \in DOMAIN s.accepted :
             n.accepted[k] = s.accepted[k] /\ s.accepted[k].seq # c.seq
      BY <1>0, <2>1 DEF Orderly, Duplicate
    <3>2. n.accepted[Len(s.accepted) + 1] = c
      BY <1>0, <2>1
    <3>3. \A k \in DOMAIN n.accepted : k \in DOMAIN s.accepted \/ k = Len(s.accepted) + 1
      BY <1>0, <2>1
    <3>4. QED
      BY <2>6, <3>1, <3>2, <3>3 DEF Orderly
  <2>7. QED
    BY <2>3, <2>4, <2>5, <2>6 DEF Orderly
<1>4. QED
  BY <1>2, <1>3

(* Starting the playback moves the buffer to the sink or drops it.         *)
LEMMA StartOrderly ==
  ASSUME NEW s \in WorkerType, NEW ok \in BOOLEAN, Orderly(s), ~s.playing
  PROVE  Orderly(Start(s, ok)) /\ Start(s, ok).pending = <<>>
<1>1. s.accepted \in Seq(Chunk)
  BY DEF WorkerType
<1>2. CASE s.pending = <<>>
  BY <1>2 DEF Start
<1>3. CASE s.pending # <<>> /\ ok
  BY <1>3 DEF Start, Orderly, Held, WorkerType
<1>4. CASE s.pending # <<>> /\ ~ok
  BY <1>1, <1>4, EndsWithEmpty DEF Start, Orderly, Held, WorkerType
<1>5. QED
  BY <1>2, <1>3, <1>4

(* A chunk that leaves the prebuffer condition false leaves the buffer     *)
(* expecting.                                                              *)
LEMMA AcceptExpecting ==
  ASSUME NEW s \in WorkerType, NEW c \in Chunk, NEW expired \in BOOLEAN,
         Orderly(s), Expecting(s),
         Accept(s, c).playing \/ ~Ready(Accept(s, c), expired)
  PROVE  Expecting(Accept(s, c))
<1> DEFINE n == Accept(s, c)
<1>1. n \in WorkerType
  BY AcceptType
<1>2. n.playing = s.playing
  BY DEF Accept, Noted, WorkerType
<1>3. CASE n.playing
  <2>1. n.pending = s.pending
    BY <1>2, <1>3 DEF Accept, Noted, WorkerType
  <2>2. QED
    BY <1>2, <1>3, <2>1 DEF Orderly, Expecting
<1>4. CASE ~n.playing
  <2>1. ~n.lastSeen /\ ~(n.secs >= Prebuffer)
    BY <1>4 DEF Ready
  <2>2. n.secs < Prebuffer
    BY <1>1, <2>1, WorkerAssumption DEF WorkerType
  <2>3. n.pending # <<>> => n.armed
    BY <1>2, <1>4 DEF Accept, Noted, Expecting, WorkerType
  <2>4. QED
    BY <1>4, <2>1, <2>2, <2>3 DEF Expecting
<1>5. QED
  BY <1>3, <1>4

(* The inductive invariant.                                                *)
WorkerInv == worker \in WorkerType /\ Orderly(worker) /\ Expecting(worker)

(* A command keeps it, whatever the clock and the sink allocation do.      *)
LEMMA PlayKeepsWorker ==
  ASSUME NEW c \in Chunk, WorkerInv, Play(c)
  PROVE  WorkerInv'
<1> DEFINE base == IF worker.turn = c.turn THEN worker ELSE Reset(c.turn)
           next == Accept(base, c)
<1>1. base \in WorkerType /\ Orderly(base) /\ Expecting(base) /\ base.turn = c.turn
  <2>1. CASE worker.turn = c.turn
    BY <2>1 DEF WorkerInv
  <2>2. CASE worker.turn # c.turn
    BY <2>2, ResetType, ResetOrderly DEF Chunk, Reset
  <2>3. QED
    BY <2>1, <2>2
<1>2. CASE Duplicate(base, c)
  BY <1>1, <1>2 DEF Play, WorkerInv
<1>3. CASE ~Duplicate(base, c)
  <2>1. PICK expired \in BOOLEAN, ok \in BOOLEAN :
          worker' = IF ~next.playing /\ Ready(next, expired) THEN Start(next, ok) ELSE next
    BY <1>3 DEF Play
  <2>2. next \in WorkerType /\ Orderly(next)
    BY <1>1, <1>3, AcceptType, AcceptOrderly
  <2>3. CASE ~next.playing /\ Ready(next, expired)
    <3>1. worker' = Start(next, ok)
      BY <2>1, <2>3
    <3> HIDE DEF next
    <3>2. /\ Start(next, ok) \in WorkerType
          /\ Orderly(Start(next, ok))
          /\ Expecting(Start(next, ok))
      BY <2>2, <2>3, StartType, StartOrderly DEF Expecting
    <3>3. QED
      BY <3>1, <3>2 DEF WorkerInv
  <2>4. CASE next.playing \/ ~Ready(next, expired)
    <3>1. worker' = next
      BY <2>1, <2>4
    <3>2. Expecting(next)
      BY <1>1, <2>4, AcceptExpecting
    <3>3. QED
      BY <2>2, <3>1, <3>2 DEF WorkerInv
  <2>5. QED
    BY <2>3, <2>4
<1>4. QED
  BY <1>2, <1>3

(* The invariant holds of every behaviour.                                 *)
THEOREM WorkerInvariance == Spec => []WorkerInv
<1>1. Init => WorkerInv
  BY ResetType, ResetOrderly DEF Init, WorkerInv
<1>2. WorkerInv /\ [Next]_worker => WorkerInv'
  <2> SUFFICES ASSUME WorkerInv, [Next]_worker
               PROVE  WorkerInv'
    OBVIOUS
  <2>1. CASE Stop
    BY <2>1, ResetType, ResetOrderly DEF Stop, WorkerInv
  <2>2. ASSUME NEW c \in Chunk, Play(c)
        PROVE  WorkerInv'
    BY <2>2, PlayKeepsWorker
  <2>3. CASE Deadline
    <3>1. PICK ok \in BOOLEAN : worker' = Start(worker, ok)
      BY <2>3 DEF Deadline
    <3>2. ~worker.playing
      BY <2>3 DEF Deadline, WaitsForDeadline
    <3>3. QED
      BY <3>1, <3>2, StartType, StartOrderly DEF WorkerInv, Expecting
  <2>4. CASE UNCHANGED worker
    BY <2>4 DEF WorkerInv
  <2>5. QED
    BY <2>1, <2>2, <2>3, <2>4 DEF Next
<1>3. QED
  BY <1>1, <1>2, PTL DEF Spec

(* The locals of run_audio_worker keep their types.                        *)
THEOREM WorkerTypeCorrect == Spec => []TypeOK
<1>1. WorkerInv => TypeOK
  BY DEF WorkerInv, TypeOK
<1>2. QED
  BY <1>1, WorkerInvariance, PTL

(* In terms of what is fed and held back.                                  *)
LEMMA HeldInTurn == WorkerInv => HeldInOrder
<1> SUFFICES ASSUME WorkerInv
             PROVE  HeldInOrder
  OBVIOUS
<1>1. worker.sink \in Seq(Chunk) /\ worker.pending \in Seq(Chunk)
  BY DEF WorkerInv, WorkerType
<1>2. worker.sink \o worker.pending = Held(worker)
  BY <1>1, ConcatEmptySeq DEF WorkerInv, Orderly, Held
<1>3. QED
  BY <1>2 DEF WorkerInv, Orderly, HeldInOrder

(* In terms of the deadline.                                               *)
LEMMA HeldOnly == WorkerInv => HeldOnlyWhileExpecting
BY DEF WorkerInv, Expecting, HeldOnlyWhileExpecting, WaitsForDeadline

(* What is fed and held back is the current turn's, once each, in order of *)
(* arrival: reset_turn!, seen_chunks and pending of run_audio_worker.      *)
THEOREM OrderCorrect == Spec => []HeldInOrder
BY HeldInTurn, WorkerInvariance, PTL

(* The jitter buffer holds audio back only while more is expected, less    *)
(* than PREBUFFER_SECS is in hand and its deadline runs.                   *)
THEOREM BufferCorrect == Spec => []HeldOnlyWhileExpecting
BY HeldOnly, WorkerInvariance, PTL

(* Both together, as the composition with the windows checks it.           *)
THEOREM HoldingCorrect == Spec => []HeldRightly
BY OrderCorrect, BufferCorrect, PTL DEF HeldRightly

-----------------------------------------------------------------------------
(***************************************************************************)
(* II.  From the broadcast to the sink.                                    *)
(***************************************************************************)
Newest == Latest.turn

(* The broadcast: the seqs of a turn rise.                                 *)
FeedOrderly ==
  /\ feed \in Seq(Chunk)
  /\ \A i, j \in DOMAIN feed : i < j /\ feed[i].turn = feed[j].turn => feed[i].seq < feed[j].seq

(* What a window has taken, and what its module and its page remember.     *)
WindowsOK ==
  /\ cursor \in [Windows -> 0 .. Len(feed)]
  /\ moduleTurn \in [Windows -> Turns \cup {NoTurn}] /\ hookTurn \in [Windows -> Turns \cup {NoTurn}]
  /\ mounted \in [Windows -> BOOLEAN] /\ entered \in [Windows -> BOOLEAN]
  /\ calls \in [Windows -> Seq(Call)]
  /\ \A w \in Windows :
       /\ moduleTurn[w] = IF cursor[w] = 0 THEN NoTurn ELSE feed[cursor[w]].turn
       /\ \A p \in DOMAIN calls[w] :
            calls[w][p].cmd = "play" => \E i \in 1 .. cursor[w] : calls[w][p].chunk = feed[i]

(* What the worker has taken is from the broadcast, and a chunk with audio *)
(* whose seq it has noted is among it.                                     *)
WorkerOK ==
  /\ WorkerInv
  /\ \A n \in worker.seen : \E i \in DOMAIN feed : feed[i].turn = worker.turn /\ feed[i].seq = n
  /\ \A i \in DOMAIN worker.accepted :
       worker.accepted[i].len > 0 /\ \E j \in DOMAIN feed : worker.accepted[i] = feed[j]
  /\ \A i \in DOMAIN feed :
       feed[i].turn = worker.turn /\ feed[i].seq \in worker.seen /\ feed[i].len > 0
         => \E j \in DOMAIN worker.accepted : worker.accepted[j] = feed[i]

(* A call after which the worker has nothing of the latest turn.           *)
Clears(c) == c.cmd = "play" => c.chunk.turn # Newest

(* The window w plays the frame i, or stops the worker, in one of its      *)
(* calls after the p-th.                                                   *)
PlaysAfter(w, p, i) == \E q \in DOMAIN calls[w] : q > p /\ calls[w][q] = PlayCall(feed[i])
StopsAfter(w, p)    == \E q \in DOMAIN calls[w] : q > p /\ calls[w][q] = StopCall

(* The window has taken a frame of the latest run.                         *)
Reached(w) == \E i \in 1 .. cursor[w] : InRun(i)

(* Unless its page was entered in the middle of the latest run, a window   *)
(* whose calls yet clear the worker plays after that all it has taken of   *)
(* the run; and its page then knows the turn its module knows.             *)
Resumes(w) ==
  Reached(w) /\ ~entered[w] =>
    /\ mounted[w] => hookTurn[w] = Newest
    /\ \A p \in DOMAIN calls[w], i \in 1 .. cursor[w] :
         Clears(calls[w][p]) /\ InRun(i) => PlaysAfter(w, p, i)

(* A frame of the latest run is noted by the worker, or a window has yet   *)
(* to take it or to play it.                                               *)
Covered(i) ==
  \/ \E w \in Windows : cursor[w] < i \/ PlaysAfter(w, 0, i)
  \/ worker.turn = Newest /\ feed[i].seq \in worker.seen

Calm == \A w \in Windows : Reached(w) => ~entered[w]

Coverage ==
  /\ \A w \in Windows : Resumes(w)
  /\ Calm => \A i \in DOMAIN feed : InRun(i) => Covered(i)

(* What a window yet plays from before the latest run, it stops again: it  *)
(* stops the worker when it takes the run's first frame.                   *)
Purges(w) ==
  Reached(w) => \A p \in DOMAIN calls[w], i \in DOMAIN feed :
    ~InRun(i) /\ calls[w][p] = PlayCall(feed[i]) => StopsAfter(w, p)

(* And while the worker holds a chunk from before the run, a window will.  *)
WillStop(w) == Reached(w) => StopsAfter(w, 0)
HoldsOld ==
  \E k \in DOMAIN worker.accepted, i \in DOMAIN feed : ~InRun(i) /\ worker.accepted[k] = feed[i]

Freshness ==
  /\ \A w \in Windows : Purges(w)
  /\ HoldsOld => \E w \in Windows : WillStop(w)

Playback ==
  /\ FeedOrderly /\ WindowsOK /\ WorkerOK
  /\ aired \subseteq Chunk /\ toggles \in 0 .. MaxToggles
  /\ feed # <<>> => Coverage
  /\ Freshness
-----------------------------------------------------------------------------
(* The two kinds of calls.                                                 *)
LEMMA CallKinds ==
  /\ StopCall \in Call /\ StopCall.cmd = "stop"
  /\ \A c \in Chunk : PlayCall(c) \in Call
  /\ \A c : PlayCall(c).cmd = "play" /\ PlayCall(c).chunk = c /\ PlayCall(c) # StopCall
  /\ \A k \in Call : \/ k = StopCall
                     \/ k.cmd = "play" /\ k.chunk \in Chunk /\ k = PlayCall(k.chunk)
BY DEF Call, StopCall, PlayCall

(* A frame of the broadcast.                                               *)
LEMMA FrameIs ==
  ASSUME feed \in Seq(Chunk), NEW i \in DOMAIN feed
  PROVE  /\ i \in Nat /\ i >= 1 /\ i <= Len(feed) /\ feed[i] \in Chunk /\ feed[i].turn \in Turns
         /\ feed[i].seq \in Seqs /\ feed[i].seq \in Nat /\ feed[i].len \in Nat
<1>1. i \in 1 .. Len(feed) /\ feed[i] \in Chunk /\ Len(feed) \in Nat
  OBVIOUS
<1>2. /\ feed[i].turn \in Turns /\ feed[i].seq \in Seqs /\ feed[i].len \in Lens
  BY <1>1 DEF Chunk
<1>3. feed[i].seq \in Nat /\ feed[i].len \in Nat
  BY <1>2, WorkerAssumption
<1>4. i \in Nat /\ i >= 1 /\ i <= Len(feed)
  BY <1>1
<1> QED BY <1>1, <1>2, <1>3, <1>4

(* What Play does to what the worker knows.                                *)
LEMMA PlayNotes ==
  ASSUME WorkerInv, NEW c \in Chunk, Play(c)
  PROVE  /\ worker'.turn = c.turn
         /\ worker.turn = c.turn /\ c.seq \in worker.seen => worker' = worker
         /\ worker.turn = c.turn /\ c.seq \notin worker.seen =>
              /\ worker'.seen = worker.seen \cup {c.seq}
              /\ worker'.accepted = IF c.len = 0 THEN worker.accepted ELSE Append(worker.accepted, c)
         /\ worker.turn # c.turn =>
              /\ worker'.seen = {c.seq}
              /\ worker'.accepted = IF c.len = 0 THEN <<>> ELSE Append(<<>>, c)
<1> DEFINE base == IF worker.turn = c.turn THEN worker ELSE Reset(c.turn)
           next == Accept(base, c)
<1>1. /\ base \in WorkerType /\ base.turn = c.turn
      /\ worker.turn = c.turn => base = worker
      /\ worker.turn # c.turn => base.seen = {} /\ base.accepted = <<>>
  BY ResetType DEF WorkerInv, Reset, Chunk
<1>2. CASE Duplicate(base, c)
  <2>1. worker' = base
    BY <1>2 DEF Play
  <2> QED BY <1>1, <1>2, <2>1 DEF Duplicate
<1>3. CASE ~Duplicate(base, c)
  <2>1. PICK expired \in BOOLEAN, ok \in BOOLEAN :
          worker' = IF ~next.playing /\ Ready(next, expired) THEN Start(next, ok) ELSE next
    BY <1>3 DEF Play
  <2> HIDE DEF base
  <2>2. /\ next \in WorkerType /\ next.turn = base.turn /\ next.seen = base.seen \cup {c.seq}
        /\ next.accepted = IF c.len = 0 THEN base.accepted ELSE Append(base.accepted, c)
    <3>1. next \in WorkerType
      BY <1>1, AcceptType
    <3>2. next.turn = base.turn /\ next.seen = base.seen \cup {c.seq}
      BY <1>1 DEF Accept, Noted, WorkerType
    <3>3. next.accepted = IF c.len = 0 THEN base.accepted ELSE Append(base.accepted, c)
      BY <1>1 DEF Accept, Noted, WorkerType
    <3> QED BY <3>1, <3>2, <3>3
  <2> HIDE DEF next
  <2>3. /\ worker'.turn = next.turn /\ worker'.seen = next.seen /\ worker'.accepted = next.accepted
    BY <2>1, <2>2 DEF Start, WorkerType
  <2>4. c.seq \notin base.seen
    BY <1>3 DEF Duplicate
  <2> QED BY <1>1, <2>2, <2>3, <2>4
<1> QED BY <1>2, <1>3

(* The deadline only moves the buffer.                                     *)
LEMMA DeadlineKeeps ==
  ASSUME WorkerInv, Deadline
  PROVE  /\ WorkerInv'
         /\ worker'.turn = worker.turn /\ worker'.seen = worker.seen
         /\ worker'.accepted = worker.accepted
<1>1. PICK ok \in BOOLEAN : worker' = Start(worker, ok)
  BY DEF Deadline
<1>2. ~worker.playing
  BY DEF Deadline, WaitsForDeadline
<1>3. WorkerInv'
  BY <1>1, <1>2, StartType, StartOrderly DEF WorkerInv, Expecting
<1>4. /\ worker'.turn = worker.turn /\ worker'.seen = worker.seen
      /\ worker'.accepted = worker.accepted
  BY <1>1 DEF Start, WorkerInv, WorkerType
<1> QED BY <1>3, <1>4

(* A played chunk of the broadcast is noted as one.                        *)
LEMMA PlayKeepsOK ==
  ASSUME FeedOrderly, WorkerOK, NEW j \in DOMAIN feed, Play(feed[j]), UNCHANGED feed
  PROVE  WorkerOK' /\ worker'.turn = feed[j].turn /\ feed[j].seq \in worker'.seen
         /\ (worker.turn = feed[j].turn => worker.seen \subseteq worker'.seen)
<1>t. feed \in Seq(Chunk) /\ WorkerInv /\ worker.accepted \in Seq(Chunk)
  BY DEF FeedOrderly, WorkerOK, WorkerInv, WorkerType
<1> DEFINE c == feed[j]
<1>c. c \in Chunk /\ Play(c) /\ c.len \in Nat
  BY <1>t, FrameIs
<1>u. \A i \in DOMAIN feed : feed[i].turn = c.turn /\ feed[i].seq = c.seq => feed[i] = c
  <2> SUFFICES ASSUME NEW i \in DOMAIN feed, feed[i].turn = c.turn, feed[i].seq = c.seq
               PROVE  i = j
    OBVIOUS
  <2>1. i \in Nat /\ j \in Nat /\ feed[i].seq \in Nat /\ feed[j].seq \in Nat
    BY <1>t, FrameIs
  <2>2. ~(i < j) /\ ~(j < i)
    BY <2>1 DEF FeedOrderly
  <2> QED BY <2>1, <2>2
<1>i. WorkerInv'
  BY <1>c, <1>t, PlayKeepsWorker
<1>n. /\ worker'.turn = c.turn
      /\ worker.turn = c.turn /\ c.seq \in worker.seen => worker' = worker
      /\ worker.turn = c.turn /\ c.seq \notin worker.seen =>
           /\ worker'.seen = worker.seen \cup {c.seq}
           /\ worker'.accepted = IF c.len = 0 THEN worker.accepted ELSE Append(worker.accepted, c)
      /\ worker.turn # c.turn =>
           /\ worker'.seen = {c.seq}
           /\ worker'.accepted = IF c.len = 0 THEN <<>> ELSE Append(<<>>, c)
  BY <1>c, <1>t, PlayNotes
<1>d. j \in DOMAIN feed /\ feed[j] = c /\ feed' = feed
  OBVIOUS
<1> HIDE DEF c
<1>1. CASE worker.turn = c.turn /\ c.seq \in worker.seen
  BY <1>1, <1>n, <1>d DEF WorkerOK, WorkerInv
<1>2. CASE worker.turn = c.turn /\ c.seq \notin worker.seen
  <2>1. /\ worker'.seen = worker.seen \cup {c.seq} /\ worker'.turn = c.turn
        /\ worker'.accepted = IF c.len = 0 THEN worker.accepted ELSE Append(worker.accepted, c)
    BY <1>2, <1>n
  <2>2. \A n \in worker'.seen : \E i \in DOMAIN feed : feed[i].turn = worker'.turn /\ feed[i].seq = n
    BY <1>2, <2>1, <1>d DEF WorkerOK
  <2>3. CASE c.len = 0
    <3>1. worker'.accepted = worker.accepted
      BY <2>1, <2>3
    <3>2. \A i \in DOMAIN feed :
            feed[i].turn = worker'.turn /\ feed[i].seq \in worker'.seen /\ feed[i].len > 0
              => \E l \in DOMAIN worker.accepted : worker.accepted[l] = feed[i]
      BY <1>2, <2>1, <2>3, <1>u DEF WorkerOK
    <3>3. \A i \in DOMAIN worker.accepted :
            worker.accepted[i].len > 0 /\ \E l \in DOMAIN feed : worker.accepted[i] = feed[l]
      BY DEF WorkerOK
    <3>4. WorkerOK'
      BY <1>i, <1>d, <2>2, <3>1, <3>2, <3>3 DEF WorkerOK
    <3> QED BY <1>2, <1>d, <2>1, <3>4
  <2>4. CASE c.len # 0
    <3> DEFINE a == worker.accepted  b == worker'.accepted
    <3>1. /\ b = Append(a, c) /\ Len(b) = Len(a) + 1 /\ DOMAIN b = 1 .. Len(a) + 1
          /\ b[Len(a) + 1] = c /\ \A l \in DOMAIN a : l \in DOMAIN b /\ b[l] = a[l]
          /\ \A l \in DOMAIN b : l \in DOMAIN a \/ l = Len(a) + 1
          /\ Len(a) + 1 \in DOMAIN b
      BY <2>1, <2>4, <1>t, <1>c, <1>d
    <3> HIDE DEF a, b
    <3>2. \A i \in DOMAIN b : b[i].len > 0 /\ \E l \in DOMAIN feed : b[i] = feed[l]
      <4>1. \A i \in DOMAIN a : a[i].len > 0 /\ \E l \in DOMAIN feed : a[i] = feed[l]
        BY DEF a, WorkerOK
      <4>2. c.len > 0
        BY <2>4, <1>c, <1>d
      <4> QED BY <3>1, <4>1, <4>2, <1>d
    <3>3. \A i \in DOMAIN feed :
            feed[i].turn = worker'.turn /\ feed[i].seq \in worker'.seen /\ feed[i].len > 0
              => \E l \in DOMAIN b : b[l] = feed[i]
      <4>1. \A i \in DOMAIN feed :
              feed[i].turn = worker.turn /\ feed[i].seq \in worker.seen /\ feed[i].len > 0
                => \E l \in DOMAIN a : a[l] = feed[i]
        BY DEF a, WorkerOK
      <4> QED BY <1>2, <2>1, <3>1, <4>1, <1>u
    <3>4. b = worker'.accepted
      BY DEF b
    <3> QED BY <1>2, <1>i, <1>d, <2>1, <2>2, <3>2, <3>3, <3>4 DEF WorkerOK
  <2> QED BY <2>3, <2>4
<1>3. CASE worker.turn # c.turn
  <2>1. /\ worker'.seen = {c.seq} /\ worker'.turn = c.turn
        /\ worker'.accepted = IF c.len = 0 THEN <<>> ELSE Append(<<>>, c)
    BY <1>3, <1>n
  <2>2. \A n \in worker'.seen : \E i \in DOMAIN feed : feed[i].turn = worker'.turn /\ feed[i].seq = n
    BY <2>1, <1>d
  <2>3. \A i \in DOMAIN feed : feed[i].turn = worker'.turn /\ feed[i].seq \in worker'.seen => feed[i] = c
    BY <2>1, <1>u
  <2>4. CASE c.len = 0
    <3>1. worker'.accepted = <<>>
      BY <2>1, <2>4
    <3> QED BY <1>i, <1>d, <1>3, <2>1, <2>2, <2>3, <2>4, <3>1 DEF WorkerOK
  <2>5. CASE c.len # 0
    <3> DEFINE b == worker'.accepted
    <3>1. DOMAIN b = {1} /\ b[1] = c
      BY <2>1, <2>5
    <3>2. c.len > 0
      BY <2>5, <1>c, <1>d
    <3> HIDE DEF b
    <3>3. \A i \in DOMAIN b : b[i].len > 0 /\ \E l \in DOMAIN feed : b[i] = feed[l]
      BY <3>1, <3>2, <1>d
    <3>4. \A i \in DOMAIN feed :
            feed[i].turn = worker'.turn /\ feed[i].seq \in worker'.seen /\ feed[i].len > 0
              => \E l \in DOMAIN b : b[l] = feed[i]
      BY <2>3, <3>1
    <3>5. b = worker'.accepted
      BY DEF b
    <3> QED BY <1>i, <1>d, <1>3, <2>1, <2>2, <3>3, <3>4, <3>5 DEF WorkerOK
  <2> QED BY <2>4, <2>5
<1> QED BY <1>1, <1>2, <1>3

-----------------------------------------------------------------------------
(* The queue r is the queue q followed by calls for the frame f, the last  *)
(* of which plays it; none of them stops the worker if clean, one if stop.  *)
Extended(q, r, f, clean, stop) ==
  /\ r \in Seq(Call) /\ Len(q) < Len(r)
  /\ \A p \in DOMAIN q : p \in DOMAIN r /\ r[p] = q[p]
  /\ \A p \in DOMAIN r : p \notin DOMAIN q => r[p] \in {StopCall, PlayCall(f)}
  /\ r[Len(r)] = PlayCall(f)
  /\ clean => \A p \in DOMAIN r : p \notin DOMAIN q => r[p] = PlayCall(f)
  /\ stop => \E p \in DOMAIN r : p \notin DOMAIN q /\ r[p] = StopCall

(* What one handler invokes.                                               *)
LEMMA ForwardExtends ==
  ASSUME NEW q \in Seq(Call), NEW f \in Chunk, NEW known
  PROVE  Extended(q, q \o Forward(known, f), f, known = f.turn, known # f.turn)
<1>0. StopCall \in Call /\ PlayCall(f) \in Call
  BY CallKinds
<1>1. CASE known = f.turn
  <2> DEFINE r == q \o <<PlayCall(f)>>
  <2>1. /\ r \in Seq(Call) /\ Len(r) = Len(q) + 1 /\ r[Len(q) + 1] = PlayCall(f)
        /\ \A p \in 1 .. Len(q) : r[p] = q[p]
    BY <1>0
  <2>2. q \o Forward(known, f) = r
    BY <1>1 DEF Forward
  <2>3. DOMAIN q = 1 .. Len(q) /\ DOMAIN r = 1 .. Len(q) + 1 /\ Len(q) \in Nat
    BY <2>1
  <2> HIDE DEF r
  <2> QED BY <1>1, <2>1, <2>2, <2>3 DEF Extended
<1>2. CASE known # f.turn
  <2> DEFINE r == q \o <<StopCall, PlayCall(f)>>
  <2>1. /\ r \in Seq(Call) /\ Len(r) = Len(q) + 2
        /\ r[Len(q) + 1] = StopCall /\ r[Len(q) + 2] = PlayCall(f)
        /\ \A p \in 1 .. Len(q) : r[p] = q[p]
    BY <1>0
  <2>2. q \o Forward(known, f) = r
    BY <1>2 DEF Forward
  <2>3. /\ DOMAIN q = 1 .. Len(q) /\ DOMAIN r = 1 .. Len(q) + 2 /\ Len(q) \in Nat
        /\ \A p \in DOMAIN r : p \in DOMAIN q \/ p = Len(q) + 1 \/ p = Len(q) + 2
        /\ Len(q) + 1 \in DOMAIN r /\ Len(q) + 1 \notin DOMAIN q
    BY <2>1
  <2> HIDE DEF r
  <2> QED BY <1>2, <2>1, <2>2, <2>3 DEF Extended
<1> QED BY <1>1, <1>2

(* What a window makes of a frame.                                         *)
LEMMA Delivered ==
  ASSUME FeedOrderly, WindowsOK, NEW w \in Windows, Deliver(w)
  PROVE  LET f == feed[cursor[w] + 1] IN
         /\ cursor[w] + 1 \in DOMAIN feed /\ cursor[w] \in Nat
         /\ \E r, clean, stop :
              /\ calls' = [calls EXCEPT ![w] = r] /\ Extended(calls[w], r, f, clean, stop)
              /\ moduleTurn[w] = f.turn /\ (mounted[w] => hookTurn[w] = f.turn) => clean
              /\ moduleTurn[w] # f.turn => stop
         /\ cursor' = [cursor EXCEPT ![w] = @ + 1]
         /\ moduleTurn' = [moduleTurn EXCEPT ![w] = f.turn]
         /\ hookTurn' = [hookTurn EXCEPT ![w] = IF mounted[w] THEN f.turn ELSE @]
         /\ entered' = [entered EXCEPT ![w] = @ /\ moduleTurn[w] = f.turn]
         /\ UNCHANGED <<worker, feed, mounted, toggles, aired>>
<1> DEFINE f == feed[cursor[w] + 1]
           q == calls[w]
<1>1. feed \in Seq(Chunk) /\ cursor[w] \in 0 .. Len(feed) /\ cursor[w] < Len(feed)
  BY DEF FeedOrderly, WindowsOK, Deliver
<1>2. cursor[w] + 1 \in DOMAIN feed /\ cursor[w] \in Nat /\ f \in Chunk
  BY <1>1
<1>3. q \in Seq(Call) /\ hookTurn \in [Windows -> Turns \cup {NoTurn}]
  BY DEF WindowsOK
<1>4. /\ cursor' = [cursor EXCEPT ![w] = @ + 1] /\ moduleTurn' = [moduleTurn EXCEPT ![w] = f.turn]
      /\ entered' = [entered EXCEPT ![w] = @ /\ moduleTurn[w] = f.turn]
      /\ UNCHANGED <<worker, feed, mounted, toggles, aired>>
  BY DEF Deliver
<1>5. CASE mounted[w]
  <2> DEFINE r == q \o Forward(moduleTurn[w], f)
             s == r \o Forward(hookTurn[w], f)
  <2>1. hookTurn' = [hookTurn EXCEPT ![w] = f.turn] /\ calls' = [calls EXCEPT ![w] = s]
    BY <1>5 DEF Deliver
  <2>2. Extended(q, r, f, moduleTurn[w] = f.turn, moduleTurn[w] # f.turn)
    BY <1>2, <1>3, ForwardExtends
  <2>3. r \in Seq(Call)
    BY <2>2 DEF Extended
  <2> HIDE DEF r
  <2>4. Extended(r, s, f, hookTurn[w] = f.turn, hookTurn[w] # f.turn)
    BY <1>2, <2>3, ForwardExtends
  <2>5. s \in Seq(Call)
    BY <2>4 DEF Extended
  <2> HIDE DEF s, q, f
  <2>6. Len(q) \in Nat /\ Len(r) \in Nat /\ Len(s) \in Nat
    BY <1>3, <2>3, <2>5
  <2>7. Extended(q, s, f, moduleTurn[w] = f.turn /\ hookTurn[w] = f.turn, moduleTurn[w] # f.turn)
    <3>1. s \in Seq(Call) /\ Len(q) < Len(s) /\ s[Len(s)] = PlayCall(f)
      BY <2>2, <2>4, <2>6 DEF Extended
    <3>2. \A p \in DOMAIN q : p \in DOMAIN s /\ s[p] = q[p]
      BY <2>2, <2>4 DEF Extended
    <3>3. \A p \in DOMAIN s : p \notin DOMAIN q => s[p] \in {StopCall, PlayCall(f)}
      BY <2>2, <2>4 DEF Extended
    <3>4. moduleTurn[w] = f.turn /\ hookTurn[w] = f.turn =>
            \A p \in DOMAIN s : p \notin DOMAIN q => s[p] = PlayCall(f)
      BY <2>2, <2>4 DEF Extended
    <3>5. moduleTurn[w] # f.turn => \E p \in DOMAIN s : p \notin DOMAIN q /\ s[p] = StopCall
      <4> SUFFICES ASSUME moduleTurn[w] # f.turn
                   PROVE  \E p \in DOMAIN s : p \notin DOMAIN q /\ s[p] = StopCall
        OBVIOUS
      <4>1. PICK p \in DOMAIN r : p \notin DOMAIN q /\ r[p] = StopCall
        BY <2>2 DEF Extended
      <4>2. p \in DOMAIN s /\ s[p] = r[p]
        BY <4>1, <2>4 DEF Extended
      <4> QED BY <4>1, <4>2
    <3> QED BY <3>1, <3>2, <3>3, <3>4, <3>5 DEF Extended
  <2>8. \E t, clean, stop :
          /\ calls' = [calls EXCEPT ![w] = t] /\ Extended(q, t, f, clean, stop)
          /\ moduleTurn[w] = f.turn /\ (mounted[w] => hookTurn[w] = f.turn) => clean
          /\ moduleTurn[w] # f.turn => stop
    BY <1>5, <2>1, <2>7
  <2> USE DEF q, f
  <2> QED BY <1>2, <1>4, <1>5, <2>1, <2>8
<1>6. CASE ~mounted[w]
  <2> DEFINE r == q \o Forward(moduleTurn[w], f)
  <2>1. calls' = [calls EXCEPT ![w] = r] /\ hookTurn' = hookTurn
    BY <1>6 DEF Deliver
  <2>2. Extended(q, r, f, moduleTurn[w] = f.turn, moduleTurn[w] # f.turn)
    BY <1>2, <1>3, ForwardExtends
  <2>3. hookTurn' = [hookTurn EXCEPT ![w] = IF mounted[w] THEN f.turn ELSE @]
    BY <2>1, <1>3, <1>6
  <2> HIDE DEF r, f, q
  <2>4. \E t, clean, stop :
          /\ calls' = [calls EXCEPT ![w] = t] /\ Extended(q, t, f, clean, stop)
          /\ moduleTurn[w] = f.turn /\ (mounted[w] => hookTurn[w] = f.turn) => clean
          /\ moduleTurn[w] # f.turn => stop
    BY <2>1, <2>2
  <2> USE DEF q, f
  <2> QED BY <1>2, <1>4, <2>3, <2>4
<1> QED BY <1>5, <1>6

(* The latest run reaches to the end of the broadcast.                     *)
LEMMA RunFacts ==
  ASSUME FeedOrderly
  PROVE  /\ \A i, j \in DOMAIN feed : InRun(i) /\ j >= i => InRun(j) /\ feed[j].turn = Newest
         /\ feed # <<>> => Len(feed) \in DOMAIN feed /\ InRun(Len(feed)) /\ Newest \in Turns
<1>t. feed \in Seq(Chunk) /\ \A i \in DOMAIN feed : i \in Nat /\ i <= Len(feed)
  BY FrameIs DEF FeedOrderly
<1>1. ASSUME NEW i \in DOMAIN feed, NEW j \in DOMAIN feed, InRun(i), j >= i
      PROVE  InRun(j) /\ feed[j].turn = Newest
  <2>1. \A k \in DOMAIN feed : k >= j => k >= i
    BY <1>t, <1>1
  <2> QED BY <1>1, <2>1 DEF InRun, Newest
<1>2. ASSUME feed # <<>> PROVE Len(feed) \in DOMAIN feed /\ InRun(Len(feed)) /\ Newest \in Turns
  <2>1. Len(feed) \in DOMAIN feed /\ Len(feed) \in Nat
    BY <1>t, <1>2
  <2>2. \A j \in DOMAIN feed : j >= Len(feed) => j = Len(feed)
    BY <1>t, <2>1
  <2>3. InRun(Len(feed))
    BY <2>2 DEF InRun, Latest
  <2> QED BY <2>1, <2>3, <1>t, FrameIs DEF Newest, Latest
<1> QED BY <1>1, <1>2

(* What a window has taken is from the broadcast, and what its module      *)
(* remembers is the latest turn once it has reached the latest run.        *)
LEMMA Taken ==
  ASSUME FeedOrderly, WindowsOK, NEW w \in Windows
  PROVE  /\ cursor[w] \in Nat /\ cursor[w] <= Len(feed) /\ Len(feed) \in Nat
         /\ \A i \in 1 .. cursor[w] : i \in DOMAIN feed
         /\ Reached(w) => moduleTurn[w] = Newest
<1>1. cursor[w] \in 0 .. Len(feed) /\ feed \in Seq(Chunk) /\ Len(feed) \in Nat
  BY DEF FeedOrderly, WindowsOK
<1>2. \A i \in 1 .. cursor[w] : i \in DOMAIN feed
  BY <1>1
<1>3. ASSUME NEW i \in 1 .. cursor[w], InRun(i) PROVE moduleTurn[w] = Newest
  <2>1. cursor[w] \in DOMAIN feed /\ cursor[w] # 0 /\ cursor[w] >= i
        /\ moduleTurn[w] = feed[cursor[w]].turn
    BY <1>1 DEF WindowsOK
  <2> QED BY <1>2, <1>3, <2>1, RunFacts
<1> QED BY <1>1, <1>2, <1>3 DEF Reached

(* A window that takes the first frame of the latest run comes from        *)
(* another turn.                                                           *)
LEMMA FirstOfRun ==
  ASSUME FeedOrderly, WindowsOK, NEW w \in Windows, cursor[w] + 1 \in DOMAIN feed,
         InRun(cursor[w] + 1), ~Reached(w)
  PROVE  moduleTurn[w] # feed[cursor[w] + 1].turn
<1> DEFINE c == cursor[w]
<1>1. /\ c \in Nat /\ c + 1 \in DOMAIN feed
      /\ feed[c + 1].turn = Newest /\ feed[c + 1].turn \in Turns
      /\ moduleTurn[w] = IF c = 0 THEN NoTurn ELSE feed[c].turn
  <2>1. c \in Nat
    BY Taken
  <2>2. feed[c + 1].turn \in Turns
    BY FrameIs DEF FeedOrderly
  <2>3. feed[c + 1].turn = Newest
    BY <2>1, RunFacts
  <2> QED BY <2>1, <2>2, <2>3 DEF WindowsOK
<1>2. CASE c = 0
  BY <1>1, <1>2, WorkerAssumption
<1>3. CASE c # 0
  <2>1. c \in 1 .. c
    BY <1>1, <1>3
  <2>2. ~InRun(c)
    BY <2>1 DEF Reached
  <2>3. PICK j \in DOMAIN feed : j >= c /\ feed[j].turn # Newest
    BY <2>2 DEF InRun, Newest
  <2>4. j \in Nat
    BY FrameIs DEF FeedOrderly
  <2>5. ~(j >= c + 1)
    BY <1>1, <2>3, RunFacts
  <2>6. j = c
    BY <1>1, <2>3, <2>4, <2>5
  <2> QED BY <1>1, <1>3, <2>3, <2>6
<1> HIDE DEF c
<1> QED BY <1>2, <1>3

(* The server sends a frame of one of the replies.                         *)
LEMMA Broadcasts ==
  ASSUME FeedOrderly, Broadcast
  PROVE  \E f \in Chunk :
           /\ feed' = Append(feed, f)
           /\ \A i \in DOMAIN feed : feed[i].turn = f.turn => feed[i].seq < f.seq
<1>1. PICK t \in UnderWay \cup NextTurn, n \in Seqs, l \in BOOLEAN, len \in Lens :
        /\ \A i \in Frames(t) : feed[i].seq < n
        /\ feed' = Append(feed, [turn |-> t, seq |-> n, last |-> l, len |-> len])
  BY DEF Broadcast
<1> DEFINE f == [turn |-> t, seq |-> n, last |-> l, len |-> len]
<1>2. t \in Turns
  BY PlaybackAssumption DEF UnderWay, TurnsOpened, NextTurn
<1>3. f \in Chunk
  BY <1>2 DEF Chunk
<1>4. \A i \in DOMAIN feed : feed[i].turn = f.turn => feed[i].seq < f.seq
  BY <1>1 DEF Frames
<1> QED BY <1>1, <1>3, <1>4

(* The broadcast stays in order, and no seq that was noted is given again. *)
(* The frame goes on with the latest run or begins one.                    *)
LEMMA FeedKept ==
  ASSUME FeedOrderly, Broadcast
  PROVE  /\ FeedOrderly' /\ Len(feed') = Len(feed) + 1 /\ Len(feed) \in Nat /\ feed' # <<>>
         /\ Latest' = feed'[Len(feed) + 1] /\ Newest' = feed'[Len(feed) + 1].turn
         /\ \A i \in DOMAIN feed : i \in DOMAIN feed' /\ feed'[i] = feed[i]
         /\ \A i \in DOMAIN feed' : i \in DOMAIN feed \/ i = Len(feed) + 1
         /\ Len(feed) + 1 \in DOMAIN feed' /\ \A n : n = Len(feed) + 1 => InRun(n)'
         /\ \A i \in DOMAIN feed : feed[i].turn = Newest' => feed[i].seq # Latest'.seq
         /\ \/ /\ feed # <<>> /\ Newest' = Newest
               /\ \A i \in DOMAIN feed : InRun(i)' <=> InRun(i)
            \/ \A i \in DOMAIN feed : ~InRun(i)'
<1>1. PICK f \in Chunk :
           /\ feed' = Append(feed, f)
           /\ \A i \in DOMAIN feed : feed[i].turn = f.turn => feed[i].seq < f.seq
  BY Broadcasts
<1>t. feed \in Seq(Chunk)
  BY DEF FeedOrderly
<1>2. /\ feed' \in Seq(Chunk) /\ Len(feed') = Len(feed) + 1 /\ Len(feed) \in Nat /\ feed' # <<>>
      /\ feed'[Len(feed) + 1] = f
      /\ \A i \in DOMAIN feed : i \in DOMAIN feed' /\ feed'[i] = feed[i]
      /\ \A i \in DOMAIN feed' : i \in DOMAIN feed \/ i = Len(feed) + 1
      /\ Len(feed) + 1 \in DOMAIN feed'
  BY <1>1, <1>t
<1>3. Latest' = f /\ Newest' = f.turn
  BY <1>2 DEF Latest, Newest
<1>4. \A i \in DOMAIN feed : i \in Nat /\ i <= Len(feed) /\ feed[i].seq \in Nat
  BY <1>t, FrameIs
<1>6. ASSUME NEW i \in DOMAIN feed', NEW j \in DOMAIN feed', i < j, feed'[i].turn = feed'[j].turn
      PROVE  feed'[i].seq < feed'[j].seq
  <2>1. i \in DOMAIN feed
    BY <1>6, <1>2, <1>4
  <2> QED BY <1>1, <1>2, <1>6, <2>1 DEF FeedOrderly
<1>8. FeedOrderly'
  BY <1>2, <1>6 DEF FeedOrderly
<1>9. f.seq \in Nat
  BY <1>2, FrameIs, <1>t, WorkerAssumption DEF Chunk
<1>10. \A i \in DOMAIN feed : feed[i].turn = f.turn => feed[i].seq # f.seq
  BY <1>1, <1>4, <1>9
<1>11. ASSUME NEW n, n = Len(feed) + 1 PROVE InRun(n)'
  <2>1. \A j \in DOMAIN feed' : j >= n => j = n
    BY <1>2, <1>4, <1>11
  <2> QED BY <1>2, <1>3, <1>11, <2>1 DEF InRun
<1>12. CASE feed # <<>> /\ f.turn = Newest
  <2>1. \A i \in DOMAIN feed : InRun(i)' <=> InRun(i)
    <3> TAKE i \in DOMAIN feed
    <3>1. InRun(i)' => InRun(i)
      BY <1>2, <1>3, <1>12 DEF InRun, Newest
    <3>2. InRun(i) => InRun(i)'
      BY <1>2, <1>3, <1>12 DEF InRun, Newest
    <3> QED BY <3>1, <3>2
  <2> QED BY <1>1, <1>2, <1>3, <1>8, <1>10, <1>11, <1>12, <2>1
<1>13. CASE feed # <<>> /\ f.turn # Newest
  <2>1. Len(feed) \in DOMAIN feed /\ feed[Len(feed)].turn # f.turn
    BY <1>t, <1>13 DEF Newest, Latest
  <2>2. \A i \in DOMAIN feed : ~InRun(i)'
    <3> SUFFICES ASSUME NEW i \in DOMAIN feed, InRun(i)' PROVE FALSE
      OBVIOUS
    <3>1. Len(feed) \in DOMAIN feed' /\ Len(feed) >= i /\ feed'[Len(feed)] = feed[Len(feed)]
      BY <1>2, <1>4, <2>1
    <3>2. feed'[Len(feed)].turn = f.turn
      BY <3>1, <1>3 DEF InRun
    <3> QED BY <3>1, <3>2, <2>1
  <2> QED BY <1>1, <1>2, <1>3, <1>8, <1>10, <1>11, <2>2
<1>14. CASE feed = <<>>
  <2>1. \A i \in DOMAIN feed : ~InRun(i)'
    BY <1>14
  <2> QED BY <1>1, <1>2, <1>3, <1>8, <1>10, <1>11, <2>1
<1> QED BY <1>12, <1>13, <1>14

(* A frame occurs once in the broadcast.                                   *)
LEMMA FrameOnce ==
  ASSUME FeedOrderly, NEW i \in DOMAIN feed, NEW j \in DOMAIN feed, feed[i] = feed[j]
  PROVE  i = j
<1>1. i \in Nat /\ j \in Nat /\ feed[i].seq \in Nat /\ feed[j].seq \in Nat
  BY FrameIs DEF FeedOrderly
<1>2. ~(i < j) /\ ~(j < i)
  BY <1>1 DEF FeedOrderly
<1> QED BY <1>1, <1>2

(* A frame is sent: nobody has taken it yet.                               *)
LEMMA BroadcastKeeps == ASSUME Playback, Broadcast PROVE Playback'
<1>t. FeedOrderly /\ WindowsOK /\ WorkerOK /\ (feed # <<>> => Coverage) /\ Freshness
  BY DEF Playback
<1>u. UNCHANGED <<worker, cursor, moduleTurn, hookTurn, mounted, entered, toggles, calls, aired>>
  BY DEF Broadcast, window
<1>f. /\ FeedOrderly' /\ Len(feed') = Len(feed) + 1 /\ Len(feed) \in Nat /\ feed' # <<>>
      /\ Latest' = feed'[Len(feed) + 1] /\ Newest' = feed'[Len(feed) + 1].turn
      /\ \A i \in DOMAIN feed : i \in DOMAIN feed' /\ feed'[i] = feed[i]
      /\ \A i \in DOMAIN feed' : i \in DOMAIN feed \/ i = Len(feed) + 1
      /\ Len(feed) + 1 \in DOMAIN feed' /\ \A n : n = Len(feed) + 1 => InRun(n)'
      /\ \A i \in DOMAIN feed : feed[i].turn = Newest' => feed[i].seq # Latest'.seq
      /\ \/ /\ feed # <<>> /\ Newest' = Newest
            /\ \A i \in DOMAIN feed : InRun(i)' <=> InRun(i)
         \/ \A i \in DOMAIN feed : ~InRun(i)'
  BY <1>t, FeedKept
<1>n. PICK n : n = Len(feed) + 1
  OBVIOUS
<1>w. \A w \in Windows : /\ cursor[w] \in Nat /\ cursor[w] <= Len(feed)
                         /\ \A i \in 1 .. cursor[w] : i \in DOMAIN feed
  BY <1>t, Taken
<1>x. \A w \in Windows : cursor[w] # 0 => cursor[w] \in DOMAIN feed
  <2> TAKE w \in Windows
  <2>1. cursor[w] # 0 => cursor[w] \in 1 .. cursor[w]
    BY <1>w
  <2> QED BY <1>w, <2>1
<1>1. WindowsOK'
  <2>1. cursor' \in [Windows -> 0 .. Len(feed')]
    BY <1>t, <1>u, <1>f, <1>w DEF WindowsOK
  <2>2. \A w \in Windows :
          /\ moduleTurn[w] = IF cursor[w] = 0 THEN NoTurn ELSE feed'[cursor[w]].turn
          /\ \A p \in DOMAIN calls[w] :
               calls[w][p].cmd = "play" => \E i \in 1 .. cursor[w] : calls[w][p].chunk = feed'[i]
    BY <1>t, <1>f, <1>w, <1>x DEF WindowsOK
  <2> QED BY <1>t, <1>u, <2>1, <2>2 DEF WindowsOK
<1>2. WorkerOK'
  <2>1. \A q \in worker.seen : \E i \in DOMAIN feed' : feed'[i].turn = worker.turn /\ feed'[i].seq = q
    BY <1>t, <1>f DEF WorkerOK
  <2>2. \A i \in DOMAIN worker.accepted :
          worker.accepted[i].len > 0 /\ \E j \in DOMAIN feed' : worker.accepted[i] = feed'[j]
    BY <1>t, <1>f DEF WorkerOK
  <2>3. ASSUME NEW i \in DOMAIN feed', feed'[i].turn = worker.turn, feed'[i].seq \in worker.seen,
               feed'[i].len > 0
        PROVE  \E j \in DOMAIN worker.accepted : worker.accepted[j] = feed'[i]
    <3>1. CASE i \in DOMAIN feed
      BY <3>1, <2>3, <1>t, <1>f DEF WorkerOK
    <3>2. CASE i = Len(feed) + 1
      <4>1. PICK j \in DOMAIN feed : feed[j].turn = worker.turn /\ feed[j].seq = feed'[i].seq
        BY <2>3, <1>t DEF WorkerOK
      <4> QED BY <4>1, <3>2, <2>3, <1>f
    <3> QED BY <3>1, <3>2, <1>f
  <2>4. WorkerInv'
    BY <1>t, <1>u DEF WorkerOK, WorkerInv
  <2> QED BY <1>u, <2>1, <2>2, <2>3, <2>4 DEF WorkerOK
<1>i. PICK w0 \in Windows : TRUE
  BY PlaybackAssumption
<1>c. Covered(n)'
  <2>1. cursor[w0] < Len(feed) + 1
    BY <1>f, <1>w
  <2> QED BY <1>n, <1>u, <2>1 DEF Covered
<1>s. \A w, p : StopsAfter(w, p)' <=> StopsAfter(w, p)
  BY <1>u DEF StopsAfter
<1>3. CASE feed # <<>> /\ Newest' = Newest /\ \A i \in DOMAIN feed : InRun(i)' <=> InRun(i)
  <2>1. \A w \in Windows : Reached(w)' <=> Reached(w)
    BY <1>3, <1>u, <1>w DEF Reached
  <2>2. \A p : \A w \in Windows, i \in DOMAIN feed : PlaysAfter(w, p, i)' <=> PlaysAfter(w, p, i)
    BY <1>u, <1>f DEF PlaysAfter
  <2>3. ASSUME NEW w \in Windows PROVE Resumes(w)'
    <3>1. Resumes(w)
      BY <1>t, <1>3 DEF Coverage
    <3>2. \A i \in 1 .. cursor[w] : i \in DOMAIN feed
      BY <1>w
    <3> QED BY <1>u, <1>3, <2>1, <2>2, <3>1, <3>2 DEF Resumes, Clears
  <2>4. ASSUME Calm', NEW i \in DOMAIN feed, InRun(i) PROVE Covered(i)'
    <3>1. Calm
      BY <2>4, <2>1, <1>u DEF Calm
    <3>2. Covered(i)
      BY <2>4, <3>1, <1>t, <1>3 DEF Coverage
    <3>3. feed'[i] = feed[i]
      BY <1>f
    <3> QED BY <1>u, <1>3, <2>2, <3>2, <3>3 DEF Covered
  <2>5. \A i \in DOMAIN feed' : (i \in DOMAIN feed /\ feed'[i] = feed[i]) \/ i = n
    BY <1>f, <1>n
  <2>6. Coverage'
    BY <1>c, <1>3, <2>3, <2>4, <2>5 DEF Coverage
  <2>7. \A i \in DOMAIN feed' : ~InRun(i)' => i \in DOMAIN feed /\ feed'[i] = feed[i] /\ ~InRun(i)
    BY <1>f, <1>n, <1>3
  <2>8. ASSUME NEW w \in Windows PROVE Purges(w)'
    <3>1. Purges(w)
      BY <1>t DEF Freshness
    <3> QED BY <3>1, <1>u, <1>s, <2>1, <2>7 DEF Purges
  <2>9. HoldsOld' => HoldsOld
    BY <1>u, <2>7 DEF HoldsOld
  <2>10. \A w \in Windows : WillStop(w) => WillStop(w)'
    BY <2>1, <1>s DEF WillStop
  <2>11. Freshness'
    BY <2>8, <2>9, <2>10, <1>t DEF Freshness
  <2> QED BY <1>t, <1>u, <1>f, <1>1, <1>2, <2>6, <2>11 DEF Playback
<1>4. CASE \A i \in DOMAIN feed : ~InRun(i)'
  <2>1. \A w \in Windows : ~Reached(w)'
    BY <1>4, <1>u, <1>w DEF Reached
  <2>2. \A i \in DOMAIN feed' : InRun(i)' => i = n
    BY <1>f, <1>n, <1>4
  <2>3. Coverage'
    BY <1>c, <2>1, <2>2 DEF Coverage, Resumes
  <2>4. Freshness'
    BY <1>i, <2>1 DEF Freshness, Purges, WillStop
  <2> QED BY <1>t, <1>u, <1>f, <1>1, <1>2, <2>3, <2>4 DEF Playback
<1> QED BY <1>f, <1>3, <1>4

(* A window that reaches the latest run, or has reached it, takes a frame  *)
(* of it.                                                                  *)
LEMMA Reaching ==
  ASSUME FeedOrderly, WindowsOK, NEW w \in Windows, Deliver(w)
  PROVE  /\ Reached(w) => Reached(w)'
         /\ Reached(w)' =>
              /\ InRun(cursor[w] + 1) /\ feed[cursor[w] + 1].turn = Newest
              /\ \/ Reached(w) /\ moduleTurn[w] = Newest /\ entered'[w] = entered[w]
                 \/ /\ ~Reached(w) /\ moduleTurn[w] # feed[cursor[w] + 1].turn /\ ~entered'[w]
                    /\ \A i \in 1 .. cursor[w] + 1 : InRun(i) => i = cursor[w] + 1
<1> DEFINE c == cursor[w]
           f == feed[cursor[w] + 1]
<1>d. /\ c + 1 \in DOMAIN feed /\ c \in Nat /\ feed' = feed /\ cursor'[w] = c + 1
      /\ entered'[w] = (entered[w] /\ moduleTurn[w] = f.turn)
  BY Delivered DEF WindowsOK
<1>i. /\ \A i \in 1 .. c : i \in DOMAIN feed /\ i \in 1 .. c + 1 /\ c + 1 >= i
      /\ \A i \in 1 .. c + 1 : i \in 1 .. c \/ i = c + 1
  BY <1>d, Taken
<1>r. \A i : InRun(i)' <=> InRun(i)
  BY <1>d DEF InRun, Latest
<1>v. /\ Reached(w) <=> \E i \in 1 .. c : InRun(i)
      /\ Reached(w)' <=> \E i \in 1 .. c + 1 : InRun(i)
  BY <1>d, <1>r DEF Reached
<1>n. InRun(c + 1) => f.turn = Newest
  BY <1>d, RunFacts
<1> HIDE DEF c, f
<1>1. Reached(w) => Reached(w)'
  BY <1>v, <1>i
<1>2. CASE Reached(w)
  <2>1. PICK i \in 1 .. c : InRun(i)
    BY <1>2, <1>v
  <2>2. InRun(c + 1)
    BY <2>1, <1>i, <1>d, RunFacts
  <2>3. moduleTurn[w] = Newest
    BY <1>2, Taken
  <2>4. entered'[w] = entered[w]
    <3>1. entered[w] \in BOOLEAN
      BY DEF WindowsOK
    <3> QED BY <3>1, <2>2, <2>3, <1>n, <1>d
  <2> QED BY <1>1, <1>2, <1>n, <2>2, <2>3, <2>4 DEF c, f
<1>3. CASE ~Reached(w) /\ Reached(w)'
  <2>1. InRun(c + 1) /\ \A i \in 1 .. c + 1 : InRun(i) => i = c + 1
    BY <1>3, <1>v, <1>i
  <2>2. moduleTurn[w] # f.turn
    BY <1>3, <1>d, <2>1, FirstOfRun DEF c, f
  <2>3. ~entered'[w]
    BY <2>2, <1>d
  <2> QED BY <1>3, <1>n, <2>1, <2>2, <2>3 DEF c, f
<1> QED BY <1>1, <1>2, <1>3

(* A window takes a frame: it plays it after all it has yet to do, and     *)
(* stops the worker before that when it reaches the latest run.            *)
LEMMA DeliverKeeps == ASSUME Playback, NEW w \in Windows, Deliver(w) PROVE Playback'
<1>t. FeedOrderly /\ WindowsOK /\ WorkerOK /\ (feed # <<>> => Coverage) /\ Freshness
  BY DEF Playback
<1> DEFINE f == feed[cursor[w] + 1]
<1>d. /\ cursor[w] + 1 \in DOMAIN feed /\ cursor[w] \in Nat
      /\ \E r, clean, stop :
           /\ calls' = [calls EXCEPT ![w] = r] /\ Extended(calls[w], r, f, clean, stop)
           /\ moduleTurn[w] = f.turn /\ (mounted[w] => hookTurn[w] = f.turn) => clean
           /\ moduleTurn[w] # f.turn => stop
      /\ cursor' = [cursor EXCEPT ![w] = @ + 1]
      /\ moduleTurn' = [moduleTurn EXCEPT ![w] = f.turn]
      /\ hookTurn' = [hookTurn EXCEPT ![w] = IF mounted[w] THEN f.turn ELSE @]
      /\ entered' = [entered EXCEPT ![w] = @ /\ moduleTurn[w] = f.turn]
      /\ UNCHANGED <<worker, feed, mounted, toggles, aired>>
  BY <1>t, Delivered
<1>r. PICK r, clean, stop :
           /\ calls' = [calls EXCEPT ![w] = r] /\ Extended(calls[w], r, f, clean, stop)
           /\ moduleTurn[w] = f.turn /\ (mounted[w] => hookTurn[w] = f.turn) => clean
           /\ moduleTurn[w] # f.turn => stop
  BY <1>d
<1>u. UNCHANGED <<worker, feed, mounted, toggles, aired>>
  BY <1>d
<1>f. /\ feed \in Seq(Chunk) /\ f \in Chunk /\ f.turn \in Turns /\ Newest' = Newest /\ Latest' = Latest
      /\ \A i : InRun(i)' <=> InRun(i)
  <2>1. feed \in Seq(Chunk)
    BY <1>t DEF FeedOrderly
  <2>2. f \in Chunk /\ f.turn \in Turns
    BY <2>1, <1>d, FrameIs
  <2>3. Newest' = Newest /\ Latest' = Latest
    BY <1>u DEF Newest, Latest
  <2>4. \A i : InRun(i)' <=> InRun(i)
    BY <1>u, <2>3 DEF InRun
  <2> QED BY <2>1, <2>2, <2>3, <2>4
<1>w. \A i \in 1 .. cursor[w] : i \in DOMAIN feed
  BY <1>t, Taken
<1>v. /\ cursor'[w] = cursor[w] + 1 /\ moduleTurn'[w] = f.turn /\ calls'[w] = r
      /\ hookTurn'[w] = IF mounted[w] THEN f.turn ELSE hookTurn[w]
      /\ \A u \in Windows : u # w => /\ cursor'[u] = cursor[u] /\ moduleTurn'[u] = moduleTurn[u]
                                     /\ calls'[u] = calls[u] /\ hookTurn'[u] = hookTurn[u]
                                     /\ entered'[u] = entered[u]
  BY <1>d, <1>r, <1>t DEF WindowsOK
<1>e. f = feed[cursor[w] + 1]
  OBVIOUS
<1>i. \A i \in 1 .. cursor[w] + 1 : i \in 1 .. cursor[w] \/ i = cursor[w] + 1
  BY <1>d
<1>j. \A i \in 1 .. cursor[w] : i \in 1 .. cursor[w] + 1
  BY <1>d
<1>k. cursor[w] + 1 \in 1 .. cursor[w] + 1 /\ cursor[w] + 1 # 0
  BY <1>d
<1>g. /\ Reached(w) => Reached(w)'
      /\ Reached(w)' =>
           /\ InRun(cursor[w] + 1) /\ f.turn = Newest
           /\ \/ Reached(w) /\ moduleTurn[w] = Newest /\ entered'[w] = entered[w]
              \/ /\ ~Reached(w) /\ moduleTurn[w] # f.turn /\ ~entered'[w]
                 /\ \A i \in 1 .. cursor[w] + 1 : InRun(i) => i = cursor[w] + 1
  BY <1>t, Reaching
<1>x. \A u \in Windows : u # w => (Reached(u)' <=> Reached(u))
  BY <1>v, <1>f DEF Reached
<1> HIDE DEF f
<1>p. /\ \A p \in DOMAIN calls[w] : p \in DOMAIN r /\ r[p] = calls[w][p] /\ p \in Nat /\ p > 0
      /\ \A p \in DOMAIN r : p \in Nat /\ p > 0 /\ (p \notin DOMAIN calls[w] => p > Len(calls[w]))
      /\ \A p \in DOMAIN calls[w] : p <= Len(calls[w])
      /\ Len(calls[w]) \in Nat
  <2> DEFINE q == calls[w]
  <2>1. q \in Seq(Call) /\ r \in Seq(Call) /\ \A p \in DOMAIN q : p \in DOMAIN r /\ r[p] = q[p]
    BY <1>t, <1>r DEF WindowsOK, Extended
  <2> HIDE DEF q
  <2>2. /\ \A p \in DOMAIN q : p \in Nat /\ p > 0 /\ p <= Len(q)
        /\ \A p \in DOMAIN r : p \in Nat /\ p > 0 /\ (p \notin DOMAIN q => p > Len(q))
        /\ Len(q) \in Nat
    BY <2>1
  <2> QED BY <2>1, <2>2 DEF q
<1>1. FeedOrderly'
  BY <1>t, <1>d, <1>f DEF FeedOrderly
<1>2. WorkerOK'
  BY <1>t, <1>d DEF WorkerOK, WorkerInv
<1>3. WindowsOK'
  <2>1. /\ cursor' \in [Windows -> 0 .. Len(feed)]
        /\ moduleTurn' \in [Windows -> Turns \cup {NoTurn}]
        /\ hookTurn' \in [Windows -> Turns \cup {NoTurn}]
        /\ calls' \in [Windows -> Seq(Call)]
    <3>1. cursor[w] + 1 \in 0 .. Len(feed) /\ r \in Seq(Call)
      BY <1>d, <1>f, <1>r DEF Extended
    <3> QED BY <3>1, <1>t, <1>d, <1>r, <1>f DEF WindowsOK
  <2>2. moduleTurn'[w] = IF cursor'[w] = 0 THEN NoTurn ELSE feed[cursor'[w]].turn
    BY <1>v, <1>e, <1>k
  <2>4. ASSUME NEW p \in DOMAIN r, r[p].cmd = "play"
        PROVE  \E i \in 1 .. cursor[w] + 1 : r[p].chunk = feed[i]
    <3>1. CASE p \in DOMAIN calls[w]
      <4>1. r[p] = calls[w][p]
        BY <1>p, <3>1
      <4> QED BY <1>t, <1>j, <2>4, <3>1, <4>1 DEF WindowsOK
    <3>2. CASE p \notin DOMAIN calls[w]
      <4>1. r[p] \in {StopCall, PlayCall(f)}
        BY <1>r, <3>2 DEF Extended
      <4>2. r[p].chunk = f
        BY <4>1, <2>4, CallKinds
      <4> QED BY <4>2, <1>e, <1>k
    <3> QED BY <3>1, <3>2
  <2>5. \A u \in Windows :
          /\ moduleTurn'[u] = IF cursor'[u] = 0 THEN NoTurn ELSE feed[cursor'[u]].turn
          /\ \A p \in DOMAIN calls'[u] :
               calls'[u][p].cmd = "play" => \E i \in 1 .. cursor'[u] : calls'[u][p].chunk = feed[i]
    <3> TAKE u \in Windows
    <3>1. CASE u = w
      <4>1. cursor'[u] = cursor[w] + 1 /\ calls'[u] = r /\ moduleTurn'[u] = moduleTurn'[w]
            /\ cursor'[u] = cursor'[w]
        BY <3>1, <1>v
      <4>2. \A p \in DOMAIN r : r[p].cmd = "play" => \E i \in 1 .. cursor[w] + 1 : r[p].chunk = feed[i]
        BY <2>4
      <4> QED BY <3>1, <2>2, <4>1, <4>2
    <3>2. CASE u # w
      <4>1. cursor'[u] = cursor[u] /\ moduleTurn'[u] = moduleTurn[u] /\ calls'[u] = calls[u]
        BY <3>2, <1>v
      <4>2. /\ moduleTurn[u] = IF cursor[u] = 0 THEN NoTurn ELSE feed[cursor[u]].turn
            /\ \A p \in DOMAIN calls[u] :
                 calls[u][p].cmd = "play" => \E i \in 1 .. cursor[u] : calls[u][p].chunk = feed[i]
        BY <1>t DEF WindowsOK
      <4> QED BY <4>1, <4>2
    <3> QED BY <3>1, <3>2
  <2>6. mounted' \in [Windows -> BOOLEAN] /\ entered' \in [Windows -> BOOLEAN]
    <3>1. (entered[w] /\ moduleTurn[w] = f.turn) \in BOOLEAN
      OBVIOUS
    <3> QED BY <3>1, <1>t, <1>u, <1>d DEF WindowsOK
  <2> QED BY <1>u, <2>1, <2>5, <2>6 DEF WindowsOK
<1>4. ASSUME feed # <<>> PROVE Coverage'
  <2>1. ASSUME NEW u \in Windows, u # w PROVE Resumes(u)'
    <3>1. /\ cursor'[u] = cursor[u] /\ calls'[u] = calls[u] /\ hookTurn'[u] = hookTurn[u]
          /\ entered'[u] = entered[u] /\ (Reached(u)' <=> Reached(u))
      BY <2>1, <1>v, <1>x
    <3>2. Resumes(u)
      BY <1>4, <1>t DEF Coverage
    <3>3. mounted' = mounted /\ feed' = feed /\ Newest' = Newest /\ \A i : InRun(i)' <=> InRun(i)
      BY <1>u, <1>f
    <3> QED BY <3>1, <3>2, <3>3 DEF Resumes, Clears, PlaysAfter
  <2>2. Resumes(w)'
    <3> SUFFICES ASSUME Reached(w)', ~entered'[w]
                 PROVE  /\ mounted[w] => hookTurn'[w] = Newest
                        /\ \A p \in DOMAIN r, i \in 1 .. cursor[w] + 1 :
                             Clears(r[p]) /\ InRun(i)
                               => \E q \in DOMAIN r : q > p /\ r[q] = PlayCall(feed[i])
      BY <1>v, <1>d, <1>f DEF Resumes, Clears, PlaysAfter
    <3>1. mounted[w] => hookTurn'[w] = Newest
      BY <1>v, <1>g
    <3>2. ASSUME NEW p \in DOMAIN r, NEW i \in 1 .. cursor[w] + 1, Clears(r[p]), InRun(i)
          PROVE  \E q \in DOMAIN r : q > p /\ r[q] = PlayCall(feed[i])
      <4>n. p \in Nat /\ p <= Len(r) /\ Len(r) \in DOMAIN r /\ Len(r) \in Nat
        BY <1>r DEF Extended
      <4>1. CASE i = cursor[w] + 1
        <5>1. feed[i] = f /\ f.turn = Newest
          BY <4>1, <1>e, <1>g
        <5>2. r[Len(r)] = PlayCall(f) /\ ~Clears(PlayCall(f))
          BY <1>r, <5>1, CallKinds DEF Extended, Clears
        <5>3. p # Len(r)
          BY <5>2, <3>2
        <5> QED BY <4>n, <5>1, <5>2, <5>3
      <4>2. CASE i \in 1 .. cursor[w]
        <5>1. Reached(w)
          BY <4>2, <3>2 DEF Reached
        <5>2. moduleTurn[w] = Newest /\ f.turn = Newest /\ ~entered[w]
          BY <5>1, <1>g
        <5>3. Resumes(w)
          BY <1>4, <1>t DEF Coverage
        <5>4. clean
          BY <5>1, <5>2, <5>3, <1>r DEF Resumes
        <5>5. p \in DOMAIN calls[w]
          <6>1. ~Clears(PlayCall(f))
            BY <5>2, CallKinds DEF Clears
          <6> QED BY <5>4, <6>1, <3>2, <1>r DEF Extended
        <5>6. Clears(calls[w][p])
          BY <5>5, <3>2, <1>p
        <5>7. PICK q \in DOMAIN calls[w] : q > p /\ calls[w][q] = PlayCall(feed[i])
          BY <5>1, <5>2, <5>3, <5>5, <5>6, <4>2, <3>2 DEF Resumes, PlaysAfter
        <5> QED BY <5>7, <1>p
      <4> QED BY <4>1, <4>2, <1>i
    <3> QED BY <3>1, <3>2
  <2>3. ASSUME NEW i \in DOMAIN feed, Covered(i) PROVE Covered(i)'
    <3>1. CASE worker.turn = Newest /\ feed[i].seq \in worker.seen
      BY <3>1, <1>d, <1>f DEF Covered
    <3>2. ASSUME NEW u \in Windows, u # w, cursor[u] < i \/ PlaysAfter(u, 0, i) PROVE Covered(i)'
      BY <3>2, <1>v, <1>d DEF Covered, PlaysAfter
    <3>3. CASE PlaysAfter(w, 0, i)
      <4>1. PICK q \in DOMAIN calls[w] : q > 0 /\ calls[w][q] = PlayCall(feed[i])
        BY <3>3 DEF PlaysAfter
      <4>2. q \in DOMAIN r /\ r[q] = PlayCall(feed[i])
        BY <4>1, <1>r DEF Extended
      <4> QED BY <4>1, <4>2, <1>v, <1>d DEF Covered, PlaysAfter
    <3>4. CASE cursor[w] < i
      <4>1. CASE i = cursor[w] + 1
        <5>1. Len(r) \in DOMAIN r /\ Len(r) > 0 /\ r[Len(r)] = PlayCall(feed[i])
          BY <1>r, <4>1, <1>e, <1>t DEF Extended, WindowsOK
        <5> QED BY <5>1, <1>v, <1>d DEF Covered, PlaysAfter
      <4>2. CASE i # cursor[w] + 1
        <5>1. cursor[w] + 1 < i
          BY <3>4, <4>2, <1>d, <1>f
        <5> QED BY <5>1, <1>v DEF Covered
      <4> QED BY <4>1, <4>2
    <3> QED BY <2>3, <3>1, <3>2, <3>3, <3>4 DEF Covered
  <2>4. Calm' => Calm
    BY <1>v, <1>x, <1>g DEF Calm
  <2> QED BY <2>1, <2>2, <2>3, <2>4, <1>4, <1>t, <1>d, <1>f DEF Coverage
<1>5. Freshness'
  <2>1. ASSUME NEW p, StopsAfter(w, p) PROVE StopsAfter(w, p)'
    BY <2>1, <1>p, <1>v DEF StopsAfter
  <2>2. ASSUME Reached(w)', ~Reached(w)
        PROVE  \E y \in DOMAIN r : r[y] = StopCall /\ y > Len(calls[w])
    <3>1. stop
      BY <2>2, <1>g, <1>r
    <3> QED BY <3>1, <1>r, <1>p DEF Extended
  <2>3. Purges(w)'
    <3> SUFFICES ASSUME Reached(w)', NEW p \in DOMAIN r, NEW i \in DOMAIN feed,
                        ~InRun(i), r[p] = PlayCall(feed[i])
                 PROVE  StopsAfter(w, p)'
      BY <1>v, <1>u, <1>f DEF Purges, PlayCall
    <3>1. p \in DOMAIN calls[w]
      <4> SUFFICES ASSUME p \notin DOMAIN calls[w] PROVE FALSE
        OBVIOUS
      <4>1. r[p] \in {StopCall, PlayCall(f)}
        BY <1>r DEF Extended
      <4>2. feed[i] = f
        BY <4>1, CallKinds
      <4>3. i = cursor[w] + 1
        BY <4>2, <1>e, <1>d, <1>t, FrameOnce
      <4> QED BY <4>3, <1>g
    <3>2. CASE Reached(w)
      <4>1. Purges(w) /\ calls[w][p] = PlayCall(feed[i])
        BY <1>t, <1>p, <3>1 DEF Freshness
      <4> QED BY <4>1, <3>1, <3>2, <2>1 DEF Purges
    <3>3. CASE ~Reached(w)
      <4>1. PICK y \in DOMAIN r : r[y] = StopCall /\ y > Len(calls[w])
        BY <3>3, <2>2
      <4>2. y > p
        BY <4>1, <3>1, <1>p
      <4> QED BY <4>1, <4>2, <1>v DEF StopsAfter
    <3> QED BY <3>2, <3>3
  <2>4. ASSUME NEW u \in Windows, u # w PROVE Purges(u)'
    <3>1. Purges(u) /\ calls'[u] = calls[u] /\ (Reached(u)' <=> Reached(u))
      BY <2>4, <1>t, <1>v, <1>x DEF Freshness
    <3> QED BY <3>1, <1>u, <1>f DEF Purges, StopsAfter
  <2>5. HoldsOld' => HoldsOld
    BY <1>u, <1>f DEF HoldsOld
  <2>6. ASSUME NEW u \in Windows, WillStop(u) PROVE WillStop(u)'
    <3>1. CASE u # w
      BY <2>6, <3>1, <1>v, <1>x DEF WillStop, StopsAfter
    <3>2. CASE u = w /\ Reached(w)
      BY <2>6, <3>2, <2>1 DEF WillStop
    <3>3. CASE u = w /\ ~Reached(w) /\ Reached(w)'
      <4>1. PICK y \in DOMAIN r : r[y] = StopCall /\ y > Len(calls[w])
        BY <3>3, <2>2
      <4> QED BY <4>1, <3>3, <1>p, <1>v DEF WillStop, StopsAfter
    <3> QED BY <3>1, <3>2, <3>3 DEF WillStop
  <2>7. \A u \in Windows : Purges(u)'
    BY <2>3, <2>4
  <2> QED BY <2>5, <2>6, <2>7, <1>t DEF Freshness
<1> QED BY <1>1, <1>2, <1>3, <1>4, <1>5, <1>t, <1>d DEF Playback

(* The page is left or entered: what its module takes later makes it stop  *)
(* the worker, which matters only in the middle of the latest run.         *)
LEMMA ToggleKeeps == ASSUME Playback, NEW w \in Windows, Toggle(w) PROVE Playback'
<1>t. /\ FeedOrderly /\ WindowsOK /\ WorkerOK /\ (feed # <<>> => Coverage) /\ Freshness
      /\ toggles \in 0 .. MaxToggles
  BY DEF Playback
<1>u. UNCHANGED <<worker, feed, cursor, moduleTurn, calls, aired>>
  BY DEF Toggle
<1>f. Newest' = Newest /\ \A i : InRun(i)' <=> InRun(i)
  BY <1>u DEF Newest, Latest, InRun
<1>v. /\ mounted'[w] = ~mounted[w] /\ hookTurn'[w] = NoTurn
      /\ entered'[w] = (entered[w] \/ ~mounted[w])
      /\ \A x \in Windows : x # w => mounted'[x] = mounted[x] /\ hookTurn'[x] = hookTurn[x]
                                     /\ entered'[x] = entered[x]
  BY <1>t DEF Toggle, WindowsOK
<1>1. WindowsOK'
  <2>1. mounted' \in [Windows -> BOOLEAN]
    <3>1. mounted \in [Windows -> BOOLEAN] /\ mounted' = [mounted EXCEPT ![w] = ~mounted[w]]
      BY <1>t DEF Toggle, WindowsOK
    <3> QED BY <3>1
  <2>2. hookTurn' \in [Windows -> Turns \cup {NoTurn}]
    BY <1>t DEF Toggle, WindowsOK
  <2>3. entered' \in [Windows -> BOOLEAN]
    <3>1. entered \in [Windows -> BOOLEAN]
          /\ entered' = [entered EXCEPT ![w] = entered[w] \/ ~mounted[w]]
      BY <1>t DEF Toggle, WindowsOK
    <3>2. (entered[w] \/ ~mounted[w]) \in BOOLEAN
      OBVIOUS
    <3> QED BY <3>1, <3>2
  <2> QED BY <1>t, <1>u, <2>1, <2>2, <2>3 DEF WindowsOK
<1>2. WorkerOK' /\ FeedOrderly'
  BY <1>t, <1>u DEF WorkerOK, WorkerInv, FeedOrderly
<1>x. /\ \A x : Reached(x)' <=> Reached(x)
      /\ \A x, p, i : PlaysAfter(x, p, i)' <=> PlaysAfter(x, p, i)
      /\ \A x, p : StopsAfter(x, p)' <=> StopsAfter(x, p)
  BY <1>u, <1>f DEF Reached, PlaysAfter, StopsAfter
<1>3. ASSUME feed # <<>> PROVE Coverage'
  <2>1. ASSUME NEW x \in Windows, x # w PROVE Resumes(x)'
    <3>1. Resumes(x)
      BY <1>3, <1>t DEF Coverage
    <3> QED BY <2>1, <3>1, <1>u, <1>f, <1>v, <1>x DEF Resumes, Clears
  <2>2. Resumes(w)'
    <3> SUFFICES ASSUME Reached(w), ~entered'[w]
                 PROVE  /\ mounted'[w] => hookTurn'[w] = Newest
                        /\ \A p \in DOMAIN calls[w], i \in 1 .. cursor[w] :
                             Clears(calls[w][p]) /\ InRun(i) => PlaysAfter(w, p, i)
      BY <1>u, <1>f, <1>x DEF Resumes, Clears
    <3>1. ~mounted'[w] /\ ~entered[w]
      BY <1>v
    <3> QED BY <3>1, <1>3, <1>t DEF Coverage, Resumes
  <2>3. Calm' => Calm
    BY <1>v, <1>x DEF Calm
  <2>4. \A i \in DOMAIN feed : Covered(i)' <=> Covered(i)
    BY <1>u, <1>f, <1>x DEF Covered
  <2> QED BY <2>1, <2>2, <2>3, <2>4, <1>3, <1>t, <1>u, <1>f DEF Coverage
<1>4. Freshness'
  BY <1>t, <1>u, <1>f, <1>x DEF Freshness, Purges, WillStop, HoldsOld
<1>5. toggles' \in 0 .. MaxToggles
  BY <1>t, PlaybackAssumption DEF Toggle
<1>6. aired' \subseteq Chunk
  BY <1>u DEF Playback
<1> QED BY <1>1, <1>2, <1>3, <1>4, <1>5, <1>6, <1>u DEF Playback

(* What a step of the worker hands to the sink are chunks.                 *)
LEMMA NewlyFedType ==
  ASSUME WorkerInv, WorkerInv', aired \subseteq Chunk, aired' = aired \cup Elements(NewlyFed)
  PROVE  aired' \subseteq Chunk
<1>1. worker.sink \in Seq(Chunk) /\ worker'.sink \in Seq(Chunk)
  BY DEF WorkerInv, WorkerType
<1>2. NewlyFed \in Seq(Chunk)
  <2>1. CASE worker'.turn = worker.turn /\ Len(worker'.sink) >= Len(worker.sink)
    <3>1. SubSeq(worker'.sink, Len(worker.sink) + 1, Len(worker'.sink)) \in Seq(Chunk)
      <4> DEFINE s == worker'.sink  a == Len(worker.sink) + 1
      <4>1. s \in Seq(Chunk) /\ a \in Nat /\ a >= 1 /\ Len(s) \in Nat
        BY <1>1
      <4> HIDE DEF s, a
      <4>2. SubSeq(s, a, Len(s)) \in Seq(Chunk)
        BY <4>1
      <4> QED BY <4>2 DEF s, a
    <3> QED BY <2>1, <3>1 DEF NewlyFed
  <2>2. CASE ~(worker'.turn = worker.turn /\ Len(worker'.sink) >= Len(worker.sink))
    BY <1>1, <2>2 DEF NewlyFed
  <2> QED BY <2>1, <2>2
<1>3. Elements(NewlyFed) \subseteq Chunk
  BY <1>2 DEF Elements
<1> QED BY <1>3

(* The worker handles a call.  If it clears the worker, the window plays   *)
(* all it has taken of the latest run in the calls that follow; if it      *)
(* plays a frame from before the run, it stops the worker in one of them.  *)
LEMMA HandleKeeps == ASSUME Playback, NEW w \in Windows, Handle(w) PROVE Playback'
<1>t. /\ FeedOrderly /\ WindowsOK /\ WorkerOK /\ (feed # <<>> => Coverage) /\ Freshness
      /\ aired \subseteq Chunk
  BY DEF Playback
<1> DEFINE q == calls[w]
           c == calls[w][1]
           r == Tail(calls[w])
<1>u. UNCHANGED <<feed, cursor, moduleTurn, hookTurn, mounted, entered, toggles>>
  BY DEF Handle, window
<1>f. Newest' = Newest /\ (\A i : InRun(i)' <=> InRun(i)) /\ (\A x : Reached(x)' <=> Reached(x))
  BY <1>u DEF Newest, Latest, InRun, Reached
<1>q. /\ q \in Seq(Call) /\ q # <<>> /\ Len(q) \in Nat /\ 1 \in DOMAIN q
      /\ c \in Call /\ Head(q) = c
      /\ r \in Seq(Call) /\ Len(r) = Len(q) - 1
      /\ \A p \in DOMAIN r : p \in Nat /\ p > 0 /\ p + 1 \in DOMAIN q /\ r[p] = q[p + 1]
      /\ \A p \in DOMAIN q : p \in Nat /\ (p = 1 \/ \E n \in DOMAIN r : p = n + 1 /\ r[n] = q[p])
  <2>1. q \in Seq(Call) /\ q # <<>>
    BY <1>t DEF WindowsOK, Handle
  <2> HIDE DEF q
  <2>2. Tail(q) \in Seq(Call) /\ Len(Tail(q)) = Len(q) - 1 /\ Head(q) = q[1] /\ q[1] \in Call
        /\ Len(q) \in Nat /\ 1 \in DOMAIN q
    BY <2>1
  <2>3. \A p \in DOMAIN Tail(q) : p \in Nat /\ p > 0 /\ p + 1 \in DOMAIN q /\ Tail(q)[p] = q[p + 1]
    BY <2>1, <2>2
  <2>4. \A p \in DOMAIN q :
          p \in Nat /\ (p = 1 \/ \E n \in DOMAIN Tail(q) : p = n + 1 /\ Tail(q)[n] = q[p])
    <3> TAKE p \in DOMAIN q
    <3>1. p \in 1 .. Len(q)
      BY <2>1
    <3>2. ASSUME p # 1 PROVE \E n \in DOMAIN Tail(q) : p = n + 1 /\ Tail(q)[n] = q[p]
      <4>1. PICK n \in Nat : n = p - 1 /\ p = n + 1 /\ n \in 1 .. Len(q) - 1
        BY <3>1, <3>2, <2>2
      <4>2. n \in DOMAIN Tail(q)
        BY <4>1, <2>2
      <4>3. Tail(q)[n] = q[p]
        BY <4>1, <4>2, <2>3
      <4> QED BY <4>1, <4>2, <4>3
    <3> QED BY <3>1, <3>2
  <2> USE DEF q
  <2> QED BY <2>1, <2>2, <2>3, <2>4
<1>v. calls' = [calls EXCEPT ![w] = r] /\ calls'[w] = r
      /\ \A x \in Windows : x # w => calls'[x] = calls[x]
  BY <1>t DEF Handle, WindowsOK
<1>p. ASSUME c.cmd = "play"
      PROVE  \E j \in DOMAIN feed : j <= cursor[w] /\ c = PlayCall(feed[j]) /\ Play(feed[j])
  <2>1. PICK j \in 1 .. cursor[w] : c.chunk = feed[j]
    BY <1>p, <1>q, <1>t DEF WindowsOK
  <2>2. j \in DOMAIN feed /\ j <= cursor[w]
    BY <1>t, Taken
  <2>3. c = PlayCall(feed[j])
    BY <1>p, <1>q, <2>1, CallKinds
  <2>4. Play(feed[j])
    BY <1>p, <1>q, <2>1 DEF Handle
  <2> QED BY <2>2, <2>3, <2>4
<1>s. ASSUME c.cmd # "play" PROVE Stop
  BY <1>s DEF Handle
<1>o. WorkerOK'
  <2>1. CASE c.cmd = "play"
    BY <1>p, <1>t, <1>u, <2>1, PlayKeepsOK
  <2>2. CASE c.cmd # "play"
    <3>1. worker' = Reset(NoTurn)
      BY <1>s, <2>2 DEF Stop
    <3>2. WorkerInv'
      BY <3>1, ResetType, ResetOrderly DEF WorkerInv
    <3>3. worker'.seen = {} /\ worker'.accepted = <<>>
      BY <3>1 DEF Reset
    <3> QED BY <3>2, <3>3 DEF WorkerOK
  <2> QED BY <2>1, <2>2
<1>a. aired' \subseteq Chunk
  BY <1>t, <1>o, NewlyFedType DEF Handle, WorkerOK
<1>h. ASSUME NEW p \in Nat, NEW i, PlaysAfter(w, p + 1, i) PROVE PlaysAfter(w, p, i)'
  <2>1. PICK y \in DOMAIN q : y > p + 1 /\ q[y] = PlayCall(feed[i])
    BY <1>h DEF PlaysAfter
  <2>2. y # 1
    BY <2>1
  <2>3. PICK n \in DOMAIN r : y = n + 1 /\ r[n] = PlayCall(feed[i])
    BY <1>q, <2>1, <2>2
  <2>4. n \in Nat /\ n > p
    BY <1>q, <2>1, <2>3
  <2> QED BY <2>3, <2>4, <1>v, <1>u DEF PlaysAfter
<1>z. ASSUME NEW p \in Nat, StopsAfter(w, p + 1) PROVE StopsAfter(w, p)'
  <2>1. PICK y \in DOMAIN q : y > p + 1 /\ q[y] = StopCall
    BY <1>z DEF StopsAfter
  <2>2. y # 1
    BY <2>1
  <2>3. PICK n \in DOMAIN r : y = n + 1 /\ r[n] = StopCall
    BY <1>q, <2>1, <2>2
  <2>4. n \in Nat /\ n > p
    BY <1>q, <2>1, <2>3
  <2> QED BY <2>3, <2>4, <1>v DEF StopsAfter
<1> HIDE DEF q, c, r
<1>1. WindowsOK'
  <2>1. calls' \in [Windows -> Seq(Call)]
    BY <1>t, <1>v, <1>q DEF WindowsOK
  <2>2. \A x \in Windows : \A p \in DOMAIN calls'[x] :
          calls'[x][p].cmd = "play" => \E i \in 1 .. cursor[x] : calls'[x][p].chunk = feed[i]
    <3> TAKE x \in Windows
    <3>1. CASE x # w
      BY <3>1, <1>v, <1>t DEF WindowsOK
    <3>2. CASE x = w
      <4>1. \A p \in DOMAIN q : q[p].cmd = "play" => \E i \in 1 .. cursor[w] : q[p].chunk = feed[i]
        BY <1>t DEF WindowsOK, q
      <4>2. \A p \in DOMAIN r : r[p].cmd = "play" => \E i \in 1 .. cursor[w] : r[p].chunk = feed[i]
        <5> TAKE p \in DOMAIN r
        <5>1. p + 1 \in DOMAIN q /\ r[p] = q[p + 1]
          BY <1>q
        <5> QED BY <5>1, <4>1
      <4> QED BY <4>2, <3>2, <1>v
    <3> QED BY <3>1, <3>2
  <2> QED BY <1>t, <1>u, <2>1, <2>2 DEF WindowsOK
<1>2. ASSUME feed # <<>> PROVE Coverage'
  <2>1. ASSUME NEW x \in Windows PROVE Resumes(x)'
    <3>0. Resumes(x)
      BY <1>2, <1>t DEF Coverage
    <3>1. CASE x # w
      BY <3>0, <3>1, <1>v, <1>u, <1>f DEF Resumes, Clears, PlaysAfter
    <3>2. CASE x = w
      <4>1. ASSUME Reached(w), ~entered[w], NEW p \in DOMAIN r, NEW i \in 1 .. cursor[w],
                   Clears(r[p]), InRun(i)
            PROVE  PlaysAfter(w, p, i)'
        <5>1. p + 1 \in DOMAIN q /\ q[p + 1] = r[p] /\ p \in Nat
          BY <1>q
        <5>2. PlaysAfter(w, p + 1, i)
          BY <3>0, <3>2, <4>1, <5>1 DEF Resumes, q
        <5> QED BY <5>1, <5>2, <1>h
      <4> QED BY <3>0, <3>2, <4>1, <1>v, <1>u, <1>f DEF Resumes, Clears
    <3> QED BY <3>1, <3>2
  <2>2. ASSUME Calm, NEW i \in DOMAIN feed, InRun(i) PROVE Covered(i)'
    <3>0. Covered(i) /\ Resumes(w)
      BY <2>2, <1>2, <1>t DEF Coverage
    <3>n. i \in Nat /\ i >= 1 /\ cursor[w] \in Nat
      BY <1>t, FrameIs, Taken DEF FeedOrderly
    <3>1. CASE Clears(c)
      <4>1. CASE i <= cursor[w]
        <5>1. i \in 1 .. cursor[w]
          BY <4>1, <3>n
        <5>r. Reached(w) /\ ~entered[w]
          BY <5>1, <2>2 DEF Reached, Calm
        <5>2. PlaysAfter(w, 0 + 1, i)
          BY <3>0, <3>1, <5>1, <5>r, <2>2, <1>q DEF Resumes, q, c
        <5>3. PlaysAfter(w, 0, i)'
          BY <5>2, <1>h
        <5> QED BY <5>3 DEF Covered
      <4>2. CASE ~(i <= cursor[w])
        <5>1. cursor'[w] < i
          BY <4>2, <3>n, <1>u
        <5> QED BY <5>1 DEF Covered
      <4> QED BY <4>1, <4>2
    <3>2. CASE ~Clears(c)
      <4>1. PICK j \in DOMAIN feed : c = PlayCall(feed[j]) /\ Play(feed[j])
        BY <3>2, <1>p DEF Clears
      <4>2. feed[j].turn = Newest
        BY <3>2, <4>1, CallKinds DEF Clears
      <4>3. worker'.turn = Newest /\ feed[j].seq \in worker'.seen
            /\ (worker.turn = Newest => worker.seen \subseteq worker'.seen)
        BY <4>1, <4>2, <1>t, <1>u, PlayKeepsOK
      <4>4. CASE worker.turn = Newest /\ feed[i].seq \in worker.seen
        BY <4>3, <4>4, <1>u, <1>f DEF Covered
      <4>5. ASSUME NEW x \in Windows, cursor[x] < i PROVE Covered(i)'
        BY <4>5, <1>u DEF Covered
      <4>6. ASSUME NEW x \in Windows, x # w, PlaysAfter(x, 0, i) PROVE Covered(i)'
        BY <4>6, <1>u, <1>v DEF Covered, PlaysAfter
      <4>7. CASE PlaysAfter(w, 0, i)
        <5>1. PICK y \in DOMAIN q : y > 0 /\ q[y] = PlayCall(feed[i])
          BY <4>7 DEF PlaysAfter, q
        <5>2. CASE y = 1
          <6>1. c = PlayCall(feed[i])
            BY <5>1, <5>2 DEF c, q
          <6>2. PlayCall(feed[i]).chunk = feed[i] /\ PlayCall(feed[j]).chunk = feed[j]
            BY DEF PlayCall
          <6>3. feed[i] = feed[j]
            BY <6>1, <6>2, <4>1
          <6> QED BY <6>3, <4>3, <1>u, <1>f DEF Covered
        <5>3. CASE y # 1
          <6>1. \E n \in DOMAIN r : n > 0 /\ r[n] = PlayCall(feed[i])
            BY <5>1, <5>3, <1>q
          <6> QED BY <6>1, <1>v, <1>u DEF Covered, PlaysAfter
        <5> QED BY <5>2, <5>3
      <4> QED BY <3>0, <4>4, <4>5, <4>6, <4>7 DEF Covered
    <3> QED BY <3>1, <3>2
  <2>3. Calm' => Calm
    BY <1>u, <1>f DEF Calm
  <2> QED BY <2>1, <2>2, <2>3, <1>u, <1>f DEF Coverage
<1>3. FeedOrderly'
  BY <1>t, <1>u, <1>f DEF FeedOrderly
<1>4. ASSUME NEW x \in Windows PROVE Purges(x)'
  <2>0. Purges(x)
    BY <1>t DEF Freshness
  <2>1. CASE x # w
    BY <2>0, <2>1, <1>v, <1>u, <1>f DEF Purges, StopsAfter
  <2>2. CASE x = w
    <3>1. ASSUME Reached(w), NEW p \in DOMAIN r, NEW i \in DOMAIN feed, ~InRun(i),
                 r[p] = PlayCall(feed[i])
          PROVE  StopsAfter(w, p)'
      <4>1. p + 1 \in DOMAIN q /\ q[p + 1] = r[p] /\ p \in Nat
        BY <1>q
      <4>2. StopsAfter(w, p + 1)
        BY <2>0, <2>2, <3>1, <4>1 DEF Purges, q
      <4> QED BY <4>1, <4>2, <1>z
    <3> QED BY <2>2, <3>1, <1>v, <1>u, <1>f DEF Purges, PlayCall
  <2> QED BY <2>1, <2>2
<1>5. ASSUME HoldsOld' PROVE \E x \in Windows : WillStop(x)'
  <2>1. PICK k \in DOMAIN worker'.accepted, i \in DOMAIN feed :
          ~InRun(i) /\ worker'.accepted[k] = feed[i]
    BY <1>5, <1>u, <1>f DEF HoldsOld
  <2>2. c.cmd = "play"
    <3> SUFFICES ASSUME c.cmd # "play" PROVE FALSE
      OBVIOUS
    <3>1. worker'.accepted = <<>>
      BY <1>s DEF Stop, Reset
    <3> QED BY <3>1, <2>1
  <2>3. PICK j \in DOMAIN feed : j <= cursor[w] /\ c = PlayCall(feed[j]) /\ Play(feed[j])
    BY <2>2, <1>p
  <2>4. \/ \E n \in DOMAIN worker.accepted : worker'.accepted[k] = worker.accepted[n]
        \/ worker'.accepted[k] = feed[j]
    <3>1. feed[j] \in Chunk /\ WorkerInv /\ worker.accepted \in Seq(Chunk)
      BY <1>t, FrameIs DEF FeedOrderly, WorkerOK, WorkerInv, WorkerType
    <3> DEFINE g == feed[j]
               a == worker.accepted
               b == worker'.accepted
    <3>2. b \in {a, Append(a, g), <<>>, Append(<<>>, g)}
      BY <2>3, <3>1, PlayNotes
    <3> HIDE DEF a, b, g
    <3>3. a \in Seq(Chunk) /\ g \in Chunk
      BY <3>1 DEF a, g
    <3>4. \A y \in DOMAIN b : (\E n \in DOMAIN a : b[y] = a[n]) \/ b[y] = g
      BY <3>2, <3>3
    <3> QED BY <3>4, <2>1 DEF a, b, g
  <2>5. CASE worker'.accepted[k] = feed[j]
    <3>1. i = j
      BY <2>1, <2>5, <1>t, FrameOnce
    <3>2. ASSUME Reached(w) PROVE StopsAfter(w, 0)'
      <4>1. Purges(w)
        BY <1>t DEF Freshness
      <4>2. StopsAfter(w, 0 + 1)
        BY <4>1, <3>1, <3>2, <2>1, <2>3, <1>q DEF Purges, q, c
      <4> QED BY <4>2, <1>z
    <3> QED BY <3>2, <1>f DEF WillStop
  <2>6. ASSUME NEW n \in DOMAIN worker.accepted, worker'.accepted[k] = worker.accepted[n]
        PROVE  \E x \in Windows : WillStop(x)'
    <3>1. HoldsOld
      BY <2>1, <2>6 DEF HoldsOld
    <3>2. PICK x \in Windows : WillStop(x)
      BY <3>1, <1>t DEF Freshness
    <3>3. CASE x # w
      BY <3>2, <3>3, <1>v, <1>f DEF WillStop, StopsAfter
    <3>4. CASE x = w
      <4>1. ASSUME Reached(w) PROVE StopsAfter(w, 0)'
        <5>1. PICK y \in DOMAIN q : y > 0 /\ q[y] = StopCall
          BY <3>2, <3>4, <4>1 DEF WillStop, StopsAfter, q
        <5>2. y # 1
          BY <5>1, <2>2, CallKinds DEF q, c
        <5>3. PICK z \in DOMAIN r : y = z + 1 /\ r[z] = StopCall
          BY <1>q, <5>1, <5>2
        <5>4. z > 0
          BY <1>q, <5>3
        <5> QED BY <5>3, <5>4, <1>v DEF StopsAfter
      <4> QED BY <4>1, <1>f DEF WillStop
    <3> QED BY <3>3, <3>4
  <2> QED BY <2>4, <2>5, <2>6
<1>6. Freshness'
  BY <1>4, <1>5 DEF Freshness
<1> QED BY <1>o, <1>a, <1>1, <1>2, <1>3, <1>6, <1>t, <1>u DEF Playback

(* The deadline expires: the buffer moves, nothing else.                   *)
LEMMA ExpireKeeps == ASSUME Playback, Expire PROVE Playback'
<1>t. /\ FeedOrderly /\ WindowsOK /\ WorkerOK /\ (feed # <<>> => Coverage) /\ Freshness
      /\ aired \subseteq Chunk
  BY DEF Playback
<1>u. UNCHANGED <<feed, cursor, moduleTurn, hookTurn, mounted, entered, toggles, calls>>
  BY DEF Expire, window
<1>f. Newest' = Newest /\ Latest' = Latest /\ (\A i : InRun(i)' <=> InRun(i))
      /\ (\A x : Reached(x)' <=> Reached(x))
  BY <1>u DEF Newest, Latest, InRun, Reached
<1>w. /\ WorkerInv' /\ worker'.turn = worker.turn /\ worker'.seen = worker.seen
      /\ worker'.accepted = worker.accepted
  BY <1>t, DeadlineKeeps DEF Expire, WorkerOK
<1>1. WorkerOK'
  BY <1>t, <1>u, <1>w DEF WorkerOK
<1>2. WindowsOK' /\ FeedOrderly'
  BY <1>t, <1>u, <1>f DEF WindowsOK, FeedOrderly
<1>3. feed # <<>> => Coverage'
  BY <1>t, <1>u, <1>f, <1>w DEF Coverage, Resumes, Clears, PlaysAfter, Covered, Calm
<1>4. aired' \subseteq Chunk
  BY <1>t, <1>w, NewlyFedType DEF Expire, WorkerOK
<1>5. Freshness'
  BY <1>t, <1>u, <1>f, <1>w DEF Freshness, Purges, StopsAfter, WillStop, HoldsOld
<1> QED BY <1>1, <1>2, <1>3, <1>4, <1>5, <1>u DEF Playback

(* Nothing is broadcast at the start.                                      *)
LEMMA PlaybackStarts == PInit => Playback
<1> SUFFICES ASSUME PInit PROVE Playback
  OBVIOUS
<1>1. WorkerInv
  BY ResetType, ResetOrderly DEF PInit, Init, WorkerInv
<1>2. WorkerOK
  BY <1>1 DEF PInit, Init, Reset, WorkerOK
<1>3. FeedOrderly
  BY DEF PInit, FeedOrderly
<1>4. WindowsOK
  <2>1. <<>> \in Seq(Call) /\ 0 \in 0 .. Len(feed)
    BY DEF PInit
  <2> QED BY <2>1 DEF PInit, WindowsOK
<1>5. aired \subseteq Chunk /\ toggles \in 0 .. MaxToggles /\ feed = <<>>
  BY PlaybackAssumption DEF PInit
<1>6. Freshness
  BY <1>5 DEF Freshness, Purges, HoldsOld
<1> QED BY <1>2, <1>3, <1>4, <1>5, <1>6 DEF Playback

(* Every step keeps the invariant.                                         *)
LEMMA PlaybackStep == Playback /\ [PNext]_pvars => Playback'
<1> SUFFICES ASSUME Playback, [PNext]_pvars PROVE Playback'
  OBVIOUS
<1>1. CASE UNCHANGED pvars
  <2>1. UNCHANGED <<worker, feed, cursor, moduleTurn, hookTurn, mounted, entered, toggles, calls, aired>>
    BY <1>1 DEF pvars, window
  <2>2. FeedOrderly' /\ WindowsOK' /\ WorkerOK'
    BY <2>1 DEF Playback, FeedOrderly, WindowsOK, WorkerOK, WorkerInv, Newest, Latest
  <2>3. feed # <<>> => Coverage'
    BY <2>1 DEF Playback, Coverage, Resumes, Clears, PlaysAfter, Covered, Calm, Reached,
             InRun, Newest, Latest
  <2>4. Freshness'
    BY <2>1 DEF Playback, Freshness, Purges, StopsAfter, WillStop, HoldsOld, Reached, InRun, Latest
  <2> QED BY <2>1, <2>2, <2>3, <2>4 DEF Playback
<1> QED BY <1>1, BroadcastKeeps, DeliverKeeps, ToggleKeeps, HandleKeeps, ExpireKeeps DEF PNext

(* The invariant is one of the specification.                              *)
THEOREM PlaybackInvariance == PSpec => []Playback
BY PlaybackStarts, PlaybackStep, PTL DEF PSpec

(* The state of the windows, of their calls and of the worker keeps its    *)
(* type.                                                                   *)
THEOREM PlaybackTypeCorrect == PSpec => []PTypeOK
<1>1. Playback => PTypeOK
  BY DEF Playback, FeedOrderly, WindowsOK, WorkerOK, WorkerInv, PTypeOK, TypeOK
<1> QED BY <1>1, PlaybackInvariance, PTL

(* The worker holds chunks back rightly whatever the windows ask of it.    *)
THEOREM PlaybackHeldCorrect == PSpec => []HeldRightly
<1>1. Playback => HeldRightly
  BY HeldOnly, HeldInTurn DEF Playback, WorkerOK, HeldRightly
<1> QED BY <1>1, PlaybackInvariance, PTL

(* When all is settled and nobody entered the page meanwhile, the sink has *)
(* been fed every chunk of the latest run and nothing else.                *)
LEMMA SettledComplete ==
  ASSUME Playback, Settled, NothingDropped, NotEntered
  PROVE  /\ Elements(worker.sink) = LatestRun
         /\ Undivided => Elements(worker.sink) = LatestReply
<1>t. FeedOrderly /\ WindowsOK /\ WorkerOK /\ feed # <<>> /\ Coverage /\ Freshness
  BY DEF Playback, Settled
<1>n. /\ feed \in Seq(Chunk) /\ Len(feed) \in DOMAIN feed /\ InRun(Len(feed))
      /\ \A i \in DOMAIN feed : InRun(i) => feed[i].turn = Newest
  <2>1. \A i \in DOMAIN feed : i >= i
    BY <1>t, FrameIs DEF FeedOrderly
  <2> QED BY <2>1, <1>t, RunFacts DEF FeedOrderly
<1>c. Calm
  BY DEF Calm, NotEntered
<1>1. ASSUME NEW i \in DOMAIN feed, InRun(i)
      PROVE  worker.turn = Newest /\ feed[i].seq \in worker.seen
  <2>1. Covered(i)
    BY <1>1, <1>c, <1>t DEF Coverage
  <2>2. i \in Nat /\ i <= Len(feed) /\ Len(feed) \in Nat
    BY <1>t, FrameIs DEF FeedOrderly
  <2>3. \A w \in Windows : cursor[w] = Len(feed) /\ calls[w] = <<>>
    BY DEF Settled
  <2>4. \A w \in Windows : ~PlaysAfter(w, 0, i)
    BY <2>3 DEF PlaysAfter
  <2>5. \A w \in Windows : ~(cursor[w] < i)
    BY <2>2, <2>3
  <2> QED BY <2>1, <2>4, <2>5 DEF Covered
<1>2. worker.turn = Newest
  BY <1>1, <1>n
<1>3. ~HoldsOld
  <2>1. ASSUME NEW w \in Windows PROVE ~WillStop(w)
    <3>1. cursor[w] = Len(feed) /\ calls[w] = <<>>
      BY DEF Settled
    <3>2. Len(feed) \in 1 .. cursor[w]
      BY <3>1, <1>n
    <3>3. Reached(w)
      BY <3>2, <1>n DEF Reached
    <3>4. ~StopsAfter(w, 0)
      BY <3>1 DEF StopsAfter
    <3> QED BY <3>3, <3>4 DEF WillStop
  <2> QED BY <2>1, <1>t DEF Freshness
<1>4. ASSUME NEW i \in DOMAIN worker.accepted PROVE worker.accepted[i] \in LatestRun
  <2>1. PICK j \in DOMAIN feed : worker.accepted[i] = feed[j] /\ feed[j].len > 0
    BY <1>t DEF WorkerOK
  <2>2. InRun(j)
    BY <2>1, <1>3 DEF HoldsOld
  <2> QED BY <2>1, <2>2 DEF LatestRun
<1>5. ASSUME NEW c \in LatestRun PROVE \E j \in DOMAIN worker.accepted : worker.accepted[j] = c
  <2>1. PICK i \in DOMAIN feed : c = feed[i] /\ InRun(i) /\ feed[i].len > 0
    BY DEF LatestRun
  <2>2. feed[i].turn = worker.turn /\ feed[i].seq \in worker.seen
    BY <2>1, <1>1, <1>2, <1>n
  <2> QED BY <2>1, <2>2, <1>t DEF WorkerOK
<1>6. worker.sink = worker.accepted
  BY DEF NothingDropped
<1>7. Elements(worker.sink) = LatestRun
  BY <1>4, <1>5, <1>6 DEF Elements
<1>8. ASSUME Undivided PROVE LatestRun = LatestReply
  <2>1. ASSUME NEW c \in LatestReply PROVE c \in LatestRun
    <3>1. PICK i \in DOMAIN feed : c = feed[i] /\ feed[i].turn = Latest.turn /\ feed[i].len > 0
      BY DEF LatestReply, Elements
    <3>2. InRun(i)
      BY <3>1, <1>8 DEF Undivided, Frames
    <3> QED BY <3>1, <3>2 DEF LatestRun
  <2>2. ASSUME NEW c \in LatestRun PROVE c \in LatestReply
    <3>1. PICK i \in DOMAIN feed : c = feed[i] /\ InRun(i) /\ feed[i].len > 0
      BY DEF LatestRun
    <3> QED BY <3>1, <1>n DEF LatestReply, Elements, Newest
  <2> QED BY <2>1, <2>2
<1> QED BY <1>7, <1>8

(* However the replies overlap and whatever chunks fail, whatever the      *)
(* number of windows, however their calls interleave, however far one lags *)
(* behind the others and however often the Avatar pages are left and       *)
(* entered at other times: the latest run is fed whole and alone, which is *)
(* the whole reply where no other came between its frames.                 *)
THEOREM CompleteCorrect == PSpec => []LatestReplyComplete
<1>1. Playback => LatestReplyComplete
  BY SettledComplete DEF LatestReplyComplete
<1> QED BY <1>1, PlaybackInvariance, PTL

-----------------------------------------------------------------------------
(***************************************************************************)
(* III.  One window.  Its calls reach the worker in the order in which it  *)
(* took the frames, repeats included, so that what is accepted rises.      *)
(***************************************************************************)
IsPlay(c, f) == c.cmd = "play" /\ c.chunk = f

(* No later call plays an earlier frame of a turn, and none plays one from *)
(* before what the worker accepted.                                        *)
Lined(w) ==
  /\ \A p, q \in DOMAIN calls[w], f, g \in Chunk :
       p < q /\ IsPlay(calls[w][p], f) /\ IsPlay(calls[w][q], g) /\ f.turn = g.turn => f.seq <= g.seq
  /\ \A i \in DOMAIN worker.accepted, p \in DOMAIN calls[w], g \in Chunk :
       IsPlay(calls[w][p], g) /\ worker.accepted[i].turn = g.turn => worker.accepted[i].seq <= g.seq
  /\ \A i \in DOMAIN worker.accepted : \E j \in 1 .. cursor[w] : worker.accepted[i] = feed[j]
  /\ Rising(worker.accepted)

(* Taking a frame.                                                         *)
LEMMA DeliverLines == ASSUME Playback, NEW w \in Windows, Lined(w), Deliver(w) PROVE Lined(w)'
<1>t. FeedOrderly /\ WindowsOK
  BY DEF Playback
<1> DEFINE f == feed[cursor[w] + 1]
           q == calls[w]
<1>d. /\ cursor[w] + 1 \in DOMAIN feed /\ cursor[w] \in Nat
      /\ \E r, clean, stop : calls' = [calls EXCEPT ![w] = r] /\ Extended(calls[w], r, f, clean, stop)
      /\ cursor' = [cursor EXCEPT ![w] = @ + 1]
      /\ UNCHANGED <<worker, feed, mounted, toggles, aired>>
  BY <1>t, Delivered
<1>r. PICK r, clean, stop : calls' = [calls EXCEPT ![w] = r] /\ Extended(q, r, f, clean, stop)
  BY <1>d
<1>v. calls'[w] = r /\ cursor'[w] = cursor[w] + 1 /\ UNCHANGED <<worker, feed>>
  BY <1>d, <1>r, <1>t DEF WindowsOK
<1>f. f \in Chunk /\ f.seq \in Nat
  BY <1>d, <1>t, FrameIs DEF FeedOrderly
<1>e. ASSUME NEW k \in 1 .. cursor[w], feed[k].turn = f.turn PROVE feed[k].seq < f.seq
  <2>1. k \in DOMAIN feed /\ k < cursor[w] + 1
    BY <1>t, <1>d, Taken
  <2> QED BY <1>e, <2>1, <1>d, <1>t DEF FeedOrderly
<1>n. \A g \in Chunk : g.seq \in Nat
  BY WorkerAssumption DEF Chunk
<1>q. \A p \in DOMAIN q, g \in Chunk : IsPlay(q[p], g) => \E k \in 1 .. cursor[w] : g = feed[k]
  BY <1>t DEF WindowsOK, IsPlay, q
<1> HIDE DEF f
<1>p. /\ \A p \in DOMAIN q : p \in DOMAIN r /\ r[p] = q[p] /\ p \in Nat
      /\ \A p \in DOMAIN r : p \in Nat
      /\ \A p, s \in DOMAIN r : p < s /\ s \in DOMAIN q => p \in DOMAIN q
      /\ \A p \in DOMAIN r, g \in Chunk : p \notin DOMAIN q /\ IsPlay(r[p], g) => g = f
  <2>1. q \in Seq(Call) /\ r \in Seq(Call) /\ \A p \in DOMAIN q : p \in DOMAIN r /\ r[p] = q[p]
    BY <1>t, <1>r DEF WindowsOK, Extended
  <2>2. \A p \in DOMAIN r : p \notin DOMAIN q => r[p] \in {StopCall, PlayCall(f)}
    BY <1>r DEF Extended
  <2>3. \A g \in Chunk : ~IsPlay(StopCall, g) /\ (IsPlay(PlayCall(f), g) => g = f)
    BY CallKinds DEF IsPlay, PlayCall
  <2> HIDE DEF q
  <2>4. \A p, s \in DOMAIN r : p < s /\ s \in DOMAIN q => p \in DOMAIN q
    BY <2>1
  <2> QED BY <2>1, <2>2, <2>3, <2>4
<1>1. ASSUME NEW p \in DOMAIN r, NEW s \in DOMAIN r, NEW a \in Chunk, NEW b \in Chunk,
             p < s, IsPlay(r[p], a), IsPlay(r[s], b), a.turn = b.turn
      PROVE  a.seq <= b.seq
  <2>1. CASE s \in DOMAIN q
    <3>1. p \in DOMAIN q /\ r[p] = q[p] /\ r[s] = q[s]
      BY <1>1, <1>p, <2>1
    <3> QED BY <3>1, <2>1, <1>1 DEF Lined, q
  <2>2. CASE s \notin DOMAIN q
    <3>1. b = f
      BY <1>1, <1>p, <2>2
    <3>2. CASE p \notin DOMAIN q
      <4>1. a = f
        BY <1>1, <1>p, <3>2
      <4> QED BY <3>1, <4>1, <1>f
    <3>3. CASE p \in DOMAIN q
      <4>1. PICK k \in 1 .. cursor[w] : a = feed[k]
        BY <1>1, <1>p, <1>q, <3>3
      <4>2. a.seq < f.seq
        BY <4>1, <3>1, <1>1, <1>e
      <4> QED BY <4>2, <3>1, <1>n
    <3> QED BY <3>2, <3>3
  <2> QED BY <2>1, <2>2
<1>2. ASSUME NEW i \in DOMAIN worker.accepted, NEW p \in DOMAIN r, NEW g \in Chunk,
             IsPlay(r[p], g), worker.accepted[i].turn = g.turn
      PROVE  worker.accepted[i].seq <= g.seq
  <2>1. CASE p \in DOMAIN q
    BY <2>1, <1>2, <1>p DEF Lined, q
  <2>2. CASE p \notin DOMAIN q
    <3>1. g = f
      BY <2>2, <1>2, <1>p
    <3>2. PICK k \in 1 .. cursor[w] : worker.accepted[i] = feed[k]
      BY DEF Lined
    <3>3. feed[k].seq < f.seq /\ feed[k].seq \in Nat
      <4>1. k \in DOMAIN feed
        BY <1>t, Taken
      <4> QED BY <4>1, <3>1, <3>2, <1>2, <1>e, <1>t, FrameIs DEF FeedOrderly
    <3> QED BY <3>1, <3>2, <3>3, <1>f
  <2> QED BY <2>1, <2>2
<1>3. \A i \in DOMAIN worker.accepted : \E j \in 1 .. cursor[w] + 1 : worker.accepted[i] = feed[j]
  <2>1. \A j \in 1 .. cursor[w] : j \in 1 .. cursor[w] + 1
    BY <1>d
  <2> QED BY <2>1 DEF Lined
<1>4. Rising(worker.accepted)'
  BY <1>v DEF Lined, Rising
<1> QED BY <1>1, <1>2, <1>3, <1>4, <1>v DEF Lined

(* The worker handles a call.                                              *)
LEMMA HandleLines == ASSUME Playback, NEW w \in Windows, Lined(w), Handle(w) PROVE Lined(w)'
<1>t. FeedOrderly /\ WindowsOK /\ WorkerOK
  BY DEF Playback
<1> DEFINE q == calls[w]
           c == calls[w][1]
           r == Tail(calls[w])
<1>u. UNCHANGED <<feed, cursor>>
  BY DEF Handle, window
<1>q. /\ q \in Seq(Call) /\ 1 \in DOMAIN q /\ c = Head(q) /\ c \in Call
      /\ \A p \in DOMAIN r : p \in Nat /\ p + 1 \in DOMAIN q /\ 1 < p + 1 /\ r[p] = q[p + 1]
  <2>1. q \in Seq(Call) /\ q # <<>>
    BY <1>t DEF WindowsOK, Handle
  <2> HIDE DEF q
  <2>2. Head(q) = q[1] /\ q[1] \in Call /\ 1 \in DOMAIN q
    BY <2>1
  <2>3. \A p \in DOMAIN Tail(q) : p \in Nat /\ p + 1 \in DOMAIN q /\ 1 < p + 1 /\ Tail(q)[p] = q[p + 1]
    BY <2>1
  <2> USE DEF q
  <2> QED BY <2>1, <2>2, <2>3
<1>v. calls'[w] = r
  BY <1>t DEF Handle, WindowsOK
<1>1. ASSUME NEW p \in DOMAIN r, NEW s \in DOMAIN r, NEW a \in Chunk, NEW b \in Chunk,
             p < s, IsPlay(r[p], a), IsPlay(r[s], b), a.turn = b.turn
      PROVE  a.seq <= b.seq
  <2>1. /\ p + 1 \in DOMAIN q /\ s + 1 \in DOMAIN q /\ p + 1 < s + 1
        /\ r[p] = q[p + 1] /\ r[s] = q[s + 1]
    BY <1>q, <1>1
  <2> HIDE DEF r
  <2> QED BY <2>1, <1>1 DEF Lined, q
<1>2. CASE c.cmd # "play"
  <2>1. worker' = Reset(NoTurn)
    BY <1>2, <1>q DEF Handle, Stop
  <2>2. worker'.accepted = <<>>
    BY <2>1 DEF Reset
  <2> HIDE DEF q, r, c
  <2>3. Rising(worker'.accepted)
    BY <2>2 DEF Rising
  <2> QED BY <1>1, <1>v, <2>2, <2>3 DEF Lined, Rising
<1>3. CASE c.cmd = "play"
  <2> DEFINE g == c.chunk
             a == worker.accepted
  <2>1. PICK j \in 1 .. cursor[w] : g = feed[j]
    BY <1>3, <1>q, <1>t DEF WindowsOK
  <2>2. Play(g) /\ g \in Chunk /\ IsPlay(c, g) /\ g.seq \in Nat
    <3>1. j \in DOMAIN feed
      BY <1>t, Taken
    <3>2. g \in Chunk /\ g.seq \in Nat
      BY <3>1, <2>1, <1>t, FrameIs DEF FeedOrderly
    <3>3. Play(g)
      BY <1>3, <1>q DEF Handle
    <3> QED BY <3>2, <3>3, <1>3 DEF IsPlay
  <2>3. \A p \in DOMAIN r, h \in Chunk : IsPlay(r[p], h) /\ h.turn = g.turn => g.seq <= h.seq
    <3> TAKE p \in DOMAIN r, h \in Chunk
    <3>1. p + 1 \in DOMAIN q /\ 1 < p + 1 /\ r[p] = q[p + 1] /\ 1 \in DOMAIN q /\ q[1] = c
      BY <1>q
    <3> HIDE DEF r, g, c
    <3> QED BY <3>1, <2>2 DEF Lined, q
  <2>4. \A i \in DOMAIN a, p \in DOMAIN r, h \in Chunk :
          IsPlay(r[p], h) /\ a[i].turn = h.turn => a[i].seq <= h.seq
    <3> TAKE i \in DOMAIN a, p \in DOMAIN r, h \in Chunk
    <3>1. p + 1 \in DOMAIN q /\ r[p] = q[p + 1]
      BY <1>q
    <3> HIDE DEF r
    <3> QED BY <3>1 DEF Lined, q
  <2>5. \A i \in DOMAIN a : /\ a[i].turn = g.turn => a[i].seq <= g.seq
                            /\ a[i].seq \in Nat /\ a[i].turn = worker.turn /\ a[i].seq \in worker.seen
    <3>1. ASSUME NEW i \in DOMAIN a, a[i].turn = g.turn PROVE a[i].seq <= g.seq
      <4>1. 1 \in DOMAIN calls[w] /\ IsPlay(calls[w][1], g)
        BY <1>q, <2>2
      <4> HIDE DEF g
      <4> QED BY <4>1, <3>1, <2>2 DEF Lined
    <3>2. ASSUME NEW i \in DOMAIN a
          PROVE  a[i].seq \in Nat /\ a[i].turn = worker.turn /\ a[i].seq \in worker.seen
      <4>1. a \in Seq(Chunk) /\ a[i] \in Chunk
        BY <1>t DEF WorkerOK, WorkerInv, WorkerType
      <4>2. a[i].seq \in Nat
        BY <4>1, WorkerAssumption DEF Chunk
      <4> QED BY <4>2, <1>t DEF WorkerOK, WorkerInv, Orderly
    <3> QED BY <3>1, <3>2
  <2>6. \A i \in DOMAIN a : \E k \in 1 .. cursor[w] : a[i] = feed[k]
    BY DEF Lined
  <2>7. a \in Seq(Chunk) /\ WorkerInv /\ Rising(a)
    BY <1>t DEF WorkerOK, WorkerInv, WorkerType, Lined
  <2>8. /\ worker.turn = g.turn /\ g.seq \in worker.seen => worker' = worker
        /\ worker.turn = g.turn /\ g.seq \notin worker.seen =>
             worker'.accepted = IF g.len = 0 THEN a ELSE Append(a, g)
        /\ worker.turn # g.turn => worker'.accepted = IF g.len = 0 THEN <<>> ELSE Append(<<>>, g)
    BY <2>2, <2>7, PlayNotes
  <2>9. \/ worker'.accepted = a
        \/ worker'.accepted = <<>>
        \/ worker'.accepted = Append(<<>>, g)
        \/ /\ worker'.accepted = Append(a, g)
           /\ worker.turn = g.turn /\ g.seq \notin worker.seen
    <3>1. CASE worker.turn = g.turn /\ g.seq \in worker.seen
      BY <2>8, <3>1
    <3>2. CASE worker.turn = g.turn /\ g.seq \notin worker.seen
      <4> HIDE DEF g
      <4>1. CASE g.len = 0
        BY <2>8, <3>2, <4>1
      <4>2. CASE g.len # 0
        BY <2>8, <3>2, <4>2
      <4> QED BY <4>1, <4>2
    <3>3. CASE worker.turn # g.turn
      <4> HIDE DEF g, a
      <4>1. CASE g.len = 0
        BY <2>8, <3>3, <4>1
      <4>2. CASE g.len # 0
        BY <2>8, <3>3, <4>2
      <4> QED BY <4>1, <4>2
    <3> QED BY <3>1, <3>2, <3>3
  <2> HIDE DEF g, a, r, q, c
  <2>10. CASE worker'.accepted = a
    BY <2>10, <2>4, <2>6, <2>7, <1>1, <1>u, <1>v DEF Lined
  <2>11. CASE worker'.accepted = <<>>
    <3>1. Rising(<<>>)
      BY DEF Rising
    <3> QED BY <2>11, <3>1, <1>1, <1>v DEF Lined
  <2>12. CASE worker'.accepted = Append(<<>>, g)
    <3> DEFINE b == worker'.accepted
    <3>1. DOMAIN b = {1} /\ b[1] = g
      BY <2>12
    <3> HIDE DEF b
    <3>2. Rising(b)
      BY <3>1 DEF Rising
    <3>3. b = worker'.accepted
      BY DEF b
    <3> QED BY <3>1, <3>2, <3>3, <2>1, <2>3, <1>1, <1>u, <1>v DEF Lined
  <2>13. CASE worker'.accepted = Append(a, g) /\ worker.turn = g.turn /\ g.seq \notin worker.seen
    <3> DEFINE b == worker'.accepted
               n == Len(a) + 1
    <3>1. /\ n \in DOMAIN b /\ b[n] = g /\ \A i \in DOMAIN a : i \in DOMAIN b /\ b[i] = a[i] /\ i \in Nat
          /\ \A i \in DOMAIN b : (i \in DOMAIN a /\ i < n) \/ i = n
          /\ n \in Nat
      BY <2>13, <2>7, <2>2
    <3> HIDE DEF b, n
    <3>2. \A i \in DOMAIN a : a[i].seq < g.seq
      <4> TAKE i \in DOMAIN a
      <4>1. a[i].seq <= g.seq /\ a[i].seq # g.seq /\ a[i].seq \in Nat
        BY <2>5, <2>13
      <4> QED BY <4>1, <2>2
    <3>3. Rising(b)
      <4> SUFFICES ASSUME NEW i \in DOMAIN b, NEW k \in DOMAIN b, i < k PROVE b[i].seq < b[k].seq
        BY DEF Rising
      <4>1. i \in DOMAIN a
        BY <3>1
      <4> QED BY <4>1, <3>1, <3>2, <2>7 DEF Rising
    <3>4. \A i \in DOMAIN b, p \in DOMAIN r, h \in Chunk :
            IsPlay(r[p], h) /\ b[i].turn = h.turn => b[i].seq <= h.seq
      BY <3>1, <2>3, <2>4
    <3>5. \A i \in DOMAIN b : \E k \in 1 .. cursor[w] : b[i] = feed[k]
      BY <3>1, <2>1, <2>6
    <3>6. b = worker'.accepted
      BY DEF b
    <3> QED BY <3>3, <3>4, <3>5, <3>6, <1>1, <1>u, <1>v DEF Lined
  <2> QED BY <2>9, <2>10, <2>11, <2>12, <2>13
<1> QED BY <1>2, <1>3

(* Every step of a system with one window.                                 *)
LEMMA LinedStep ==
  ASSUME NEW w, Windows = {w}, Playback, Lined(w), [PNext]_pvars
  PROVE  Lined(w)'
<1>w. w \in Windows
  OBVIOUS
<1>t. FeedOrderly /\ WindowsOK /\ WorkerOK
  BY DEF Playback
<1>1. CASE UNCHANGED <<worker, feed, cursor, calls>>
  BY <1>1 DEF Lined, Rising, IsPlay
<1>2. CASE UNCHANGED pvars \/ Toggle(w)
  BY <1>1, <1>2 DEF pvars, window, Toggle
<1>3. CASE Broadcast
  <2>1. UNCHANGED <<worker, cursor, calls>>
    BY <1>3 DEF Broadcast, window
  <2>2. \A k \in 1 .. cursor[w] : feed'[k] = feed[k]
    BY <1>3, <1>t, <1>w, FeedKept, Taken
  <2> QED BY <2>1, <2>2 DEF Lined, Rising, IsPlay
<1>4. CASE Expire
  <2>1. UNCHANGED <<feed, cursor, calls>> /\ worker'.accepted = worker.accepted
    BY <1>4, <1>t, DeadlineKeeps DEF Expire, window, WorkerOK
  <2> QED BY <2>1 DEF Lined, Rising, IsPlay
<1>5. CASE Deliver(w)
  BY <1>5, <1>w, DeliverLines
<1>6. CASE Handle(w)
  BY <1>6, <1>w, HandleLines
<1> QED BY <1>2, <1>3, <1>4, <1>5, <1>6 DEF PNext

(* With one window the latest run is fed whole and in order, however the   *)
(* replies overlap and the module and the page of the window repeat and    *)
(* stop it.                                                                *)
THEOREM InOrderCorrect ==
  ASSUME NEW w, Windows = {w}
  PROVE  PSpec => []LatestReplyInOrder
<1>1. PInit => Lined(w)
  BY DEF PInit, Init, Reset, Lined, Rising
<1>2. Playback /\ Lined(w) /\ [PNext]_pvars => Lined(w)'
  BY LinedStep
<1>3. Playback /\ Lined(w) => LatestReplyInOrder
  BY SettledComplete DEF LatestReplyInOrder, NothingDropped, Lined
<1> QED BY <1>1, <1>2, <1>3, PlaybackInvariance, PTL DEF PSpec
=============================================================================
