-------------------------- MODULE SpeakTurn_proofs --------------------------
(***************************************************************************)
(* The safety of a chat turn, for any number of concurrent turns, any      *)
(* managers and configs, replies of any number of chunks and any number of *)
(* hot-swaps.                                                              *)
(*                                                                         *)
(* The first part says what appending one frame, or the intro and a frame, *)
(* does to a well-formed history of frames; the second that every step of  *)
(* a turn appends what keeps its history well-formed; the last that what   *)
(* it appends moves the turn along the viewer's protocol.                  *)
(***************************************************************************)
EXTENDS SpeakTurn, WellFoundedInduction, TLAPS

Shown(q)     == \E i \in 1 .. Len(q) : q[i].kind = "Text"
Sounds(q)    == \E i \in 1 .. Len(q) : q[i].kind = "Audio"
ClosedOff(q) == \E i \in 1 .. Len(q) : q[i].kind = "Audio" /\ q[i].last
NoIdle(q)    == \A i \in 1 .. Len(q) : q[i].kind # "Idle"
IdleAtEnd(q) == \A i \in 1 .. Len(q) : q[i].kind = "Idle" => i = Len(q)

(* A well-formed history of frames: one Text, before all Audio; Audio with *)
(* rising seqs below n, except of the last one, and voices of V.           *)
TextOnce(q) ==
  \A i, j \in 1 .. Len(q) : q[i].kind = "Text" /\ q[j].kind = "Text" => i = j
TextFirst(q) ==
  \A a \in 1 .. Len(q) : q[a].kind = "Audio" => \E i \in 1 .. Len(q) : q[i].kind = "Text" /\ i < a
Order(q) ==
  \A i, j \in 1 .. Len(q) :
    q[i].kind = "Audio" /\ q[j].kind = "Audio" /\ i < j => q[i].seq < q[j].seq /\ ~q[i].last
Bounds(q, n, V) ==
  \A a \in 1 .. Len(q) : q[a].kind = "Audio" => q[a].voice \in V /\ (q[a].last \/ q[a].seq < n)

Frames(q, n, V) ==
  q \in Seq(Frame) /\ TextOnce(q) /\ TextFirst(q) /\ Order(q) /\ Bounds(q, n, V)

-----------------------------------------------------------------------------
(* Appending.                                                              *)

(* What a frame appended to the history does to its indices.               *)
LEMMA AppendFacts ==
  ASSUME NEW S, NEW q \in Seq(S), NEW e \in S
  PROVE  /\ Append(q, e) \in Seq(S)
         /\ Len(Append(q, e)) = Len(q) + 1 /\ Len(q) \in Nat
         /\ Append(q, e)[Len(q) + 1] = e
         /\ \A i \in 1 .. Len(q) : Append(q, e)[i] = q[i]
OBVIOUS

(* Adding three frames at once is adding them one by one.                  *)
LEMMA ConcatThree ==
  ASSUME NEW S, NEW q \in Seq(S), NEW a \in S, NEW b \in S, NEW c \in S
  PROVE  q \o <<a, b, c>> = Append(Append(Append(q, a), b), c)
OBVIOUS

(* The same with four.                                                     *)
LEMMA ConcatFour ==
  ASSUME NEW S, NEW q \in Seq(S), NEW a \in S, NEW b \in S, NEW c \in S, NEW d \in S
  PROVE  q \o <<a, b, c, d>> = Append(Append(Append(Append(q, a), b), c), d)
OBVIOUS

(* The last frame of what is added is the last of all.                     *)
LEMMA ConcatLast ==
  ASSUME NEW S, NEW q \in Seq(S), NEW r \in Seq(S), NEW x \in S
  PROVE  q \o (r \o <<x>>) = Append(q \o r, x)
OBVIOUS

(* An empty sequence in between changes nothing.                           *)
LEMMA ConcatNone ==
  ASSUME NEW S, NEW q \in Seq(S), NEW x \in S
  PROVE  q \o (<<>> \o <<x>>) = Append(q, x) /\ q \o <<x>> = Append(q, x)
OBVIOUS

(* The frames the code builds are frames.                                  *)
LEMMA FrameFacts ==
  /\ \A k \in Kinds : Plain(k) \in Frame
  /\ \A n \in Nat, l \in BOOLEAN, v \in Tts \cup {Silent} : Audio(n, l, v) \in Frame
BY DEF Plain, Audio, Frame, Kinds

(* What appending a frame of kind k does to the five predicates that look  *)
(* for a frame.                                                            *)
LEMMA AppendFinds ==
  ASSUME NEW q \in Seq(Frame), NEW x \in Frame
  PROVE  /\ Shown(Append(q, x)) <=> Shown(q) \/ x.kind = "Text"
         /\ Sounds(Append(q, x)) <=> Sounds(q) \/ x.kind = "Audio"
         /\ ClosedOff(Append(q, x)) <=> ClosedOff(q) \/ (x.kind = "Audio" /\ x.last)
         /\ NoIdle(Append(q, x)) <=> NoIdle(q) /\ x.kind # "Idle"
         /\ NoIdle(q) => IdleAtEnd(Append(q, x))
<1> DEFINE r == Append(q, x)
<1>1. /\ Len(r) = Len(q) + 1 /\ Len(q) \in Nat /\ r[Len(q) + 1] = x
      /\ \A i \in 1 .. Len(q) : r[i] = q[i]
  BY AppendFacts
<1>2. /\ \A i \in 1 .. Len(r) : i \in 1 .. Len(q) \/ i = Len(r)
      /\ \A i \in 1 .. Len(q) : i \in 1 .. Len(r)
      /\ Len(r) \in 1 .. Len(r) /\ r[Len(r)] = x
  BY <1>1
<1> HIDE DEF r
<1>3. Shown(r) <=> Shown(q) \/ x.kind = "Text"
  BY <1>1, <1>2 DEF Shown
<1>4. Sounds(r) <=> Sounds(q) \/ x.kind = "Audio"
  BY <1>1, <1>2 DEF Sounds
<1>5. ClosedOff(r) <=> ClosedOff(q) \/ (x.kind = "Audio" /\ x.last)
  BY <1>1, <1>2, Zenon DEF ClosedOff
<1>6. /\ NoIdle(r) <=> NoIdle(q) /\ x.kind # "Idle"
      /\ NoIdle(q) => IdleAtEnd(r)
  BY <1>1, <1>2 DEF NoIdle, IdleAtEnd
<1> QED BY <1>3, <1>4, <1>5, <1>6 DEF r

(* Frames that are neither Text nor Audio leave a history well-formed.     *)
LEMMA AppendPlain ==
  ASSUME NEW q, NEW n \in Nat, NEW V, Frames(q, n, V),
         NEW x \in Frame, x.kind \notin {"Text", "Audio"}
  PROVE  Frames(Append(q, x), n, V)
<1> DEFINE r == Append(q, x)
<1>1. /\ q \in Seq(Frame) /\ r \in Seq(Frame)
      /\ Len(r) = Len(q) + 1 /\ Len(q) \in Nat /\ r[Len(q) + 1] = x
      /\ \A i \in 1 .. Len(q) : r[i] = q[i]
  BY AppendFacts DEF Frames
<1>2. \A i \in 1 .. Len(r) : r[i].kind \in {"Text", "Audio"} => i \in 1 .. Len(q) /\ r[i] = q[i]
  BY <1>1
<1>3. \A i \in 1 .. Len(q) : i \in 1 .. Len(r) /\ r[i] = q[i]
  BY <1>1
<1> HIDE DEF r
<1>4. TextOnce(r)
  BY <1>2 DEF Frames, TextOnce
<1>5. TextFirst(r)
  BY <1>2, <1>3 DEF Frames, TextFirst
<1>6. Order(r)
  BY <1>2 DEF Frames, Order
<1>7. Bounds(r, n, V)
  BY <1>2 DEF Frames, Bounds
<1> QED BY <1>1, <1>4, <1>5, <1>6, <1>7 DEF Frames, r

(* The reply's text may come once, and only before any sound.              *)
LEMMA AppendText ==
  ASSUME NEW q, NEW n \in Nat, NEW V, Frames(q, n, V), ~Shown(q),
         NEW x \in Frame, x.kind = "Text"
  PROVE  Frames(Append(q, x), n, V)
<1> DEFINE r == Append(q, x)
<1>1. /\ q \in Seq(Frame) /\ r \in Seq(Frame)
      /\ Len(r) = Len(q) + 1 /\ Len(q) \in Nat /\ r[Len(q) + 1] = x
      /\ \A i \in 1 .. Len(q) : r[i] = q[i]
  BY AppendFacts DEF Frames
<1>2. \A i \in 1 .. Len(q) : q[i].kind \notin {"Text", "Audio"}
  BY DEF Frames, TextFirst, Shown
<1>3. \A i \in 1 .. Len(r) : r[i].kind # "Audio" /\ (r[i].kind = "Text" => i = Len(q) + 1)
  BY <1>1, <1>2
<1> HIDE DEF r
<1> QED BY <1>1, <1>3 DEF Frames, TextOnce, TextFirst, Order, Bounds, r

(* A chunk with the next seq may follow once the text is shown and as long *)
(* as the turn is not closed.                                              *)
LEMMA AppendAudio ==
  ASSUME NEW q, NEW n \in Nat, NEW V, Frames(q, n, V), Shown(q), ~ClosedOff(q),
         NEW l \in BOOLEAN, NEW v \in V, V \subseteq Tts \cup {Silent},
         NEW b \in Nat, n <= b, l \/ n < b
  PROVE  Frames(Append(q, Audio(n, l, v)), b, V)
<1> DEFINE x == Audio(n, l, v)
           r == Append(q, x)
<1>x. x \in Frame /\ x.kind = "Audio" /\ x.seq = n /\ x.last = l /\ x.voice = v
  BY FrameFacts DEF Audio
<1> HIDE DEF x
<1>1. /\ q \in Seq(Frame) /\ r \in Seq(Frame)
      /\ Len(r) = Len(q) + 1 /\ Len(q) \in Nat /\ r[Len(q) + 1] = x
      /\ \A i \in 1 .. Len(q) : r[i] = q[i]
  BY <1>x, AppendFacts DEF Frames
<1>2. \A i \in 1 .. Len(r) : i \in 1 .. Len(q) \/ i = Len(q) + 1
  BY <1>1
<1>3. \A i \in 1 .. Len(q) : /\ i \in 1 .. Len(r) /\ r[i] = q[i] /\ i < Len(q) + 1
                             /\ q[i].kind = "Audio" => q[i].seq < n /\ ~q[i].last
                             /\ q[i].seq \in Nat
  <2>1. \A i \in 1 .. Len(q) : q[i] \in Frame
    BY <1>1
  <2>2. \A i \in 1 .. Len(q) : q[i].seq \in Nat
    BY <2>1 DEF Frame
  <2>3. \A i \in 1 .. Len(q) : q[i].kind = "Audio" => ~q[i].last
    BY Zenon DEF ClosedOff
  <2>4. \A i \in 1 .. Len(q) : q[i].kind = "Audio" => q[i].seq < n
    BY <2>3, Zenon DEF Frames, Bounds
  <2>5. \A i \in 1 .. Len(q) : i \in 1 .. Len(r) /\ r[i] = q[i] /\ i < Len(q) + 1
    BY <1>1
  <2> QED BY <2>2, <2>3, <2>4, <2>5
<1> HIDE DEF r
<1>4. TextOnce(r)
  BY <1>1, <1>2, <1>3, <1>x DEF Frames, TextOnce
<1>5. TextFirst(r)
  <2> SUFFICES ASSUME NEW a \in 1 .. Len(r), r[a].kind = "Audio"
               PROVE  \E i \in 1 .. Len(r) : r[i].kind = "Text" /\ i < a
    BY DEF TextFirst
  <2>1. CASE a \in 1 .. Len(q)
    BY <2>1, <1>3 DEF Frames, TextFirst
  <2>2. CASE a = Len(q) + 1
    BY <2>2, <1>3 DEF Shown
  <2> QED BY <2>1, <2>2, <1>2
<1>6. Order(r)
  <2> SUFFICES ASSUME NEW i \in 1 .. Len(r), NEW j \in 1 .. Len(r),
                      r[i].kind = "Audio", r[j].kind = "Audio", i < j
               PROVE  r[i].seq < r[j].seq /\ ~r[i].last
    BY DEF Order
  <2>1. i \in 1 .. Len(q)
    BY <1>1
  <2>2. CASE j \in 1 .. Len(q)
    BY <2>1, <2>2, <1>3 DEF Frames, Order
  <2>3. CASE j = Len(q) + 1
    BY <2>1, <2>3, <1>1, <1>3, <1>x
  <2> QED BY <2>2, <2>3, <1>2
<1>7. Bounds(r, b, V)
  <2> SUFFICES ASSUME NEW a \in 1 .. Len(r), r[a].kind = "Audio"
               PROVE  r[a].voice \in V /\ (r[a].last \/ r[a].seq < b)
    BY DEF Bounds
  <2>1. CASE a \in 1 .. Len(q)
    <3>1. r[a].voice \in V
      BY <2>1, <1>3 DEF Frames, Bounds
    <3>2. r[a].seq < b
      BY <2>1, <1>3
    <3> QED BY <3>1, <3>2
  <2>2. CASE a = Len(q) + 1
    <3>1. r[a].voice \in V
      BY <2>2, <1>1, <1>x
    <3>2. l \/ r[a].seq < b
      BY <2>2, <1>1, <1>x
    <3>3. r[a].last = l
      BY <2>2, <1>1, <1>x
    <3> QED BY <3>1, <3>2, <3>3
  <2> QED BY <2>1, <2>2, <1>2
<1> QED BY <1>1, <1>4, <1>5, <1>6, <1>7 DEF Frames, r, x

(* The intro frames show the text and change nothing else.                 *)
LEMMA AppendIntro ==
  ASSUME NEW q, NEW n \in Nat, NEW V, Frames(q, n, V), ~Shown(q), NEW m \in BOOLEAN
  PROVE  LET p == q \o IntroFrames(m) IN
         /\ Frames(p, n, V) /\ Shown(p)
         /\ Sounds(p) <=> Sounds(q)
         /\ ClosedOff(p) <=> ClosedOff(q)
         /\ NoIdle(p) <=> NoIdle(q)
<1> DEFINE e == Plain("Expression")
           o == Plain("Motion")
           x == Plain("Text")
           d == Plain("Debug")
           q1 == Append(q, e)
           q2 == IF m THEN Append(q1, o) ELSE q1
           q3 == Append(q2, x)
           q4 == Append(q3, d)
<1>f. /\ e \in Frame /\ o \in Frame /\ x \in Frame /\ d \in Frame
      /\ e.kind = "Expression" /\ o.kind = "Motion" /\ x.kind = "Text" /\ d.kind = "Debug"
  BY DEF Plain, Frame, Kinds
<1>q. q \in Seq(Frame)
  BY DEF Frames
<1>p. q \o IntroFrames(m) = q4
  BY <1>f, <1>q, ConcatThree, ConcatFour DEF IntroFrames
<1> HIDE DEF e, o, x, d
<1>1. /\ Frames(q1, n, V) /\ ~Shown(q1)
      /\ Sounds(q1) <=> Sounds(q)
      /\ ClosedOff(q1) <=> ClosedOff(q)
      /\ NoIdle(q1) <=> NoIdle(q)
  BY <1>f, <1>q, AppendPlain, AppendFinds
<1> HIDE DEF q1
<1>2. /\ Frames(q2, n, V) /\ ~Shown(q2)
      /\ Sounds(q2) <=> Sounds(q)
      /\ ClosedOff(q2) <=> ClosedOff(q)
      /\ NoIdle(q2) <=> NoIdle(q)
  <2>1. q1 \in Seq(Frame)
    BY <1>1 DEF Frames
  <2> QED BY <2>1, <1>1, <1>f, AppendPlain, AppendFinds
<1> HIDE DEF q2
<1>3. /\ Frames(q3, n, V) /\ Shown(q3)
      /\ Sounds(q3) <=> Sounds(q)
      /\ ClosedOff(q3) <=> ClosedOff(q)
      /\ NoIdle(q3) <=> NoIdle(q)
  <2>1. q2 \in Seq(Frame)
    BY <1>2 DEF Frames
  <2> QED BY <2>1, <1>2, <1>f, AppendText, AppendFinds
<1> HIDE DEF q3
<1>4. /\ Frames(q4, n, V) /\ Shown(q4)
      /\ Sounds(q4) <=> Sounds(q)
      /\ ClosedOff(q4) <=> ClosedOff(q)
      /\ NoIdle(q4) <=> NoIdle(q)
  <2>1. q3 \in Seq(Frame)
    BY <1>3 DEF Frames
  <2> QED BY <2>1, <1>3, <1>f, AppendPlain, AppendFinds
<1> QED BY <1>p, <1>4

(* emit_intro_once and then a frame: the same as appending that frame to a *)
(* history that shows the text.                                            *)
Introduction(t, m) == sent[t] \o IntroOnce(t, m)

(* What emit_intro_once may have put before the rest.                      *)
LEMMA AppendIntroOnce ==
  ASSUME NEW t \in Turns, NEW n \in Nat, NEW V, Frames(sent[t], n, V),
         introSent[t] <=> Shown(sent[t]), NEW m \in BOOLEAN, NEW x \in Frame
  PROVE  /\ sent[t] \o (IntroOnce(t, m) \o <<x>>) = Append(Introduction(t, m), x)
         /\ Introduction(t, m) \in Seq(Frame)
         /\ Frames(Introduction(t, m), n, V) /\ Shown(Introduction(t, m))
         /\ Sounds(Introduction(t, m)) <=> Sounds(sent[t])
         /\ ClosedOff(Introduction(t, m)) <=> ClosedOff(sent[t])
         /\ NoIdle(Introduction(t, m)) <=> NoIdle(sent[t])
<1> DEFINE q == sent[t]
           r == IntroOnce(t, m)
<1>1. q \in Seq(Frame) /\ r \in Seq(Frame)
  <2>1. IntroFrames(m) \in Seq(Frame)
    BY FrameFacts DEF IntroFrames, Kinds
  <2> QED BY <2>1 DEF Frames, IntroOnce
<1>2. q \o (r \o <<x>>) = Append(q \o r, x)
  <2> HIDE DEF q, r
  <2> QED BY <1>1, ConcatLast
<1>3. CASE introSent[t]
  <2>1. Introduction(t, m) = sent[t]
    <3>1. q \o <<>> = q
      BY <1>1
    <3> QED BY <3>1, <1>3 DEF Introduction, IntroOnce
  <2> QED BY <2>1, <1>1, <1>2, <1>3 DEF Introduction
<1>4. CASE ~introSent[t]
  <2>1. Introduction(t, m) = sent[t] \o IntroFrames(m)
    BY <1>4 DEF Introduction, IntroOnce
  <2>2. /\ Frames(Introduction(t, m), n, V) /\ Shown(Introduction(t, m))
        /\ Sounds(Introduction(t, m)) <=> Sounds(sent[t])
        /\ ClosedOff(Introduction(t, m)) <=> ClosedOff(sent[t])
        /\ NoIdle(Introduction(t, m)) <=> NoIdle(sent[t])
    BY <2>1, <1>4, AppendIntro
  <2>3. Introduction(t, m) \in Seq(Frame)
    BY <2>2 DEF Frames
  <2> QED BY <2>2, <2>3, <1>2 DEF Introduction
<1> QED BY <1>3, <1>4

(* A larger bound is a bound too, and without a sound any bound and any    *)
(* voices do.                                                              *)
LEMMA Weaken ==
  ASSUME NEW q, NEW n \in Nat, NEW V, Frames(q, n, V), NEW b \in Nat, n <= b
  PROVE  Frames(q, b, V)
<1>1. \A a \in 1 .. Len(q) : q[a].seq \in Nat
  <2>1. \A a \in 1 .. Len(q) : q[a] \in Frame
    BY DEF Frames
  <2> QED BY <2>1 DEF Frame
<1>2. Bounds(q, b, V)
  <2> SUFFICES ASSUME NEW a \in 1 .. Len(q), q[a].kind = "Audio"
               PROVE  q[a].voice \in V /\ (q[a].last \/ q[a].seq < b)
    BY DEF Bounds
  <2>1. q[a].voice \in V /\ (q[a].last \/ q[a].seq < n)
    BY DEF Frames, Bounds
  <2>2. q[a].seq < n => q[a].seq < b
    BY <1>1
  <2> QED BY <2>1, <2>2
<1> QED BY <1>2 DEF Frames

(* A history without the text has no sound, so any bounds hold of it.      *)
LEMMA Soundless ==
  ASSUME NEW q, NEW n, NEW V, Frames(q, n, V), ~Shown(q), NEW b, NEW W
  PROVE  Frames(q, b, W) /\ ~Sounds(q) /\ ~ClosedOff(q)
BY DEF Frames, TextFirst, Bounds, Shown, Sounds, ClosedOff

-----------------------------------------------------------------------------
(* The dispatcher's queue: a final message is the last one ever sent.      *)

NoFinal(q)   == \A i \in 1 .. Len(q) : ~q[i].final
EndsFinal(q) == q # <<>> /\ q[Len(q)].final /\ \A i \in 1 .. Len(q) - 1 : ~q[i].final

(* What a message sent does to the queue.                                  *)
LEMMA SendFacts ==
  ASSUME NEW q \in Seq(Message), NoFinal(q), NEW e \in Message
  PROVE  /\ Append(q, e) \in Seq(Message)
         /\ ~e.final => NoFinal(Append(q, e))
         /\ e.final => EndsFinal(Append(q, e))
<1> DEFINE r == Append(q, e)
<1>1. /\ r \in Seq(Message) /\ Len(r) = Len(q) + 1 /\ Len(q) \in Nat
      /\ r[Len(q) + 1] = e /\ \A i \in 1 .. Len(q) : r[i] = q[i]
  BY AppendFacts
<1>2. r # <<>>
  BY <1>1
<1>3. /\ \A i \in 1 .. Len(r) : i \in 1 .. Len(q) \/ r[i] = e
      /\ Len(r) - 1 = Len(q)
  BY <1>1
<1> HIDE DEF r
<1>4. ~e.final => NoFinal(r)
  BY <1>1, <1>3, Zenon DEF NoFinal
<1>5. e.final => EndsFinal(r)
  <2>1. \A i \in 1 .. Len(r) - 1 : ~r[i].final
    BY <1>1, <1>3, Zenon DEF NoFinal
  <2> QED BY <1>1, <1>2, <2>1, Zenon DEF EndsFinal
<1> QED BY <1>1, <1>4, <1>5 DEF r

(* What a message taken does to the queue.                                 *)
LEMMA ReceiveFacts ==
  ASSUME NEW q \in Seq(Message), q # <<>>
  PROVE  /\ Head(q) \in Message /\ Tail(q) \in Seq(Message)
         /\ NoFinal(q) => ~Head(q).final /\ NoFinal(Tail(q))
         /\ EndsFinal(q) => Head(q).final \/ EndsFinal(Tail(q))
<1> DEFINE r == Tail(q)
<1>1. /\ Head(q) \in Message /\ r \in Seq(Message) /\ Head(q) = q[1]
      /\ Len(r) = Len(q) - 1 /\ Len(q) \in Nat \ {0}
      /\ \A i \in 1 .. Len(r) : r[i] = q[i + 1]
  OBVIOUS
<1>2. /\ 1 \in 1 .. Len(q)
      /\ \A i \in 1 .. Len(r) : i + 1 \in 1 .. Len(q)
      /\ \A i \in 1 .. Len(r) - 1 : i + 1 \in 1 .. Len(q) - 1 /\ i \in 1 .. Len(r)
  BY <1>1
<1>3. r # <<>> => Len(r) \in 1 .. Len(r) /\ Len(r) + 1 = Len(q)
  BY <1>1
<1> HIDE DEF r
<1>4. ASSUME r = <<>> PROVE Len(q) = 1
  <2>1. Len(r) = 0
    BY <1>4
  <2> QED BY <2>1, <1>1
<1>5. NoFinal(q) => ~Head(q).final /\ NoFinal(r)
  BY <1>1, <1>2, Zenon DEF NoFinal
<1>6. ASSUME EndsFinal(q) PROVE Head(q).final \/ EndsFinal(r)
  <2>1. CASE r = <<>>
    BY <2>1, <1>1, <1>4, <1>6, Zenon DEF EndsFinal
  <2>2. CASE r # <<>>
    <3>1. r[Len(r)].final
      BY <2>2, <1>1, <1>3, <1>6, Zenon DEF EndsFinal
    <3>2. \A i \in 1 .. Len(r) - 1 : ~r[i].final
      BY <1>1, <1>2, <1>6, Zenon DEF EndsFinal
    <3> QED BY <3>1, <3>2, <2>2 DEF EndsFinal
  <2> QED BY <2>1, <2>2
<1> QED BY <1>1, <1>5, <1>6 DEF r

-----------------------------------------------------------------------------
(* The inductive invariant of one turn.                                    *)

(* The voices its chunks may have.                                         *)
Voices(t) == IF disp[t] = "off" THEN {snap[t].tts, Silent} ELSE Tts \cup {Silent}

(* Before the paths part nothing was shown; the synthesis loop has closed  *)
(* the turn exactly when it is through.                                    *)
BulkInv(t) ==
  /\ pc[t] \in {"new", "agent", "failed", "reply", "analyze", "crashed"} =>
       disp[t] = "off" /\ queue[t] = <<>> /\ ~Shown(sent[t]) /\ seq[t] = 0
  /\ pc[t] = "synth" =>
       /\ disp[t] = "off" /\ total[t] > 0 /\ seq[t] <= total[t]
       /\ ClosedOff(sent[t]) <=> seq[t] = total[t]

(* A producer sends its final message last, and a dispatcher that has not  *)
(* yet taken it will find it; a producer that died sent nothing.           *)
StreamInv(t) ==
  /\ pc[t] = "open" => disp[t] = "recv" /\ queue[t] = <<>> /\ ~Shown(sent[t])
  /\ pc[t] = "translate" =>
       /\ disp[t] \in {"recv", "synth"} /\ NoFinal(queue[t])
       /\ disp[t] = "synth" => ~current[t].final
  /\ pc[t] = "join" =>
       /\ disp[t] # "off"
       /\ disp[t] = "recv" => EndsFinal(queue[t])
       /\ disp[t] = "synth" => current[t].final \/ EndsFinal(queue[t])
  /\ pc[t] = "panicked" =>
       /\ disp[t] \in {"recv", "ended"} /\ queue[t] = <<>>
       /\ disp[t] = "recv" => ~Shown(sent[t])

(* The dispatcher ends when it closes the turn, and Idle ends it all.      *)
EndInv(t) ==
  /\ disp[t] \in {"recv", "synth"} => ~ClosedOff(sent[t])
  /\ disp[t] = "ended" => ClosedOff(sent[t])
  /\ pc[t] # "done" => NoIdle(sent[t])
  /\ pc[t] = "done" =>
       /\ disp[t] \in {"off", "ended"}
       /\ IdleAtEnd(sent[t]) /\ Shown(sent[t])
       /\ Sounds(sent[t]) => ClosedOff(sent[t])

TurnInv(t) ==
  /\ Frames(sent[t], seq[t], Voices(t))
  /\ introSent[t] <=> Shown(sent[t])
  /\ BulkInv(t) /\ StreamInv(t) /\ EndInv(t)

IInv == TypeOK /\ \A t \in Turns : TurnInv(t)

(* What a step leaves as it is leaves the turn's invariant as it is.       *)
Same(t) ==
  /\ pc'[t] = pc[t] /\ snap'[t] = snap[t] /\ total'[t] = total[t] /\ seq'[t] = seq[t]
  /\ introSent'[t] = introSent[t] /\ queue'[t] = queue[t]
  /\ disp'[t] = disp[t] /\ current'[t] = current[t] /\ sent'[t] = sent[t]

(* A step that changes nothing of a turn keeps its invariant.              *)
LEMMA SameInv ==
  ASSUME NEW t \in Turns, TurnInv(t), Same(t)
  PROVE  TurnInv(t)'
<1>1. Voices(t)' = Voices(t)
  BY DEF Same, Voices
<1>2. Frames(sent[t], seq[t], Voices(t))'
  BY <1>1 DEF Same, TurnInv
<1>3. (introSent[t] <=> Shown(sent[t]))'
  BY DEF Same, TurnInv
<1>4. BulkInv(t)'
  BY DEF Same, TurnInv, BulkInv
<1>5. StreamInv(t)'
  BY DEF Same, TurnInv, StreamInv
<1>6. EndInv(t)'
  BY DEF Same, TurnInv, EndInv
<1> QED BY <1>2, <1>3, <1>4, <1>5, <1>6 DEF TurnInv

TurnStep(t) == ChatArrive(t) \/ BulkStep(t) \/ ProducerStep(t) \/ DispatcherStep(t)

(* A step of one turn touches no other.                                    *)
LEMMA Locality ==
  ASSUME TypeOK, NEW t \in Turns, TurnStep(t), NEW u \in Turns, u # t
  PROVE  Same(u)
<1> USE DEF TypeOK, Same, Goto, Emit, Introduced, producer, dispatch
<1>1. CASE ChatArrive(t) \/ AgentAnswer(t) \/ AgentFail(t)
  BY <1>1 DEF ChatArrive, AgentAnswer, AgentFail
<1>2. CASE BeginPlain(t) \/ BeginAnalysis(t) \/ BeginStreaming(t)
  BY <1>2 DEF BeginPlain, BeginAnalysis, BeginStreaming, Resolve
<1>3. CASE Analyze(t)
  BY <1>3 DEF Analyze, Resolve
<1>4. CASE SynthChunk(t) \/ FinishBulk(t)
  BY <1>4 DEF SynthChunk, FinishBulk
<1>5. CASE OpenStream(t) \/ Paragraph(t) \/ EndTranslation(t) \/ FinishStream(t)
  BY <1>5 DEF OpenStream, Paragraph, EndTranslation, FinishStream, Send
<1>6. CASE SkipBlank(t) \/ StartSynth(t)
  BY <1>6 DEF SkipBlank, StartSynth, Receive
<1>7. CASE FinishSynth(t) \/ ChannelClosed(t)
  BY <1>7 DEF FinishSynth, ChannelClosed
<1> QED
  BY <1>1, <1>2, <1>3, <1>4, <1>5, <1>6, <1>7
  DEF TurnStep, BulkStep, ProducerStep, DispatcherStep

(* Initially no turn has sent anything.                                    *)
LEMMA InitInv == Init => IInv
<1> SUFFICES ASSUME Init PROVE IInv
  OBVIOUS
<1>1. TypeOK
  <2>1. <<>> \in Seq(Message) /\ <<>> \in Seq(Frame)
    OBVIOUS
  <2>2. live \in [tts : Tts, sub : Subagents, cfg : ConfigType] /\ live.tts \in Tts
    BY SpeakAssumption DEF Init
  <2>3. MaxSwaps \in Nat /\ MaxChunks \in Nat /\ 0 \in 0 .. MaxSwaps /\ 0 \in 0 .. MaxChunks
    BY SpeakAssumption
  <2> QED BY <2>1, <2>2, <2>3 DEF Init, TypeOK
<1>2. ASSUME NEW t \in Turns PROVE TurnInv(t)
  <2>1. sent[t] = <<>> /\ Len(<<>>) = 0 /\ <<>> \in Seq(Frame)
    BY DEF Init
  <2>2. \A i \in 1 .. Len(sent[t]) : FALSE
    BY <2>1
  <2>3. Frames(sent[t], seq[t], Voices(t))
    BY <2>1, <2>2 DEF Frames, TextOnce, TextFirst, Order, Bounds
  <2>4. ~Shown(sent[t]) /\ NoIdle(sent[t])
    BY <2>2 DEF Shown, NoIdle
  <2>5. /\ pc[t] = "new" /\ disp[t] = "off" /\ queue[t] = <<>> /\ seq[t] = 0
        /\ introSent[t] = FALSE
    BY DEF Init
  <2> QED BY <2>3, <2>4, <2>5 DEF TurnInv, BulkInv, StreamInv, EndInv
<1> QED BY <1>1, <1>2 DEF IInv

-----------------------------------------------------------------------------
(* One lemma for each action: it keeps the types and its turn's invariant. *)

(* The steps before the avatar pipeline.                                   *)
LEMMA ChatInv ==
  ASSUME TypeOK, NEW t \in Turns, TurnInv(t), ChatArrive(t) \/ AgentAnswer(t) \/ AgentFail(t)
  PROVE  TypeOK' /\ TurnInv(t)'
<1>1. CASE ChatArrive(t)
  <2> DEFINE x == Plain("UserMessage")
             q == sent[t]
  <2>1. x \in Frame /\ x.kind = "UserMessage"
    BY FrameFacts DEF Kinds, Plain
  <2> HIDE DEF x
  <2>2. /\ pc[t] = "new" /\ pc'[t] = "agent" /\ sent'[t] = q \o <<x>>
        /\ disp'[t] = disp[t] /\ queue'[t] = queue[t] /\ seq'[t] = seq[t]
        /\ introSent'[t] = introSent[t] /\ snap'[t] = snap[t]
    BY <1>1 DEF ChatArrive, Goto, Emit, TypeOK, producer, dispatch, x
  <2>3. Frames(q, seq[t], Voices(t)) /\ q \in Seq(Frame) /\ seq[t] \in Nat
    BY DEF TurnInv, Frames, TypeOK
  <2>4. sent'[t] = Append(q, x)
    BY <2>1, <2>2, <2>3, ConcatNone
  <2>5. /\ Frames(sent'[t], seq[t], Voices(t)) /\ sent'[t] \in Seq(Frame)
        /\ Shown(sent'[t]) <=> Shown(q)
        /\ NoIdle(sent'[t]) <=> NoIdle(q)
    BY <2>1, <2>3, <2>4, AppendPlain, AppendFinds DEF Frames
  <2>6. Voices(t)' = Voices(t)
    BY <2>2 DEF Voices
  <2>7. TurnInv(t)'
    BY <2>2, <2>5, <2>6 DEF TurnInv, BulkInv, StreamInv, EndInv
  <2>8. TypeOK'
    <3>1. sent' \in [Turns -> Seq(Frame)]
      BY <1>1, <2>5 DEF ChatArrive, Emit, TypeOK
    <3> QED BY <1>1, <3>1 DEF ChatArrive, Goto, TypeOK, producer, dispatch
  <2> QED BY <2>7, <2>8
<1>2. CASE AgentAnswer(t) \/ AgentFail(t)
  <2>1. /\ pc[t] = "agent" /\ pc'[t] \in {"reply", "failed"}
        /\ UNCHANGED <<live, swaps, snap, total, seq, motion, introSent,
                       queue, produced, translated, disp, current, sent>>
    BY <1>2 DEF AgentAnswer, AgentFail, Goto, TypeOK, producer, dispatch
  <2>2. TypeOK'
    <3>1. \E l \in {"reply", "failed"} : pc' = [pc EXCEPT ![t] = l]
      BY <1>2 DEF AgentAnswer, AgentFail, Goto
    <3> QED BY <3>1, <2>1 DEF TypeOK
  <2>3. Voices(t)' = Voices(t)
    BY <2>1 DEF Voices
  <2>4. TurnInv(t)'
    BY <2>1, <2>3 DEF TurnInv, BulkInv, StreamInv, EndInv
  <2> QED BY <2>2, <2>4
<1> QED BY <1>1, <1>2

(* process_speak after the analysis.                                       *)
LEMMA ResolveInv ==
  ASSUME TypeOK, NEW t \in Turns, TurnInv(t), pc[t] \in {"reply", "analyze"},
         NEW n \in 0 .. MaxChunks, NEW m \in BOOLEAN, Resolve(t, n, m),
         UNCHANGED <<live, swaps, seq, producer, dispatch>>,
         snap' \in [Turns -> [tts : Tts, sub : Subagents, cfg : ConfigType]]
  PROVE  TypeOK' /\ TurnInv(t)'
<1>0. /\ disp[t] = "off" /\ queue[t] = <<>> /\ ~Shown(sent[t]) /\ seq[t] = 0
      /\ introSent[t] = FALSE /\ NoIdle(sent[t])
  BY DEF TurnInv, BulkInv, EndInv, TypeOK
<1>1. /\ disp' = disp /\ queue' = queue /\ seq' = seq /\ current' = current
      /\ produced' = produced /\ translated' = translated
      /\ total'[t] = n /\ total' \in [Turns -> 0 .. MaxChunks]
      /\ motion' \in [Turns -> BOOLEAN]
  BY DEF Resolve, TypeOK, producer, dispatch
<1>2. Frames(sent[t], 0, Voices(t)') /\ ~Sounds(sent[t]) /\ ~ClosedOff(sent[t])
  BY <1>0, Soundless DEF TurnInv
<1>3. CASE n = 0
  <2> DEFINE x == Plain("Idle")
  <2>1. x \in Frame /\ x.kind = "Idle"
    BY FrameFacts DEF Kinds, Plain
  <2>2. /\ pc'[t] = "done" /\ introSent'[t] = TRUE
        /\ sent'[t] = sent[t] \o (IntroOnce(t, m) \o <<x>>)
    <3>1. Goto(t, "done") /\ Emit(t, IntroOnce(t, m) \o <<x>>) /\ Introduced(t)
      BY <1>3 DEF Resolve
    <3> QED BY <3>1 DEF Goto, Emit, Introduced, TypeOK
  <2> HIDE DEF x
  <2>3. introSent[t] <=> Shown(sent[t])
    BY DEF TurnInv
  <2> DEFINE p == Introduction(t, m)
  <2>4. /\ sent'[t] = Append(p, x)
        /\ p \in Seq(Frame) /\ Frames(p, 0, Voices(t)') /\ Shown(p)
        /\ Sounds(p) <=> Sounds(sent[t])
        /\ ClosedOff(p) <=> ClosedOff(sent[t])
        /\ NoIdle(p) <=> NoIdle(sent[t])
    <3> DEFINE V == Voices(t)'
    <3>1. Frames(sent[t], 0, V) /\ 0 \in Nat
      BY <1>2
    <3> HIDE DEF V
    <3>2. /\ sent[t] \o (IntroOnce(t, m) \o <<x>>) = Append(p, x)
          /\ p \in Seq(Frame) /\ Frames(p, 0, V) /\ Shown(p)
          /\ Sounds(p) <=> Sounds(sent[t])
          /\ ClosedOff(p) <=> ClosedOff(sent[t])
          /\ NoIdle(p) <=> NoIdle(sent[t])
      BY <3>1, <2>1, <2>3, AppendIntroOnce
    <3> QED BY <3>2, <2>2 DEF V
  <2> HIDE DEF p
  <2>5. /\ Frames(sent'[t], 0, Voices(t)') /\ sent'[t] \in Seq(Frame)
        /\ Shown(sent'[t]) /\ ~Sounds(sent'[t]) /\ IdleAtEnd(sent'[t])
    BY <2>1, <2>4, <1>0, <1>2, AppendPlain, AppendFinds DEF Frames
  <2>6. TurnInv(t)'
    BY <2>2, <2>5, <1>0, <1>1 DEF TurnInv, BulkInv, StreamInv, EndInv
  <2>7. TypeOK'
    <3>1. sent' \in [Turns -> Seq(Frame)]
      BY <1>3, <2>5 DEF Resolve, Emit, TypeOK
    <3>2. /\ pc' = [pc EXCEPT ![t] = "done"]
          /\ introSent' = [introSent EXCEPT ![t] = TRUE]
      BY <1>3 DEF Resolve, Goto, Introduced
    <3> QED BY <1>1, <3>1, <3>2 DEF TypeOK
  <2> QED BY <2>6, <2>7
<1>4. CASE n # 0
  <2>1. n > 0 /\ pc' = [pc EXCEPT ![t] = "synth"] /\ UNCHANGED <<sent, introSent>>
    BY <1>4 DEF Resolve, Goto
  <2>2. pc'[t] = "synth"
    BY <2>1 DEF TypeOK
  <2>3. Frames(sent'[t], seq'[t], Voices(t)')
    BY <2>1, <1>0, <1>1, <1>2
  <2>4. TurnInv(t)'
    BY <2>1, <2>2, <2>3, <1>0, <1>1, <1>2 DEF TurnInv, BulkInv, StreamInv, EndInv
  <2>5. TypeOK'
    BY <2>1, <1>1 DEF TypeOK
  <2> QED BY <2>4, <2>5
<1> QED BY <1>3, <1>4

(* The three ways a turn begins to speak.                                  *)
LEMMA BeginInv ==
  ASSUME TypeOK, NEW t \in Turns, TurnInv(t),
         BeginPlain(t) \/ BeginAnalysis(t) \/ BeginStreaming(t) \/ Analyze(t)
  PROVE  TypeOK' /\ TurnInv(t)'
<1>c. \A h, b : ChunkCounts(h, b) \subseteq 0 .. MaxChunks
  BY SpeakAssumption DEF ChunkCounts
<1>1. CASE BeginPlain(t)
  <2>1. PICK n \in ChunkCounts(live, ~live.cfg.translate) : Resolve(t, n, FALSE)
    BY <1>1 DEF BeginPlain
  <2>2. /\ pc[t] = "reply" /\ UNCHANGED <<live, swaps, seq, producer, dispatch>>
        /\ snap' \in [Turns -> [tts : Tts, sub : Subagents, cfg : ConfigType]]
    BY <1>1 DEF BeginPlain, TypeOK
  <2>3. n \in 0 .. MaxChunks
    BY <1>c
  <2> QED BY <2>1, <2>2, <2>3, ResolveInv
<1>2. ASSUME Analyze(t), pc'[t] # "crashed"
      PROVE  TypeOK' /\ TurnInv(t)'
  <2>1. PICK ok \in BOOLEAN, m \in BOOLEAN :
          \E n \in ChunkCounts(snap[t], ok \/ ~snap[t].cfg.translate) : Resolve(t, n, m)
    BY <1>2 DEF Analyze, Goto, TypeOK
  <2>2. PICK n \in ChunkCounts(snap[t], ok \/ ~snap[t].cfg.translate) : Resolve(t, n, m)
    BY <2>1
  <2>3. /\ pc[t] = "analyze" /\ UNCHANGED <<live, swaps, seq, producer, dispatch>>
        /\ snap' \in [Turns -> [tts : Tts, sub : Subagents, cfg : ConfigType]]
    BY <1>2 DEF Analyze, TypeOK
  <2>4. n \in 0 .. MaxChunks
    BY <1>c
  <2> QED BY <2>2, <2>3, <2>4, ResolveInv
<1>3. CASE BeginAnalysis(t) \/ BeginStreaming(t)
  <2>0. /\ pc[t] = "reply" /\ disp[t] = "off" /\ queue[t] = <<>>
        /\ ~Shown(sent[t]) /\ seq[t] = 0
    BY <1>3 DEF BeginAnalysis, BeginStreaming, TurnInv, BulkInv
  <2>1. /\ UNCHANGED <<seq, queue, sent, introSent>>
        /\ \/ pc'[t] = "analyze" /\ disp'[t] = "off"
           \/ pc'[t] = "open" /\ disp'[t] = "recv"
    BY <1>3, <2>0 DEF BeginAnalysis, BeginStreaming, Goto, TypeOK, producer, dispatch
  <2>2. TypeOK'
    <3>1. CASE BeginAnalysis(t)
      BY <3>1 DEF BeginAnalysis, Goto, TypeOK, producer, dispatch
    <3>2. CASE BeginStreaming(t)
      BY <3>2 DEF BeginStreaming, Goto, TypeOK, producer
    <3> QED BY <1>3, <3>1, <3>2
  <2>3. Frames(sent'[t], seq'[t], Voices(t)') /\ ~ClosedOff(sent'[t])
    BY <2>0, <2>1, Soundless DEF TurnInv
  <2>4. TurnInv(t)'
    BY <2>0, <2>1, <2>3 DEF TurnInv, BulkInv, StreamInv, EndInv
  <2> QED BY <2>2, <2>4
<1>4. ASSUME Analyze(t), pc'[t] = "crashed"
      PROVE  TypeOK' /\ TurnInv(t)'
  <2>1. /\ pc[t] = "analyze"
        /\ UNCHANGED <<live, swaps, snap, seq, producer, dispatch>>
    BY <1>4 DEF Analyze
  <2>2. /\ Goto(t, "crashed")
        /\ UNCHANGED <<total, motion, introSent, sent>>
    BY <1>4 DEF Analyze, Resolve, Goto, TypeOK
  <2>3. TypeOK'
    BY <2>1, <2>2 DEF Goto, TypeOK, producer, dispatch
  <2>4. /\ disp[t] = "off" /\ queue[t] = <<>> /\ ~Shown(sent[t]) /\ seq[t] = 0
        /\ Frames(sent[t], seq[t], Voices(t)) /\ ~ClosedOff(sent[t]) /\ NoIdle(sent[t])
    BY <2>1, Soundless DEF TurnInv, BulkInv, EndInv
  <2>5. Voices(t)' = Voices(t)
    BY <2>1 DEF Voices, dispatch
  <2>6. TurnInv(t)'
    BY <1>4, <2>1, <2>2, <2>4, <2>5
    DEF TurnInv, BulkInv, StreamInv, EndInv, producer, dispatch
  <2> QED BY <2>3, <2>6
<1> QED BY <1>1, <1>2, <1>3, <1>4

(* A chunk, or the empty terminator, goes out with the turn's next seq.    *)
Speaks(t, s, V, m, l, v, b, q) ==
  /\ t \in Turns /\ s \in Nat /\ b \in Nat /\ s <= b /\ (l \/ s < b)
  /\ V \subseteq Tts \cup {Silent} /\ v \in V /\ m \in BOOLEAN /\ l \in BOOLEAN
  /\ Frames(sent[t], s, V) /\ (introSent[t] <=> Shown(sent[t]))
  /\ ~ClosedOff(sent[t]) /\ NoIdle(sent[t])
  /\ q = sent[t] \o (IntroOnce(t, m) \o <<Audio(s, l, v)>>)

(* What the frames of one chunk add to the history.                        *)
LEMMA SpeakFacts ==
  ASSUME NEW t, NEW s, NEW V, NEW m, NEW l, NEW v, NEW b, NEW q,
         Speaks(t, s, V, m, l, v, b, q)
  PROVE  /\ q \in Seq(Frame) /\ Frames(q, b, V)
         /\ Shown(q) /\ Sounds(q) /\ NoIdle(q)
         /\ ClosedOff(q) <=> l
<1>s. /\ t \in Turns /\ s \in Nat /\ b \in Nat /\ s <= b /\ (l \/ s < b)
      /\ V \subseteq Tts \cup {Silent} /\ v \in V /\ m \in BOOLEAN /\ l \in BOOLEAN
      /\ Frames(sent[t], s, V) /\ (introSent[t] <=> Shown(sent[t]))
      /\ ~ClosedOff(sent[t]) /\ NoIdle(sent[t])
      /\ q = sent[t] \o (IntroOnce(t, m) \o <<Audio(s, l, v)>>)
  BY DEF Speaks
<1> DEFINE x == Audio(s, l, v)
           p == Introduction(t, m)
<1>1. x \in Frame /\ x.kind = "Audio" /\ x.last = l
  BY <1>s, FrameFacts DEF Audio
<1>2. /\ q = Append(p, x)
      /\ p \in Seq(Frame) /\ Frames(p, s, V) /\ Shown(p)
      /\ Sounds(p) <=> Sounds(sent[t])
      /\ ClosedOff(p) <=> ClosedOff(sent[t])
      /\ NoIdle(p) <=> NoIdle(sent[t])
  <2> HIDE DEF x
  <2>1. /\ sent[t] \o (IntroOnce(t, m) \o <<x>>) = Append(p, x)
        /\ p \in Seq(Frame) /\ Frames(p, s, V) /\ Shown(p)
        /\ Sounds(p) <=> Sounds(sent[t])
        /\ ClosedOff(p) <=> ClosedOff(sent[t])
        /\ NoIdle(p) <=> NoIdle(sent[t])
    BY <1>s, <1>1, AppendIntroOnce
  <2> QED BY <2>1, <1>s DEF x
<1> HIDE DEF p
<1>3. ~ClosedOff(p) /\ NoIdle(p)
  BY <1>s, <1>2, Zenon
<1>4. Frames(q, b, V)
  BY <1>s, <1>2, <1>3, AppendAudio
<1>5. q \in Seq(Frame)
  BY <1>4 DEF Frames
<1>6. Shown(q) /\ Sounds(q) /\ NoIdle(q) /\ (ClosedOff(q) <=> l)
  <2> HIDE DEF x
  <2>1. /\ Shown(Append(p, x)) <=> Shown(p) \/ x.kind = "Text"
        /\ Sounds(Append(p, x)) <=> Sounds(p) \/ x.kind = "Audio"
        /\ ClosedOff(Append(p, x)) <=> ClosedOff(p) \/ (x.kind = "Audio" /\ x.last)
        /\ NoIdle(Append(p, x)) <=> NoIdle(p) /\ x.kind # "Idle"
    BY <1>1, <1>2, AppendFinds
  <2>2. x.kind # "Idle"
    BY <1>1
  <2>3. Shown(q) /\ Sounds(q) /\ NoIdle(q) /\ (ClosedOff(q) <=> x.last)
    BY <2>1, <2>2, <1>1, <1>2, <1>3, Zenon
  <2> QED BY <2>3, <1>1
<1> QED BY <1>4, <1>5, <1>6

(* The synthesis loop of the bulk path.                                    *)
LEMMA SynthInv ==
  ASSUME TypeOK, NEW t \in Turns, TurnInv(t), SynthChunk(t)
  PROVE  TypeOK' /\ TurnInv(t)'
<1> DEFINE s == seq[t]
           n == total[t]
<1>1. /\ pc[t] = "synth" /\ s < n /\ s \in Nat /\ n \in Nat /\ n <= MaxChunks
      /\ disp[t] = "off" /\ n > 0 /\ ~ClosedOff(sent[t])
  BY DEF SynthChunk, TypeOK, TurnInv, BulkInv
<1>2. /\ seq' = [seq EXCEPT ![t] = @ + 1] /\ seq'[t] = s + 1
      /\ UNCHANGED <<live, swaps, pc, snap, total, motion,
                     queue, produced, translated, disp, current>>
  BY DEF SynthChunk, TypeOK, producer, dispatch
<1>3. IsLast(t) <=> s + 1 = n
  BY DEF IsLast
<1>v. Voices(t)' = Voices(t) /\ Voices(t) = {snap[t].tts, Silent} /\ TurnTts(t) = snap[t].tts
  BY <1>1, <1>2 DEF Voices, TurnTts
<1>4. ASSUME NEW v \in Voices(t),
             Emit(t, IntroOnce(t, motion[t]) \o <<Audio(s, IsLast(t), v)>>), Introduced(t)
      PROVE  TypeOK' /\ TurnInv(t)'
  <2>1. /\ sent'[t] = sent[t] \o (IntroOnce(t, motion[t]) \o <<Audio(s, IsLast(t), v)>>)
        /\ introSent'[t] = TRUE
    BY <1>4 DEF Emit, Introduced, TypeOK
  <2>2. motion[t] \in BOOLEAN /\ IsLast(t) \in BOOLEAN
    BY DEF TypeOK, IsLast
  <2>3. /\ sent'[t] \in Seq(Frame) /\ Frames(sent'[t], s + 1, Voices(t))
        /\ Shown(sent'[t]) /\ Sounds(sent'[t]) /\ NoIdle(sent'[t])
        /\ ClosedOff(sent'[t]) <=> IsLast(t)
    <3> DEFINE l == IsLast(t)
               m == motion[t]
               q == sent'[t]
               V == Voices(t)
               b == s + 1
    <3>1. l \in BOOLEAN /\ m \in BOOLEAN /\ q = sent[t] \o (IntroOnce(t, m) \o <<Audio(s, l, v)>>)
      BY <2>1, <2>2
    <3>2. b \in Nat /\ s \in Nat /\ s <= b /\ s < b /\ ~ClosedOff(sent[t]) /\ v \in V
      BY <1>1
    <3>3. /\ Frames(sent[t], s, V) /\ (introSent[t] <=> Shown(sent[t]))
          /\ NoIdle(sent[t]) /\ V \subseteq Tts \cup {Silent}
      BY <1>1 DEF TurnInv, EndInv, Voices, TypeOK
    <3>5. Speaks(t, s, V, m, l, v, b, q)
      BY <3>1, <3>2, <3>3, Zenon DEF Speaks
    <3> HIDE DEF l, m, q, V, b, s
    <3>4. /\ q \in Seq(Frame) /\ Frames(q, b, V)
          /\ Shown(q) /\ Sounds(q) /\ NoIdle(q)
          /\ ClosedOff(q) <=> l
      BY <3>5, SpeakFacts
    <3> QED BY <3>4 DEF q, l, b, V, s
  <2>4. s + 1 <= n
    BY <1>1
  <2>5. TurnInv(t)'
    BY <1>1, <1>2, <1>3, <1>v, <2>1, <2>3, <2>4 DEF TurnInv, BulkInv, StreamInv, EndInv
  <2>6. TypeOK'
    <3>1. sent' \in [Turns -> Seq(Frame)]
      BY <1>4, <2>3 DEF Emit, TypeOK
    <3>2. seq' \in [Turns -> Nat] /\ introSent' \in [Turns -> BOOLEAN]
      BY <1>1, <1>2, <1>4 DEF Introduced, TypeOK
    <3> QED BY <1>2, <3>1, <3>2 DEF TypeOK
  <2> QED BY <2>5, <2>6
<1>5. CASE Emit(t, IntroOnce(t, motion[t]) \o <<Audio(s, IsLast(t), TurnTts(t))>>) /\ Introduced(t)
  BY <1>4, <1>5, <1>v
<1>6. CASE /\ IsLast(t)
           /\ Emit(t, IntroOnce(t, motion[t]) \o <<Terminator(s)>>) /\ Introduced(t)
  <2>1. Terminator(s) = Audio(s, IsLast(t), Silent)
    <3>1. IsLast(t) = TRUE
      BY <1>6 DEF IsLast
    <3> QED BY <3>1 DEF Terminator
  <2>2. Silent \in Voices(t)
    BY <1>v
  <2> QED BY <2>1, <2>2, <1>4, <1>6
<1>7. CASE ~IsLast(t) /\ UNCHANGED <<sent, introSent>>
  <2>1. s + 1 < n
    BY <1>1, <1>3, <1>7
  <2>2. Frames(sent[t], s + 1, Voices(t))
    <3>1. Frames(sent[t], s, Voices(t)) /\ s + 1 \in Nat /\ s <= s + 1
      BY <1>1 DEF TurnInv
    <3> QED BY <1>1, <3>1, Weaken
  <2>3. TurnInv(t)'
    BY <1>1, <1>2, <1>7, <1>v, <2>1, <2>2 DEF TurnInv, BulkInv, StreamInv, EndInv
  <2>4. TypeOK'
    <3>1. seq' \in [Turns -> Nat]
      BY <1>1, <1>2 DEF TypeOK
    <3> QED BY <1>2, <1>7, <3>1 DEF TypeOK
  <2> QED BY <2>3, <2>4
<1> QED BY <1>5, <1>6, <1>7 DEF SynthChunk

(* The two ends of a turn.                                                 *)
LEMMA FinishInv ==
  ASSUME TypeOK, NEW t \in Turns, TurnInv(t), FinishBulk(t) \/ FinishStream(t)
  PROVE  TypeOK' /\ TurnInv(t)'
<1> DEFINE x == Plain("Idle")
           d == Plain("Debug")
<1>x. x \in Frame /\ x.kind = "Idle" /\ d \in Frame /\ d.kind = "Debug"
  BY FrameFacts DEF Kinds, Plain
<1>n. seq[t] \in Nat /\ sent[t] \in Seq(Frame)
  BY DEF TypeOK
<1>i. /\ Frames(sent[t], seq[t], Voices(t)) /\ (introSent[t] <=> Shown(sent[t]))
  BY DEF TurnInv
(* Idle after a history that shows the text and is closed if it sounds.    *)
<1>e. ASSUME NEW p \in Seq(Frame), Frames(p, seq[t], Voices(t)), Shown(p), NoIdle(p), ClosedOff(p)
      PROVE  /\ Append(p, x) \in Seq(Frame) /\ Frames(Append(p, x), seq[t], Voices(t))
             /\ Shown(Append(p, x)) /\ IdleAtEnd(Append(p, x)) /\ ClosedOff(Append(p, x))
  <2> HIDE DEF x
  <2>1. Frames(Append(p, x), seq[t], Voices(t))
    BY <1>e, <1>x, <1>n, AppendPlain
  <2>2. Shown(Append(p, x)) /\ IdleAtEnd(Append(p, x)) /\ ClosedOff(Append(p, x))
    BY <1>e, <1>x, AppendFinds
  <2> QED BY <2>1, <2>2 DEF Frames
<1>1. CASE FinishBulk(t)
  <2>1. /\ pc[t] = "synth" /\ seq[t] = total[t] /\ disp[t] = "off"
        /\ ClosedOff(sent[t]) /\ NoIdle(sent[t])
    BY <1>1 DEF FinishBulk, TurnInv, BulkInv, EndInv
  <2>2. /\ pc' = [pc EXCEPT ![t] = "done"] /\ introSent' = [introSent EXCEPT ![t] = TRUE]
        /\ sent' = [sent EXCEPT ![t] = @ \o (IntroOnce(t, motion[t]) \o <<x>>)]
        /\ UNCHANGED <<live, swaps, snap, total, seq, motion,
                       queue, produced, translated, disp, current>>
    BY <1>1 DEF FinishBulk, Goto, Introduced, Emit, producer, dispatch
  <2>m. motion[t] \in BOOLEAN
    BY DEF TypeOK
  <2>3. /\ pc'[t] = "done" /\ introSent'[t] = TRUE
        /\ sent'[t] = sent[t] \o (IntroOnce(t, motion[t]) \o <<x>>)
    BY <2>2 DEF TypeOK
  <2> DEFINE p == Introduction(t, motion[t])
  <2>4. /\ sent'[t] = Append(p, x)
        /\ p \in Seq(Frame) /\ Frames(p, seq[t], Voices(t)) /\ Shown(p)
        /\ ClosedOff(p) /\ NoIdle(p)
    <3> DEFINE V == Voices(t)
               m == motion[t]
               n == seq[t]
    <3>1. Frames(sent[t], n, V) /\ m \in BOOLEAN /\ n \in Nat
      BY <1>i, <1>n, <2>m
    <3> HIDE DEF x, V, m, n
    <3>2. /\ sent[t] \o (IntroOnce(t, m) \o <<x>>) = Append(Introduction(t, m), x)
          /\ Introduction(t, m) \in Seq(Frame)
          /\ Frames(Introduction(t, m), n, V) /\ Shown(Introduction(t, m))
          /\ ClosedOff(Introduction(t, m)) <=> ClosedOff(sent[t])
          /\ NoIdle(Introduction(t, m)) <=> NoIdle(sent[t])
      BY <3>1, <1>x, <1>i, AppendIntroOnce
    <3> QED BY <3>2, <2>1, <2>3 DEF V, m, n
  <2> HIDE DEF p
  <2>5. /\ sent'[t] \in Seq(Frame) /\ Frames(sent'[t], seq[t], Voices(t))
        /\ Shown(sent'[t]) /\ IdleAtEnd(sent'[t]) /\ ClosedOff(sent'[t])
    BY <2>4, <1>e
  <2>6. Voices(t)' = Voices(t)
    BY <2>2 DEF Voices
  <2>7. TurnInv(t)'
    BY <2>1, <2>2, <2>3, <2>5, <2>6 DEF TurnInv, BulkInv, StreamInv, EndInv
  <2>8. TypeOK'
    <3>1. sent' \in [Turns -> Seq(Frame)]
      BY <2>2, <2>3, <2>5 DEF TypeOK
    <3> QED BY <2>2, <3>1 DEF TypeOK
  <2> QED BY <2>7, <2>8
<1>2. CASE FinishStream(t)
  <2>1. pc[t] = "join" /\ disp[t] = "ended" /\ ClosedOff(sent[t]) /\ NoIdle(sent[t])
    BY <1>2 DEF FinishStream, Joined, TurnInv, EndInv
  <2>s. Shown(sent[t])
    BY <2>1, <1>i DEF Frames, TextFirst, Shown, ClosedOff
  <2>2. /\ pc' = [pc EXCEPT ![t] = "done"]
        /\ sent' = [sent EXCEPT ![t] = @ \o ((IF translated[t] THEN <<d>> ELSE <<>>) \o <<x>>)]
        /\ UNCHANGED <<live, swaps, snap, total, seq, motion, introSent,
                       queue, produced, translated, disp, current>>
    BY <1>2 DEF FinishStream, Goto, Emit, producer, dispatch
  <2>3. /\ pc'[t] = "done"
        /\ sent'[t] = sent[t] \o ((IF translated[t] THEN <<d>> ELSE <<>>) \o <<x>>)
    BY <2>2 DEF TypeOK
  <2>4. PICK p : /\ sent'[t] = Append(p, x)
                 /\ p \in Seq(Frame) /\ Frames(p, seq[t], Voices(t)) /\ Shown(p)
                 /\ ClosedOff(p) /\ NoIdle(p)
    <3> HIDE DEF x, d
    <3>1. CASE translated[t]
      <4> DEFINE q == sent[t]
      <4>1. sent'[t] = q \o (<<d>> \o <<x>>)
        BY <2>3, <3>1
      <4>2. <<d>> \in Seq(Frame) /\ q \in Seq(Frame)
        BY <1>x, <1>n
      <4> HIDE DEF q
      <4>3. q \o (<<d>> \o <<x>>) = Append(q \o <<d>>, x) /\ q \o <<d>> = Append(q, d)
        BY <4>2, <1>x, ConcatLast, ConcatNone
      <4>4. Frames(Append(q, d), seq[t], Voices(t)) /\ Append(q, d) \in Seq(Frame)
        BY <1>i, <1>x, <1>n, AppendPlain DEF q, Frames
      <4>5. Shown(Append(q, d)) /\ ClosedOff(Append(q, d)) /\ NoIdle(Append(q, d))
        <5>1. Shown(q) /\ ClosedOff(q) /\ NoIdle(q)
          BY <2>1, <2>s DEF q
        <5> QED BY <5>1, <4>2, <1>x, AppendFinds
      <4>6. sent'[t] = Append(Append(q, d), x)
        BY <4>1, <4>3
      <4> QED BY <4>4, <4>5, <4>6
    <3>2. CASE ~translated[t]
      <4>1. sent'[t] = sent[t] \o (<<>> \o <<x>>)
        BY <2>3, <3>2
      <4>2. sent'[t] = Append(sent[t], x)
        BY <4>1, <1>x, <1>n, ConcatNone
      <4> QED BY <4>2, <1>i, <1>n, <2>1, <2>s
    <3> QED BY <3>1, <3>2
  <2>5. /\ sent'[t] \in Seq(Frame) /\ Frames(sent'[t], seq[t], Voices(t))
        /\ Shown(sent'[t]) /\ IdleAtEnd(sent'[t]) /\ ClosedOff(sent'[t])
    BY <2>4, <1>e
  <2>6. Voices(t)' = Voices(t)
    BY <2>2 DEF Voices
  <2>7. TurnInv(t)'
    BY <2>1, <2>2, <2>3, <2>5, <2>6, <2>s, <1>i DEF TurnInv, BulkInv, StreamInv, EndInv
  <2>8. TypeOK'
    <3>1. sent' \in [Turns -> Seq(Frame)]
      BY <2>2, <2>3, <2>5 DEF TypeOK
    <3> QED BY <2>2, <3>1 DEF TypeOK
  <2> QED BY <2>7, <2>8
<1> QED BY <1>1, <1>2
(* The producer of the streaming path.                                     *)
LEMMA ProducerInv ==
  ASSUME TypeOK, NEW t \in Turns, TurnInv(t), OpenStream(t) \/ Paragraph(t) \/ EndTranslation(t)
  PROVE  TypeOK' /\ TurnInv(t)'
<1>q. queue[t] \in Seq(Message)
  BY DEF TypeOK
<1>1. CASE OpenStream(t)
  <2>1. /\ pc[t] = "open" /\ disp[t] = "recv" /\ queue[t] = <<>> /\ ~Shown(sent[t])
        /\ NoFinal(queue[t])
    BY <1>1 DEF OpenStream, TurnInv, StreamInv, NoFinal
  <2>2. /\ \E l \in {"panicked", "translate"} : pc' = [pc EXCEPT ![t] = l]
        /\ UNCHANGED <<live, swaps, snap, total, seq, motion, introSent,
                       queue, produced, translated, disp, current, sent>>
    BY <1>1 DEF OpenStream, Goto, producer, dispatch
  <2>3. pc'[t] \in {"panicked", "translate"} /\ TypeOK'
    BY <2>2 DEF TypeOK
  <2>4. Voices(t)' = Voices(t)
    BY <2>2 DEF Voices
  <2>5. TurnInv(t)'
    BY <2>1, <2>2, <2>3, <2>4 DEF TurnInv, BulkInv, StreamInv, EndInv
  <2> QED BY <2>3, <2>5
<1>2. CASE Paragraph(t)
  <2>1. PICK x \in {"words", "blank"} : Send(t, x, FALSE)
    BY <1>2 DEF Paragraph
  <2> DEFINE e == [text |-> x, final |-> FALSE]
  <2>2. e \in Message /\ ~e.final
    BY DEF Message
  <2>3. queue' = [queue EXCEPT ![t] = Append(@, e)]
    BY <2>1 DEF Send
  <2> HIDE DEF e
  <2>4. /\ pc[t] = "translate" /\ produced[t] < MaxChunks
        /\ produced' = [produced EXCEPT ![t] = @ + 1]
        /\ UNCHANGED <<live, swaps, pc, snap, total, seq, motion, introSent,
                       translated, disp, current, sent>>
    BY <1>2 DEF Paragraph, dispatch
  <2>5. /\ disp[t] \in {"recv", "synth"} /\ NoFinal(queue[t])
        /\ disp[t] = "synth" => ~current[t].final
    BY <2>4 DEF TurnInv, StreamInv
  <2>6. queue'[t] = Append(queue[t], e)
    BY <2>3 DEF TypeOK
  <2>7. queue'[t] \in Seq(Message) /\ NoFinal(queue'[t])
    BY <2>2, <2>5, <2>6, <1>q, SendFacts
  <2>8. TypeOK'
    <3>1. queue' \in [Turns -> Seq(Message)]
      BY <2>3, <2>6, <2>7 DEF TypeOK
    <3>2. produced' \in [Turns -> 0 .. MaxChunks]
      BY <2>4, SpeakAssumption DEF TypeOK
    <3> QED BY <2>4, <3>1, <3>2 DEF TypeOK
  <2>9. Voices(t)' = Voices(t)
    BY <2>4 DEF Voices
  <2>10. TurnInv(t)'
    BY <2>4, <2>5, <2>7, <2>9 DEF TurnInv, BulkInv, StreamInv, EndInv
  <2> QED BY <2>8, <2>10
<1>3. CASE EndTranslation(t)
  <2>1. PICK x \in {"words", "blank", "none"} : Send(t, x, TRUE)
    BY <1>3 DEF EndTranslation
  <2> DEFINE e == [text |-> x, final |-> TRUE]
  <2>2. e \in Message /\ e.final
    BY DEF Message
  <2>3. queue' = [queue EXCEPT ![t] = Append(@, e)]
    BY <2>1 DEF Send
  <2> HIDE DEF e
  <2>4. /\ pc[t] = "translate" /\ pc' = [pc EXCEPT ![t] = "join"]
        /\ \E full \in BOOLEAN : translated' = [translated EXCEPT ![t] = full]
        /\ UNCHANGED <<live, swaps, snap, total, seq, motion, introSent,
                       produced, disp, current, sent>>
    BY <1>3 DEF EndTranslation, Goto, dispatch
  <2>5. /\ disp[t] \in {"recv", "synth"} /\ NoFinal(queue[t])
        /\ disp[t] = "synth" => ~current[t].final
    BY <2>4 DEF TurnInv, StreamInv
  <2>6. queue'[t] = Append(queue[t], e)
    BY <2>3 DEF TypeOK
  <2>7. queue'[t] \in Seq(Message) /\ EndsFinal(queue'[t])
    BY <2>2, <2>5, <2>6, <1>q, SendFacts
  <2>8. pc'[t] = "join"
    BY <2>4 DEF TypeOK
  <2>9. TypeOK'
    <3>1. queue' \in [Turns -> Seq(Message)]
      BY <2>3, <2>6, <2>7 DEF TypeOK
    <3>2. translated' \in [Turns -> BOOLEAN]
      BY <2>4 DEF TypeOK
    <3> QED BY <2>4, <3>1, <3>2 DEF TypeOK
  <2>10. Voices(t)' = Voices(t)
    BY <2>4 DEF Voices
  <2>11. TurnInv(t)'
    BY <2>4, <2>5, <2>7, <2>8, <2>10 DEF TurnInv, BulkInv, StreamInv, EndInv
  <2> QED BY <2>9, <2>11
<1> QED BY <1>1, <1>2, <1>3

(* What a working dispatcher broadcasts.                                   *)
LEMMA DispatcherSpeaks ==
  ASSUME TypeOK, NEW t \in Turns, TurnInv(t), disp[t] \in {"recv", "synth"},
         NEW l \in BOOLEAN, NEW v \in Tts \cup {Silent},
         NEW b \in {seq[t], seq[t] + 1}, l \/ b = seq[t] + 1,
         Emit(t, IntroOnce(t, FALSE) \o <<Audio(seq[t], l, v)>>), Introduced(t)
  PROVE  /\ sent' \in [Turns -> Seq(Frame)] /\ introSent' \in [Turns -> BOOLEAN]
         /\ introSent'[t] /\ Frames(sent'[t], b, Tts \cup {Silent})
         /\ Shown(sent'[t]) /\ Sounds(sent'[t]) /\ NoIdle(sent'[t])
         /\ ClosedOff(sent'[t]) <=> l
<1> DEFINE s == seq[t]
           V == Tts \cup {Silent}
           m == FALSE
           q == sent'[t]
<1>1. q = sent[t] \o (IntroOnce(t, m) \o <<Audio(s, l, v)>>)
  BY DEF Emit, TypeOK
<1>2. s \in Nat /\ b \in Nat /\ s <= b /\ (l \/ s < b)
  BY DEF TypeOK
<1>3. /\ Frames(sent[t], s, V) /\ (introSent[t] <=> Shown(sent[t]))
      /\ ~ClosedOff(sent[t]) /\ NoIdle(sent[t])
  BY DEF TurnInv, EndInv, Voices
<1>4. Speaks(t, s, V, m, l, v, b, q)
  BY <1>1, <1>2, <1>3, Zenon DEF Speaks
<1>5. /\ q \in Seq(Frame) /\ Frames(q, b, V)
      /\ Shown(q) /\ Sounds(q) /\ NoIdle(q)
      /\ ClosedOff(q) <=> l
  <2> HIDE DEF s, V, m, q
  <2> QED BY <1>4, SpeakFacts
<1>6. /\ sent' \in [Turns -> Seq(Frame)]
      /\ introSent' \in [Turns -> BOOLEAN] /\ introSent'[t]
  BY <1>5 DEF Emit, Introduced, TypeOK
<1> QED BY <1>5, <1>6

(* The dispatcher works only for a producer that is translating or done.   *)
LEMMA WorkingFor ==
  ASSUME NEW t \in Turns, TypeOK, TurnInv(t),
         disp[t] = "synth" \/ (disp[t] = "recv" /\ queue[t] # <<>>)
  PROVE  pc[t] \in {"translate", "join"}
BY DEF TypeOK, TurnInv, BulkInv, StreamInv, EndInv

(* The dispatcher takes a message.                                         *)
LEMMA ReceiveInv ==
  ASSUME TypeOK, NEW t \in Turns, TurnInv(t), SkipBlank(t) \/ StartSynth(t)
  PROVE  TypeOK' /\ TurnInv(t)'
<1> DEFINE h == Head(queue[t])
<1>1. /\ disp[t] = "recv" /\ queue[t] # <<>> /\ queue' = [queue EXCEPT ![t] = Tail(@)]
      /\ UNCHANGED <<live, swaps, pc, snap, total, seq, motion, produced, translated>>
  BY DEF SkipBlank, StartSynth, Receive
<1>2. pc[t] \in {"translate", "join"} /\ ~ClosedOff(sent[t]) /\ NoIdle(sent[t])
  BY <1>1, WorkingFor DEF TurnInv, EndInv
<1>3. /\ h \in Message /\ Tail(queue[t]) \in Seq(Message)
      /\ NoFinal(queue[t]) => ~h.final /\ NoFinal(Tail(queue[t]))
      /\ EndsFinal(queue[t]) => h.final \/ EndsFinal(Tail(queue[t]))
  <2> DEFINE q == queue[t]
  <2>1. q \in Seq(Message) /\ q # <<>>
    BY <1>1 DEF TypeOK
  <2> HIDE DEF q
  <2>2. /\ Head(q) \in Message /\ Tail(q) \in Seq(Message)
        /\ NoFinal(q) => ~Head(q).final /\ NoFinal(Tail(q))
        /\ EndsFinal(q) => Head(q).final \/ EndsFinal(Tail(q))
    BY <2>1, ReceiveFacts
  <2> QED BY <2>2 DEF q
<1>4. queue'[t] = Tail(queue[t]) /\ queue' \in [Turns -> Seq(Message)]
  BY <1>1, <1>3 DEF TypeOK
<1>5. /\ pc[t] = "translate" => ~h.final /\ NoFinal(queue'[t])
      /\ pc[t] = "join" => h.final \/ EndsFinal(queue'[t])
  BY <1>1, <1>3, <1>4, Zenon DEF TurnInv, StreamInv
<1> HIDE DEF h
<1>6. CASE SkipBlank(t) /\ ~h.final
  <2>1. UNCHANGED <<sent, introSent, disp, current>>
    BY <1>6 DEF SkipBlank, h
  <2>2. TypeOK'
    BY <1>1, <1>4, <2>1 DEF TypeOK
  <2>3. Voices(t)' = Voices(t)
    BY <1>1, <2>1 DEF Voices
  <2>4. /\ pc'[t] = "translate" => NoFinal(queue'[t])
        /\ pc'[t] = "join" => EndsFinal(queue'[t])
    BY <1>1, <1>5, <1>6, Zenon
  <2>5. TurnInv(t)'
    BY <1>1, <1>2, <2>1, <2>3, <2>4 DEF TurnInv, BulkInv, StreamInv, EndInv
  <2> QED BY <2>2, <2>5
<1>7. CASE SkipBlank(t) /\ h.final
  <2>1. /\ Emit(t, IntroOnce(t, FALSE) \o <<Terminator(seq[t])>>) /\ Introduced(t)
        /\ disp' = [disp EXCEPT ![t] = "ended"] /\ current' = current
    BY <1>7 DEF SkipBlank, h
  <2>2. /\ sent' \in [Turns -> Seq(Frame)] /\ introSent' \in [Turns -> BOOLEAN]
        /\ introSent'[t] /\ Frames(sent'[t], seq[t], Tts \cup {Silent})
        /\ Shown(sent'[t]) /\ Sounds(sent'[t]) /\ NoIdle(sent'[t])
        /\ ClosedOff(sent'[t]) <=> TRUE
    BY <1>1, <2>1, DispatcherSpeaks DEF Terminator
  <2>3. disp'[t] = "ended" /\ pc'[t] = "join"
    <3>1. pc[t] # "translate"
      BY <1>5, <1>7, Zenon
    <3> QED BY <3>1, <1>1, <1>2, <2>1 DEF TypeOK
  <2>4. TypeOK'
    BY <1>1, <1>4, <2>1, <2>2 DEF TypeOK
  <2>5. Voices(t)' = Tts \cup {Silent}
    BY <2>3 DEF Voices
  <2>6. TurnInv(t)'
    BY <1>1, <2>2, <2>3, <2>5 DEF TurnInv, BulkInv, StreamInv, EndInv
  <2> QED BY <2>4, <2>6
<1>8. CASE StartSynth(t)
  <2>1. /\ current' = [current EXCEPT ![t] = [final |-> h.final, tts |-> live.tts]]
        /\ disp' = [disp EXCEPT ![t] = "synth"] /\ UNCHANGED <<sent, introSent>>
    BY <1>8 DEF StartSynth, h
  <2>2. disp'[t] = "synth" /\ current'[t].final = h.final
    BY <2>1 DEF TypeOK
  <2>3. TypeOK'
    <3>1. h.final \in BOOLEAN /\ live.tts \in Tts
      BY <1>3 DEF h, Message, TypeOK
    <3>2. current' \in [Turns -> [final : BOOLEAN, tts : Tts]]
      BY <2>1, <3>1 DEF TypeOK
    <3> QED BY <1>1, <1>4, <2>1, <3>2 DEF TypeOK
  <2>4. Voices(t)' = Voices(t)
    BY <1>1, <2>2 DEF Voices
  <2>5. /\ pc'[t] = "translate" => NoFinal(queue'[t]) /\ ~current'[t].final
        /\ pc'[t] = "join" => current'[t].final \/ EndsFinal(queue'[t])
    BY <1>1, <1>5, <2>2, Zenon
  <2>6. TurnInv(t)'
    BY <1>1, <1>2, <2>1, <2>2, <2>4, <2>5 DEF TurnInv, BulkInv, StreamInv, EndInv
  <2> QED BY <2>3, <2>6
<1> QED BY <1>6, <1>7, <1>8

(* A synthesis ends.                                                       *)
LEMMA FinishSynthInv ==
  ASSUME TypeOK, NEW t \in Turns, TurnInv(t), FinishSynth(t)
  PROVE  TypeOK' /\ TurnInv(t)'
<1> DEFINE c == current[t]
<1>1. /\ disp[t] = "synth"
      /\ UNCHANGED <<live, swaps, pc, snap, total, motion,
                     queue, produced, translated, current>>
      /\ disp' = [disp EXCEPT ![t] = IF c.final THEN "ended" ELSE "recv"]
  BY DEF FinishSynth, producer
<1>2. pc[t] \in {"translate", "join"} /\ ~ClosedOff(sent[t]) /\ NoIdle(sent[t])
  BY <1>1, WorkingFor DEF TurnInv, EndInv
<1>3. c.final \in BOOLEAN /\ c.tts \in Tts /\ seq[t] \in Nat
  BY DEF TypeOK
<1>4. /\ pc'[t] = "translate" => ~c.final /\ NoFinal(queue'[t])
      /\ pc'[t] = "join" => c.final \/ EndsFinal(queue'[t])
  BY <1>1, Zenon DEF TurnInv, StreamInv
<1>5. /\ disp'[t] = IF c.final THEN "ended" ELSE "recv"
      /\ disp' \in [Turns -> {"off", "recv", "synth", "ended"}]
  BY <1>1 DEF TypeOK
<1>6. Voices(t)' = Tts \cup {Silent} /\ Voices(t) = Tts \cup {Silent}
  BY <1>1, <1>5 DEF Voices
<1>7. ASSUME /\ sent' \in [Turns -> Seq(Frame)] /\ introSent' \in [Turns -> BOOLEAN]
             /\ introSent'[t] /\ Frames(sent'[t], seq'[t], Tts \cup {Silent})
             /\ Shown(sent'[t]) /\ Sounds(sent'[t]) /\ NoIdle(sent'[t])
             /\ ClosedOff(sent'[t]) <=> c.final,
             seq' \in [Turns -> Nat]
      PROVE  TypeOK' /\ TurnInv(t)'
  <2> HIDE DEF c
  <2>1. TypeOK'
    BY <1>1, <1>5, <1>7 DEF TypeOK
  <2>2. CASE c.final
    <3>1. disp'[t] = "ended" /\ pc'[t] = "join" /\ ClosedOff(sent'[t])
      <4>1. pc'[t] # "translate" /\ ClosedOff(sent'[t])
        BY <2>2, <1>4, <1>7, Zenon
      <4> QED BY <4>1, <2>2, <1>1, <1>2, <1>5
    <3> QED BY <3>1, <2>1, <1>6, <1>7 DEF TurnInv, BulkInv, StreamInv, EndInv
  <2>3. CASE ~c.final
    <3>1. disp'[t] = "recv" /\ ~ClosedOff(sent'[t])
      BY <2>3, <1>5, <1>7
    <3>2. /\ pc'[t] \in {"translate", "join"}
          /\ pc'[t] = "translate" => NoFinal(queue'[t])
          /\ pc'[t] = "join" => EndsFinal(queue'[t])
      BY <2>3, <1>1, <1>2, <1>4
    <3> QED BY <3>1, <3>2, <2>1, <1>6, <1>7 DEF TurnInv, BulkInv, StreamInv, EndInv
  <2> QED BY <2>2, <2>3
<1>8. CASE /\ Emit(t, IntroOnce(t, FALSE) \o <<Audio(seq[t], c.final, c.tts)>>)
           /\ Introduced(t) /\ seq' = [seq EXCEPT ![t] = @ + 1]
  <2> DEFINE l == c.final
             v == c.tts
  <2>1. l \in BOOLEAN /\ v \in Tts \cup {Silent}
    BY <1>3
  <2>2. /\ seq'[t] = seq[t] + 1 /\ seq' \in [Turns -> Nat]
    BY <1>3, <1>8 DEF TypeOK
  <2>3. /\ sent' \in [Turns -> Seq(Frame)] /\ introSent' \in [Turns -> BOOLEAN]
        /\ introSent'[t] /\ Frames(sent'[t], seq[t] + 1, Tts \cup {Silent})
        /\ Shown(sent'[t]) /\ Sounds(sent'[t]) /\ NoIdle(sent'[t])
        /\ ClosedOff(sent'[t]) <=> l
    <3>1. Emit(t, IntroOnce(t, FALSE) \o <<Audio(seq[t], l, v)>>)
      BY <1>8
    <3> HIDE DEF l, v, c
    <3> QED BY <3>1, <1>1, <1>8, <2>1, DispatcherSpeaks
  <2> QED BY <2>2, <2>3, <1>7
<1>9. CASE /\ c.final /\ Emit(t, IntroOnce(t, FALSE) \o <<Terminator(seq[t])>>)
           /\ Introduced(t) /\ UNCHANGED seq
  <2>1. /\ sent' \in [Turns -> Seq(Frame)] /\ introSent' \in [Turns -> BOOLEAN]
        /\ introSent'[t] /\ Frames(sent'[t], seq[t], Tts \cup {Silent})
        /\ Shown(sent'[t]) /\ Sounds(sent'[t]) /\ NoIdle(sent'[t])
        /\ ClosedOff(sent'[t]) <=> TRUE
    <3> HIDE DEF c
    <3> QED BY <1>1, <1>9, DispatcherSpeaks DEF Terminator
  <2>2. seq' \in [Turns -> Nat]
    BY <1>9 DEF TypeOK
  <2> QED BY <2>1, <2>2, <1>7, <1>9
<1>10. CASE ~c.final /\ UNCHANGED <<sent, introSent, seq>>
  <2>1. TypeOK'
    BY <1>1, <1>5, <1>10 DEF TypeOK
  <2>2. disp'[t] = "recv"
    BY <1>5, <1>10
  <2>3. /\ pc'[t] \in {"translate", "join"}
        /\ pc'[t] = "translate" => NoFinal(queue'[t])
        /\ pc'[t] = "join" => EndsFinal(queue'[t])
    BY <1>1, <1>2, <1>4, <1>10
  <2>4. TurnInv(t)'
    BY <1>2, <1>6, <1>10, <2>2, <2>3 DEF TurnInv, BulkInv, StreamInv, EndInv
  <2> QED BY <2>1, <2>4
<1> QED BY <1>8, <1>9, <1>10 DEF FinishSynth

(* The channel can only close on a producer that died before it sent       *)
(* anything: the one that translated has sent its final message.           *)
LEMMA ChannelClosedInv ==
  ASSUME TypeOK, NEW t \in Turns, TurnInv(t), ChannelClosed(t)
  PROVE  TypeOK' /\ TurnInv(t)'
<1>1. /\ disp[t] = "recv" /\ queue[t] = <<>> /\ disp' = [disp EXCEPT ![t] = "ended"]
      /\ UNCHANGED <<live, swaps, pc, snap, total, seq, motion,
                     queue, produced, translated, current>>
  BY DEF ChannelClosed, producer
<1>2. pc[t] = "panicked"
  BY <1>1 DEF ChannelClosed, Closed, TurnInv, StreamInv, EndsFinal
<1>3. ~Shown(sent[t]) /\ ~introSent[t]
  BY <1>1, <1>2 DEF TurnInv, StreamInv
<1>4. Emit(t, IntroOnce(t, FALSE) \o <<Terminator(seq[t])>>) /\ Introduced(t)
  BY <1>3 DEF ChannelClosed, NeedsNet, IntroOnce
<1>5. /\ sent' \in [Turns -> Seq(Frame)] /\ introSent' \in [Turns -> BOOLEAN]
      /\ introSent'[t] /\ Frames(sent'[t], seq[t], Tts \cup {Silent})
      /\ Shown(sent'[t]) /\ Sounds(sent'[t]) /\ NoIdle(sent'[t])
      /\ ClosedOff(sent'[t]) <=> TRUE
  BY <1>1, <1>4, DispatcherSpeaks DEF Terminator
<1>6. disp'[t] = "ended" /\ pc'[t] = "panicked" /\ queue'[t] = <<>>
  BY <1>1, <1>2 DEF TypeOK
<1>7. TypeOK'
  BY <1>1, <1>5 DEF TypeOK
<1>8. Voices(t)' = Tts \cup {Silent}
  BY <1>6 DEF Voices
<1>9. TurnInv(t)'
  BY <1>1, <1>5, <1>6, <1>8 DEF TurnInv, BulkInv, StreamInv, EndInv
<1> QED BY <1>7, <1>9

-----------------------------------------------------------------------------
(* A hot-swap is seen by a turn only when it loads a handle.               *)
LEMMA SwapInv ==
  ASSUME TypeOK, SwapTts \/ SwapSubagent \/ SwapConfig
  PROVE  TypeOK' /\ \A t \in Turns : Same(t)
<1>1. /\ UNCHANGED <<pc, snap, total, seq, motion, introSent, queue, produced,
                     translated, disp, current, sent>>
      /\ swaps < MaxSwaps /\ swaps' = swaps + 1
  BY DEF SwapTts, SwapSubagent, SwapConfig, Swap, producer, dispatch
<1>2. live' \in [tts : Tts, sub : Subagents, cfg : ConfigType]
  <2>1. CASE SwapTts
    BY <2>1 DEF SwapTts, Swap, TypeOK
  <2>2. CASE SwapSubagent
    BY <2>2 DEF SwapSubagent, Swap, TypeOK
  <2>3. CASE SwapConfig
    BY <2>3, SpeakAssumption DEF SwapConfig, Swap, TypeOK
  <2> QED BY <2>1, <2>2, <2>3
<1>3. swaps' \in 0 .. MaxSwaps
  BY <1>1, SpeakAssumption DEF TypeOK
<1>4. TypeOK'
  BY <1>1, <1>2, <1>3 DEF TypeOK
<1>5. \A t \in Turns : Same(t)
  BY <1>1 DEF Same
<1> QED BY <1>4, <1>5

(* Every step of a turn keeps the invariant.                               *)
LEMMA TurnStepInv ==
  ASSUME TypeOK, NEW t \in Turns, TurnInv(t), TurnStep(t)
  PROVE  TypeOK' /\ TurnInv(t)'
<1>1. CASE ChatArrive(t) \/ AgentAnswer(t) \/ AgentFail(t)
  BY <1>1, ChatInv
<1>2. CASE BeginPlain(t) \/ BeginAnalysis(t) \/ BeginStreaming(t) \/ Analyze(t)
  BY <1>2, BeginInv
<1>3. CASE SynthChunk(t)
  BY <1>3, SynthInv
<1>4. CASE FinishBulk(t) \/ FinishStream(t)
  BY <1>4, FinishInv
<1>5. CASE OpenStream(t) \/ Paragraph(t) \/ EndTranslation(t)
  BY <1>5, ProducerInv
<1>6. CASE SkipBlank(t) \/ StartSynth(t)
  BY <1>6, ReceiveInv
<1>7. CASE FinishSynth(t)
  BY <1>7, FinishSynthInv
<1>8. CASE ChannelClosed(t)
  BY <1>8, ChannelClosedInv
<1> QED
  BY <1>1, <1>2, <1>3, <1>4, <1>5, <1>6, <1>7, <1>8
  DEF TurnStep, BulkStep, ProducerStep, DispatcherStep

(* Every step keeps the invariant.                                         *)
LEMMA StepInv == IInv /\ [Next]_vars => IInv'
<1> SUFFICES ASSUME IInv, [Next]_vars PROVE IInv'
  OBVIOUS
<1>0. TypeOK /\ \A t \in Turns : TurnInv(t)
  BY DEF IInv
<1>1. ASSUME NEW t \in Turns, TurnStep(t) PROVE IInv'
  <2>1. TypeOK' /\ TurnInv(t)'
    BY <1>0, <1>1, TurnStepInv
  <2>2. ASSUME NEW u \in Turns, u # t PROVE TurnInv(u)'
    <3>1. Same(u)
      BY <1>0, <1>1, <2>2, Locality
    <3> QED BY <1>0, <3>1, SameInv
  <2> QED BY <2>1, <2>2 DEF IInv
<1>2. CASE SwapTts \/ SwapSubagent \/ SwapConfig
  <2>1. TypeOK' /\ \A t \in Turns : Same(t)
    BY <1>0, <1>2, SwapInv
  <2>2. ASSUME NEW t \in Turns PROVE TurnInv(t)'
    BY <1>0, <2>1, SameInv
  <2> QED BY <2>1, <2>2 DEF IInv
<1>3. CASE UNCHANGED vars
  <2>1. TypeOK' /\ \A t \in Turns : Same(t)
    BY <1>0, <1>3 DEF vars, producer, dispatch, TypeOK, Same
  <2>2. ASSUME NEW t \in Turns PROVE TurnInv(t)'
    BY <1>0, <2>1, SameInv
  <2> QED BY <2>1, <2>2 DEF IInv
<1> QED BY <1>1, <1>2, <1>3 DEF Next, TurnStep

(* The inductive invariant holds in every reachable state.                 *)
THEOREM Invariance == Spec => []IInv
<1> QED BY InitInv, StepInv, PTL DEF Spec

(* Every variable keeps its type, whatever the turns and the settings do.  *)
THEOREM TypeCorrect == Spec => []TypeOK
<1>1. IInv => TypeOK
  BY DEF IInv
<1> QED BY <1>1, Invariance, PTL

-----------------------------------------------------------------------------
(* What the invariant says of the frames, in the words of the properties.  *)
LEMMA FramesOfTurn ==
  ASSUME IInv, NEW t \in Turns
  PROVE  /\ Frames(sent[t], seq[t], Voices(t)) /\ EndInv(t)
         /\ \A k : Of(t, k) = {i \in 1 .. Len(sent[t]) : sent[t][i].kind = k}
<1>1. sent[t] \in Seq(Frame)
  BY DEF IInv, TypeOK
<1>2. DOMAIN sent[t] = 1 .. Len(sent[t])
  BY <1>1
<1> QED BY <1>2 DEF Of, Idx, IInv, TurnInv

(* emit_intro_once on both paths: one reply text, and no sound before it.  *)
THEOREM IntroCorrect == Spec => []IntroOnceBeforeAudio
<1>1. IInv => IntroOnceBeforeAudio
  <2> SUFFICES ASSUME IInv, NEW t \in Turns
               PROVE  /\ \A i, j \in Of(t, "Text") : i = j
                      /\ \A a \in Of(t, "Audio") : \E i \in Of(t, "Text") : i < a
    BY DEF IntroOnceBeforeAudio
  <2>1. \A k : Of(t, k) = {i \in 1 .. Len(sent[t]) : sent[t][i].kind = k}
    BY FramesOfTurn
  <2>2. TextOnce(sent[t]) /\ TextFirst(sent[t])
    BY FramesOfTurn DEF Frames
  <2>3. \A i, j \in Of(t, "Text") : i = j
    BY <2>1, <2>2 DEF TextOnce
  <2>4. \A a \in Of(t, "Audio") : \E i \in Of(t, "Text") : i < a
    BY <2>1, <2>2 DEF TextFirst
  <2> QED BY <2>3, <2>4
<1> QED BY <1>1, Invariance, PTL

(* The frames leave in the order of their seq and nothing follows the one  *)
(* flagged last, through skipped chunks, failures and the safety net.      *)
THEOREM OrderCorrect == Spec => []AudioInOrder
<1>1. IInv => AudioInOrder
  <2> SUFFICES ASSUME IInv, NEW t \in Turns,
                      NEW i \in Of(t, "Audio"), NEW j \in Of(t, "Audio"), i < j
               PROVE  sent[t][i].seq < sent[t][j].seq /\ ~sent[t][i].last
    BY DEF AudioInOrder
  <2> QED BY FramesOfTurn DEF Frames, Order
<1> QED BY <1>1, Invariance, PTL

(* Idle is the turn's last frame, and only follows sound that was closed.  *)
THEOREM IdleCorrect == Spec => []IdleAfterLast
<1>1. IInv => IdleAfterLast
  <2> SUFFICES ASSUME IInv, NEW t \in Turns, NEW i \in Of(t, "Idle")
               PROVE  /\ i = Len(sent[t])
                      /\ Of(t, "Text") # {}
                      /\ Of(t, "Audio") # {} => \E a \in Of(t, "Audio") : sent[t][a].last
    BY DEF IdleAfterLast
  <2>1. EndInv(t) /\ \A k : Of(t, k) = {n \in 1 .. Len(sent[t]) : sent[t][n].kind = k}
    BY FramesOfTurn
  <2>2. ~NoIdle(sent[t])
    BY <2>1 DEF NoIdle
  <2>3. IdleAtEnd(sent[t]) /\ Shown(sent[t]) /\ (Sounds(sent[t]) => ClosedOff(sent[t]))
    BY <2>1, <2>2 DEF EndInv
  <2>4. i = Len(sent[t]) /\ Of(t, "Text") # {}
    BY <2>1, <2>3 DEF IdleAtEnd, Shown
  <2>5. Of(t, "Audio") # {} => Sounds(sent[t])
    BY <2>1 DEF Sounds
  <2>6. ClosedOff(sent[t]) => \E a \in Of(t, "Audio") : sent[t][a].last
    BY <2>1, Zenon DEF ClosedOff
  <2> QED BY <2>3, <2>4, <2>5, <2>6
<1> QED BY <1>1, Invariance, PTL

(* A dispatcher that ended has flagged its turn's end, even when its       *)
(* producer died.                                                          *)
THEOREM ClosingCorrect == Spec => []DispatcherCloses
<1>1. IInv => DispatcherCloses
  <2> SUFFICES ASSUME IInv, NEW t \in Turns, disp[t] = "ended"
               PROVE  \E a \in Of(t, "Audio") : sent[t][a].last
    BY DEF DispatcherCloses
  <2>1. ClosedOff(sent[t])
    BY FramesOfTurn DEF EndInv
  <2>2. \A k : Of(t, k) = {n \in 1 .. Len(sent[t]) : sent[t][n].kind = k}
    BY FramesOfTurn
  <2> QED BY <2>1, <2>2, Zenon DEF ClosedOff
<1> QED BY <1>1, Invariance, PTL

(* A bulk turn speaks with the manager it loaded, however often the live   *)
(* one is replaced meanwhile.                                              *)
THEOREM SnapshotCorrect == Spec => []BulkKeepsSnapshot
<1>1. IInv => BulkKeepsSnapshot
  <2> SUFFICES ASSUME IInv, NEW t \in Turns, disp[t] = "off", NEW a \in Of(t, "Audio")
               PROVE  sent[t][a].voice \in {snap[t].tts, Silent}
    BY DEF BulkKeepsSnapshot, IsStream
  <2> QED BY FramesOfTurn DEF Frames, Bounds, Voices
<1> QED BY <1>1, Invariance, PTL

-----------------------------------------------------------------------------
(* The refinement of TurnProtocol.                                         *)

(* A set of indices has a greatest one.                                    *)
LEMMA Greatest ==
  ASSUME NEW n \in Nat, NEW A \in SUBSET (1 .. n), A # {}
  PROVE  \E a \in A : \A b \in A : b <= a
<1> DEFINE T == {n - a : a \in A}
<1>1. T \subseteq Nat
  OBVIOUS
<1>2. T # {}
  <2>1. PICK a \in A : TRUE
    OBVIOUS
  <2>2. n - a \in T
    BY <2>1
  <2> QED BY <2>2
<1>3. \E x \in T : \A y \in T : ~(y < x)
  <2> DEFINE R == OpToRel(<, Nat)
  <2> HIDE DEF T
  <2>1. IsWellFoundedOn(R, Nat)
    BY NatLessThanWellFounded
  <2>2. \A x, y \in T : y < x => <<y, x>> \in R
    BY <1>1 DEF OpToRel
  <2> HIDE DEF R
  <2>3. \E x \in T : \A y \in T : ~(<<y, x>> \in R)
    BY <1>1, <1>2, <2>1, WFMin
  <2> QED BY <2>2, <2>3
<1>4. PICK a \in A : \A y \in T : ~(y < n - a)
  BY <1>3
<1>5. ASSUME NEW b \in A PROVE b <= a
  <2>1. n - b \in T
    OBVIOUS
  <2>2. ~(n - b < n - a)
    BY <2>1, <1>4
  <2>3. a \in Nat /\ b \in Nat
    OBVIOUS
  <2> HIDE DEF T
  <2> QED BY <2>2, <2>3
<1> QED BY <1>5

-----------------------------------------------------------------------------
(* What a viewer sees of a history of frames: stage, text and mark of one  *)
(* turn.                                                                   *)
At(q, k) == {i \in DOMAIN q : q[i].kind = k}
Final(q) == CHOOSE a \in At(q, "Audio") : \A b \in At(q, "Audio") : b <= a
Stage(q) ==
  CASE At(q, "Idle") # {}        -> "resting"
    [] At(q, "Idle") = {} /\ At(q, "Audio") # {} ->
         IF q[Final(q)].last THEN "closed" ELSE "speaking"
    [] At(q, "Idle") = {} /\ At(q, "Audio") = {} ->
         IF At(q, "UserMessage") # {} THEN "asked" ELSE "silent"
Mark(q) == IF At(q, "Audio") = {} THEN 0 ELSE q[Final(q)].seq + 1
Text(q) ==
  IF At(q, "Text") = {} THEN "hidden"
  ELSE IF \E i \in At(q, "Text") :
            At(q, "Text") = {i} /\ \A a \in At(q, "Audio") : i < a
       THEN "first" ELSE "late"

(* They are the stage, the text and the mark of the refinement mapping.    *)
LEMMA MappingFacts ==
  ASSUME NEW t
  PROVE  /\ StageOf(t) = Stage(sent[t]) /\ MarkOf(t) = Mark(sent[t])
         /\ StageOf(t)' = Stage(sent'[t]) /\ MarkOf(t)' = Mark(sent'[t])
         /\ TextOf(t) = Text(sent[t]) /\ TextOf(t)' = Text(sent'[t])
<1>1. /\ StageOf(t) = Stage(sent[t]) /\ MarkOf(t) = Mark(sent[t])
      /\ StageOf(t)' = Stage(sent'[t]) /\ MarkOf(t)' = Mark(sent'[t])
  BY DEF StageOf, MarkOf, LastAudio, Of, Idx, Stage, Mark, Final, At
<1>2. TextOf(t) = Text(sent[t]) /\ TextOf(t)' = Text(sent'[t])
  BY DEF TextOf, Of, Idx, Text, At
<1> QED BY <1>1, <1>2

(* In a well-formed history the text is hidden, or shown once and first.   *)
LEMMA TextFacts ==
  ASSUME NEW n, NEW V, NEW q, Frames(q, n, V)
  PROVE  /\ ~Shown(q) => Text(q) = "hidden"
         /\ Shown(q) => Text(q) = "first"
         /\ Sounds(q) => Shown(q)
<1>1. /\ q \in Seq(Frame) /\ DOMAIN q = 1 .. Len(q)
      /\ TextOnce(q) /\ TextFirst(q)
  BY DEF Frames
<1>2. \A k : At(q, k) = {i \in 1 .. Len(q) : q[i].kind = k}
  BY <1>1 DEF At
<1>3. ~Shown(q) => Text(q) = "hidden"
  BY <1>2 DEF Shown, Text
<1>4. ASSUME Shown(q) PROVE Text(q) = "first"
  <2>1. PICK i \in 1 .. Len(q) : q[i].kind = "Text"
    BY <1>4 DEF Shown
  <2>2. At(q, "Text") = {i}
    BY <2>1, <1>1, <1>2 DEF TextOnce
  <2>3. \A a \in At(q, "Audio") : i < a
    <3> SUFFICES ASSUME NEW a \in At(q, "Audio") PROVE i < a
      OBVIOUS
    <3>1. a \in 1 .. Len(q) /\ q[a].kind = "Audio"
      BY <1>2
    <3>2. PICK j \in 1 .. Len(q) : q[j].kind = "Text" /\ j < a
      BY <3>1, <1>1 DEF TextFirst
    <3>3. j = i
      BY <3>2, <2>1, <1>1 DEF TextOnce
    <3> QED BY <3>2, <3>3
  <2> HIDE DEF At
  <2> QED BY <2>2, <2>3 DEF Text
<1>5. Sounds(q) => Shown(q)
  BY <1>1 DEF Sounds, Shown, TextFirst
<1> QED BY <1>3, <1>4, <1>5

(* A turn that sounds has a last sound.                                    *)
LEMMA FinalFacts ==
  ASSUME NEW q \in Seq(Frame), At(q, "Audio") # {}
  PROVE  Final(q) \in At(q, "Audio") /\ \A b \in At(q, "Audio") : b <= Final(q)
<1>1. \E a \in At(q, "Audio") : \A b \in At(q, "Audio") : b <= a
  <2>1. Len(q) \in Nat /\ At(q, "Audio") \in SUBSET (1 .. Len(q))
    BY DEF At
  <2> QED BY <2>1, Greatest
<1> QED BY <1>1 DEF Final

(* In a well-formed history the last sound closes the turn if any does,    *)
(* and unless it does its seq is below the next.                           *)
LEMMA LastCloses ==
  ASSUME NEW n \in Nat, NEW V, NEW q, Frames(q, n, V), At(q, "Audio") # {}
  PROVE  /\ q[Final(q)].last <=> ClosedOff(q)
         /\ ~q[Final(q)].last => q[Final(q)].seq < n
         /\ q[Final(q)].seq \in Nat
<1>q. q \in Seq(Frame) /\ DOMAIN q = 1 .. Len(q)
  BY DEF Frames
<1>1. /\ Final(q) \in 1 .. Len(q) /\ q[Final(q)].kind = "Audio"
      /\ \A b \in 1 .. Len(q) : q[b].kind = "Audio" => b <= Final(q)
  BY <1>q, FinalFacts DEF At
<1> DEFINE f == Final(q)
<1> HIDE DEF f
<1>2. ClosedOff(q) => q[f].last
  <2> SUFFICES ASSUME NEW i \in 1 .. Len(q), q[i].kind = "Audio", q[i].last PROVE q[f].last
    BY Zenon DEF ClosedOff
  <2>1. i <= f /\ f \in 1 .. Len(q) /\ q[f].kind = "Audio"
    BY <1>1 DEF f
  <2>2. CASE i = f
    BY <2>2
  <2>3. CASE i < f
    BY <2>1, <2>3 DEF Frames, Order
  <2> QED BY <2>1, <2>2, <2>3
<1>3. q[f].last => ClosedOff(q)
  BY <1>1, Zenon DEF ClosedOff, f
<1>4. ~q[f].last => q[f].seq < n
  BY <1>1, Zenon DEF Frames, Bounds, f
<1>5. q[f].seq \in Nat
  <2>1. q[f] \in Frame
    BY <1>1, <1>q DEF f
  <2> QED BY <2>1 DEF Frame
<1> QED BY <1>2, <1>3, <1>4, <1>5 DEF f

-----------------------------------------------------------------------------
(* Every step of a turn adds at most one frame that counts for a viewer,   *)
(* after frames that do not.                                               *)
Viewed == {"UserMessage", "Audio", "Idle"}
Quiet(r) == r \in Seq(Frame) /\ \A i \in 1 .. Len(r) :
              r[i].kind \notin Viewed

(* Grown(q, p, x): p is q, frames that do not count, and x.                *)
Grown(q, p, x) ==
  /\ q \in Seq(Frame) /\ p \in Seq(Frame) /\ p[Len(p)] = x
  /\ Len(q) \in Nat /\ Len(p) \in Nat /\ Len(q) < Len(p)
  /\ DOMAIN q = 1 .. Len(q) /\ DOMAIN p = 1 .. Len(p)
  /\ \A i \in 1 .. Len(q) : p[i] = q[i]
  /\ At(p, x.kind) = At(q, x.kind) \cup {Len(p)}
  /\ \A k \in Viewed : x.kind # k => At(p, k) = At(q, k)

(* Appending quiet frames and one that counts grows a history so.          *)
LEMMA AddedFacts ==
  ASSUME NEW q \in Seq(Frame), NEW r, Quiet(r), NEW x \in Frame, x.kind \in Viewed,
         NEW p, p = q \o (r \o <<x>>)
  PROVE  Grown(q, p, x)
<1>1. /\ p \in Seq(Frame) /\ Len(p) = Len(q) + Len(r) + 1
      /\ Len(q) \in Nat /\ Len(r) \in Nat
      /\ \A i \in 1 .. Len(q) : p[i] = q[i]
      /\ \A i \in 1 .. Len(r) : p[Len(q) + i] = r[i]
      /\ p[Len(p)] = x
      /\ DOMAIN p = 1 .. Len(p) /\ DOMAIN q = 1 .. Len(q)
  BY DEF Quiet
<1>2. \A i \in 1 .. Len(p) :
        i \in 1 .. Len(q) \/ i = Len(p) \/ p[i].kind \notin Viewed
  <2> TAKE i \in 1 .. Len(p)
  <2>1. CASE i > Len(q) /\ i < Len(p)
    <3>1. i - Len(q) \in 1 .. Len(r) /\ Len(q) + (i - Len(q)) = i
      BY <2>1, <1>1
    <3>2. p[i] = r[i - Len(q)]
      BY <3>1, <1>1
    <3> QED BY <3>1, <3>2 DEF Quiet
  <2>2. i \in 1 .. Len(q) \/ i = Len(p) \/ (i > Len(q) /\ i < Len(p))
    <3> DEFINE n == Len(q)
               m == Len(p)
    <3>1. n \in Nat /\ m \in Nat /\ i \in 1 .. m
      BY <1>1
    <3> HIDE DEF n, m
    <3>2. i \in 1 .. n \/ i = m \/ (i > n /\ i < m)
      BY ONLY <3>1
    <3> QED BY <3>2 DEF n, m
  <2> QED BY <2>1, <2>2, Zenon
<1>3. ASSUME NEW k \in Viewed
      PROVE  /\ x.kind = k => At(p, k) = At(q, k) \cup {Len(p)}
             /\ x.kind # k => At(p, k) = At(q, k)
  <2>1. ASSUME NEW i \in At(p, k) PROVE i \in At(q, k) \/ (x.kind = k /\ i = Len(p))
    BY <1>1, <1>2, <2>1 DEF At, Viewed
  <2>2. ASSUME NEW i \in At(q, k) PROVE i \in At(p, k)
    BY <1>1, <2>2 DEF At
  <2>3. x.kind = k => Len(p) \in At(p, k)
    BY <1>1 DEF At
  <2> QED BY <2>1, <2>2, <2>3
<1>4. At(p, x.kind) = At(q, x.kind) \cup {Len(p)}
  BY <1>3
<1>5. Len(q) < Len(p) /\ Len(p) \in Nat
  BY <1>1
<1> HIDE DEF At
<1> QED BY <1>1, <1>3, <1>4, <1>5, Zenon DEF Grown

(* The intro frames, once or not at all, are quiet.                        *)
LEMMA IntroQuiet ==
  ASSUME NEW t, NEW m \in BOOLEAN
  PROVE  Quiet(IntroFrames(m)) /\ Quiet(IntroOnce(t, m))
<1> DEFINE e == Plain("Expression")
           o == Plain("Motion")
           x == Plain("Text")
           d == Plain("Debug")
<1>1. /\ e \in Frame /\ o \in Frame /\ x \in Frame /\ d \in Frame
      /\ e.kind = "Expression" /\ o.kind = "Motion" /\ x.kind = "Text" /\ d.kind = "Debug"
  BY DEF Plain, Frame, Kinds
<1>2. IntroFrames(m) = IF m THEN <<e, o, x, d>> ELSE <<e, x, d>>
  BY DEF IntroFrames
<1> HIDE DEF e, o, x, d
<1>3. Quiet(<<e, o, x, d>>)
  BY <1>1 DEF Quiet, Viewed
<1>4. Quiet(<<e, x, d>>)
  BY <1>1 DEF Quiet, Viewed
<1>5. Quiet(<<>>)
  BY DEF Quiet
<1> QED BY <1>2, <1>3, <1>4, <1>5 DEF IntroOnce

(* What a step of a turn adds to its history.                              *)
Adds(t, r, x) ==
  /\ Quiet(r) /\ x \in Frame
  /\ sent'[t] = sent[t] \o (r \o <<x>>)
  /\ pc'[t] # "new"
  /\ \/ pc[t] = "new" /\ x.kind = "UserMessage" /\ pc'[t] = "agent"
     \/ pc[t] # "new" /\ x.kind = "Audio" /\ x.seq = seq[t]
     \/ pc[t] \notin {"new", "done"} /\ x.kind = "Idle" /\ pc'[t] = "done"

AddsNothing(t) == sent'[t] = sent[t] /\ pc[t] # "new" /\ pc'[t] # "new"

(* Every step of a turn adds that, or adds nothing to a turn echoed before.*)
LEMMA StepAdds ==
  ASSUME TypeOK, NEW t \in Turns, TurnInv(t), TurnStep(t)
  PROVE  AddsNothing(t) \/ \E r, x : Adds(t, r, x)
<1>k. /\ \A k \in Kinds : Plain(k) \in Frame /\ Plain(k).kind = k
      /\ {"UserMessage", "Debug", "Idle"} \subseteq Kinds
  BY FrameFacts DEF Plain, Kinds
<1>a. \A l \in BOOLEAN, v \in Tts \cup {Silent} :
        LET x == Audio(seq[t], l, v) IN x \in Frame /\ x.kind = "Audio" /\ x.seq = seq[t]
  BY FrameFacts DEF Audio, TypeOK
<1>n. pc[t] = "new" => disp[t] = "off"
  BY DEF TurnInv, BulkInv
<1> USE DEF Goto
<1>1. CASE ChatArrive(t)
  <2> DEFINE x == Plain("UserMessage")
  <2>1. pc[t] = "new" /\ pc'[t] = "agent" /\ sent'[t] = sent[t] \o <<x>>
    BY <1>1 DEF ChatArrive, Emit, TypeOK
  <2>2. x \in Frame /\ x.kind = "UserMessage"
    BY <1>k
  <2> HIDE DEF x
  <2>3. Quiet(<<>>) /\ <<>> \o <<x>> = <<x>>
    BY DEF Quiet
  <2>4. Adds(t, <<>>, x)
    BY <2>1, <2>2, <2>3 DEF Adds
  <2> QED BY <2>4
<1>2. CASE AgentAnswer(t) \/ AgentFail(t)
  BY <1>2 DEF AgentAnswer, AgentFail, AddsNothing, TypeOK
<1>2b. CASE BeginAnalysis(t) \/ BeginStreaming(t)
  <2>1. CASE BeginAnalysis(t)
    BY <2>1 DEF BeginAnalysis, AddsNothing, TypeOK
  <2>2. CASE BeginStreaming(t)
    BY <2>2 DEF BeginStreaming, AddsNothing, TypeOK
  <2> QED BY <1>2b, <2>1, <2>2
<1>3. ASSUME NEW n, NEW m \in BOOLEAN, Resolve(t, n, m), pc[t] \in {"reply", "analyze"}
      PROVE  AddsNothing(t) \/ \E r, x : Adds(t, r, x)
  <2>1. CASE n = 0
    <3> DEFINE x == Plain("Idle")
    <3>1. Emit(t, IntroOnce(t, m) \o <<x>>) /\ Goto(t, "done")
      BY <2>1, <1>3 DEF Resolve
    <3>1a. pc'[t] = "done" /\ sent'[t] = sent[t] \o (IntroOnce(t, m) \o <<x>>)
      BY <3>1 DEF Emit, TypeOK
    <3>2. x \in Frame /\ x.kind = "Idle"
      BY <1>k
    <3> HIDE DEF x
    <3>3. Adds(t, IntroOnce(t, m), x)
      BY <1>3, <3>1a, <3>2, IntroQuiet DEF Adds
    <3> QED BY <3>3
  <2>2. CASE n # 0
    BY <2>2, <1>3 DEF Resolve, AddsNothing, TypeOK
  <2> QED BY <2>1, <2>2
<1>4. CASE BeginPlain(t)
  BY <1>3, <1>4 DEF BeginPlain
<1>5. CASE Analyze(t)
  <2>1. ASSUME Goto(t, "crashed"), UNCHANGED sent PROVE AddsNothing(t)
    BY <1>5, <2>1 DEF Analyze, AddsNothing, TypeOK
  <2> QED BY <1>3, <1>5, <2>1 DEF Analyze
(* A chunk or a terminator.                                                *)
<1>6. ASSUME NEW m \in BOOLEAN, NEW l \in BOOLEAN, NEW v \in Tts \cup {Silent},
             Emit(t, IntroOnce(t, m) \o <<Audio(seq[t], l, v)>>),
             pc'[t] = pc[t], pc[t] # "new"
      PROVE  \E r, x : Adds(t, r, x)
  <2> DEFINE x == Audio(seq[t], l, v)
  <2>1. x \in Frame /\ x.kind = "Audio" /\ x.seq = seq[t]
    BY <1>a
  <2>2. sent'[t] = sent[t] \o (IntroOnce(t, m) \o <<x>>)
    BY <1>6 DEF Emit, TypeOK
  <2> HIDE DEF x
  <2>3. Adds(t, IntroOnce(t, m), x)
    BY <1>6, <2>1, <2>2, IntroQuiet DEF Adds
  <2> QED BY <2>3
<1>7. CASE SynthChunk(t)
  <2>1. pc[t] = "synth" /\ pc' = pc /\ motion[t] \in BOOLEAN
    BY <1>7 DEF SynthChunk, TypeOK
  <2>2. IsLast(t) \in BOOLEAN /\ TurnTts(t) \in Tts
    BY DEF IsLast, TurnTts, TypeOK
  <2>3. CASE Emit(t, IntroOnce(t, motion[t]) \o <<Audio(seq[t], IsLast(t), TurnTts(t))>>)
    BY <2>1, <2>2, <2>3, <1>6
  <2>4. CASE Emit(t, IntroOnce(t, motion[t]) \o <<Terminator(seq[t])>>)
    BY <2>1, <2>4, <1>6 DEF Terminator
  <2>5. CASE UNCHANGED sent
    BY <2>1, <2>5 DEF AddsNothing
  <2> QED BY <1>7, <2>3, <2>4, <2>5 DEF SynthChunk
<1>8. CASE FinishBulk(t)
  <2> DEFINE x == Plain("Idle")
             m == motion[t]
  <2>1. /\ pc[t] = "synth" /\ pc'[t] = "done" /\ m \in BOOLEAN
        /\ sent'[t] = sent[t] \o (IntroOnce(t, m) \o <<x>>)
    BY <1>8 DEF FinishBulk, Emit, TypeOK
  <2>2. x \in Frame /\ x.kind = "Idle"
    BY <1>k
  <2> HIDE DEF x, m
  <2>3. Adds(t, IntroOnce(t, m), x)
    BY <2>1, <2>2, IntroQuiet DEF Adds
  <2> QED BY <2>3
<1>9. CASE OpenStream(t) \/ Paragraph(t) \/ EndTranslation(t)
  BY <1>9 DEF OpenStream, Paragraph, EndTranslation, AddsNothing, TypeOK
<1>10. CASE FinishStream(t)
  <2> DEFINE x == Plain("Idle")
             d == Plain("Debug")
             r == IF translated[t] THEN <<d>> ELSE <<>>
  <2>1. pc[t] = "join" /\ pc'[t] = "done" /\ sent'[t] = sent[t] \o (r \o <<x>>)
    BY <1>10 DEF FinishStream, Emit, TypeOK
  <2>2. x \in Frame /\ x.kind = "Idle" /\ d \in Frame /\ d.kind = "Debug"
    BY <1>k
  <2> HIDE DEF x, d
  <2>3. Quiet(r)
    BY <2>2 DEF Quiet, Viewed
  <2> HIDE DEF r
  <2>4. Adds(t, r, x)
    BY <2>1, <2>2, <2>3 DEF Adds
  <2> QED BY <2>4
<1>11. CASE SkipBlank(t)
  <2>1. disp[t] = "recv" /\ pc' = pc
    BY <1>11 DEF SkipBlank, Receive
  <2>2. CASE Emit(t, IntroOnce(t, FALSE) \o <<Terminator(seq[t])>>)
    BY <2>1, <2>2, <1>6, <1>n DEF Terminator
  <2>3. CASE UNCHANGED sent
    BY <2>1, <2>3, <1>n DEF AddsNothing
  <2> QED BY <1>11, <2>2, <2>3 DEF SkipBlank
<1>12. CASE StartSynth(t)
  BY <1>12, <1>n DEF StartSynth, Receive, AddsNothing
<1>13. CASE FinishSynth(t)
  <2> DEFINE c == current[t]
  <2>1. disp[t] = "synth" /\ pc' = pc /\ c.final \in BOOLEAN /\ c.tts \in Tts
    BY <1>13 DEF FinishSynth, TypeOK
  <2>2. CASE Emit(t, IntroOnce(t, FALSE) \o <<Audio(seq[t], c.final, c.tts)>>)
    BY <2>1, <2>2, <1>6, <1>n
  <2>3. CASE Emit(t, IntroOnce(t, FALSE) \o <<Terminator(seq[t])>>)
    BY <2>1, <2>3, <1>6, <1>n DEF Terminator
  <2>4. CASE UNCHANGED sent
    BY <2>1, <2>4, <1>n DEF AddsNothing
  <2> QED BY <1>13, <2>2, <2>3, <2>4 DEF FinishSynth
<1>14. CASE ChannelClosed(t)
  <2>1. disp[t] = "recv" /\ pc' = pc
    BY <1>14 DEF ChannelClosed
  <2>2. CASE NeedsNet(t) /\ Emit(t, IntroFrames(FALSE) \o <<Terminator(seq[t])>>)
    <3>1. IntroFrames(FALSE) = IntroOnce(t, FALSE)
      BY <2>2 DEF NeedsNet, IntroOnce
    <3>2. Emit(t, IntroOnce(t, FALSE) \o <<Terminator(seq[t])>>)
      BY <2>2, <3>1
    <3> QED BY <2>1, <3>2, <1>6, <1>n DEF Terminator
  <2>3. CASE UNCHANGED sent
    BY <2>1, <2>3, <1>n DEF AddsNothing
  <2> QED BY <1>14, <2>2, <2>3 DEF ChannelClosed
<1> QED
  BY <1>1, <1>2, <1>2b, <1>4, <1>5, <1>7, <1>8, <1>9, <1>10, <1>11, <1>12, <1>13, <1>14
  DEF TurnStep, BulkStep, ProducerStep, DispatcherStep

-----------------------------------------------------------------------------
(* The mapping, step by step.                                              *)

(* The echo is the first thing a turn sends; before it, it is silent.      *)
Echoed(t) == At(sent[t], "UserMessage") # {} <=> pc[t] # "new"

(* What an added frame does to stage and mark.                             *)
LEMMA AskedMoves ==
  ASSUME NEW q, NEW p, NEW x, Grown(q, p, x), x.kind = "UserMessage",
         At(q, "UserMessage") = {}, At(q, "Audio") = {}, At(q, "Idle") = {}
  PROVE  Stage(q) = "silent" /\ Stage(p) = "asked" /\ Mark(p) = Mark(q)
<1>1. At(p, "UserMessage") # {} /\ At(p, "Audio") = {} /\ At(p, "Idle") = {}
  BY DEF Grown, Viewed
<1> QED BY <1>1 DEF Stage, Mark

(* A sound moves the turn to speaking or to closed, above every seq before *)
(* it: nothing sounds after the frame flagged last.                        *)
LEMMA SoundMoves ==
  ASSUME NEW q, NEW p, NEW x, Grown(q, p, x), x.kind = "Audio",
         NEW n \in Nat, NEW V, Frames(q, n, V), x.seq = n,
         NEW b, NEW W, Frames(p, b, W), IdleAtEnd(p),
         At(q, "UserMessage") # {}
  PROVE  /\ Stage(q) \in {"asked", "speaking"} /\ Stage(p) \in {"speaking", "closed"}
         /\ Mark(p) > Mark(q)
<1>1. /\ p[Len(p)] = x /\ Len(q) < Len(p) /\ Len(p) \in Nat /\ Len(q) \in Nat
      /\ DOMAIN q = 1 .. Len(q) /\ DOMAIN p = 1 .. Len(p)
      /\ \A i \in 1 .. Len(q) : p[i] = q[i]
      /\ q \in Seq(Frame) /\ p \in Seq(Frame)
  BY DEF Grown
<1>a. At(p, "Audio") = At(q, "Audio") \cup {Len(p)} /\ At(p, "Idle") = At(q, "Idle")
  BY DEF Grown, Viewed
<1>i. At(p, "Idle") = {} /\ At(q, "Idle") = {}
  BY <1>1, <1>a DEF At, IdleAtEnd
<1>2. Final(p) = Len(p)
  <2>1. /\ Final(p) \in At(p, "Audio") /\ \A c \in At(p, "Audio") : c <= Final(p)
    BY <1>1, <1>a, FinalFacts
  <2>2. Len(p) <= Final(p) /\ Final(p) \in 1 .. Len(p)
    BY <2>1, <1>a, <1>1 DEF At
  <2> HIDE DEF Final
  <2> QED BY <2>2, <1>1
<1>3. Stage(p) \in {"speaking", "closed"} /\ Mark(p) = n + 1
  <2>1. At(p, "Audio") # {} /\ p[Final(p)].seq = n
    BY <1>a, <1>1, <1>2
  <2>2. Mark(p) = n + 1
    BY <2>1 DEF Mark
  <2>3. Stage(p) \in {"speaking", "closed"}
    BY <2>1, <1>i DEF Stage
  <2> QED BY <2>2, <2>3
<1>4. CASE At(q, "Audio") = {}
  <2>1. Stage(q) = "asked" /\ Mark(q) = 0
    BY <1>i, <1>4 DEF Stage, Mark
  <2> QED BY <2>1, <1>3
<1>5. CASE At(q, "Audio") # {}
  <2> DEFINE f == Final(q)
  <2>1. f \in 1 .. Len(q) /\ q[f].kind = "Audio"
    BY <1>5, <1>1, FinalFacts DEF At
  <2>2. ~p[f].last
    <3>1. /\ f \in 1 .. Len(p) /\ f < Len(p) /\ p[f].kind = "Audio" /\ Len(p) \in 1 .. Len(p)
          /\ p[Len(p)].kind = "Audio"
      BY <2>1, <1>1
    <3> HIDE DEF f
    <3> QED BY <3>1 DEF Frames, Order
  <2>3. ~q[f].last
    BY <2>1, <2>2, <1>1
  <2>4. q[f].seq < n /\ q[f].seq \in Nat
    BY <2>3, <1>5, LastCloses
  <2>5. Stage(q) = "speaking" /\ Mark(q) = q[f].seq + 1
    BY <1>i, <1>5, <2>3 DEF Stage, Mark
  <2> HIDE DEF f
  <2> QED BY <2>4, <2>5, <1>3
<1> QED BY <1>4, <1>5

(* Idle finds the turn without a sound or closed.                          *)
LEMMA IdleMoves ==
  ASSUME NEW q, NEW p, NEW x, Grown(q, p, x), x.kind = "Idle",
         NEW n \in Nat, NEW V, Frames(q, n, V),
         At(q, "UserMessage") # {}, NoIdle(q), Sounds(p) => ClosedOff(p)
  PROVE  Stage(q) \in {"asked", "closed"} /\ Stage(p) = "resting" /\ Mark(p) = Mark(q)
<1>1. /\ DOMAIN q = 1 .. Len(q) /\ DOMAIN p = 1 .. Len(p)
      /\ \A i \in 1 .. Len(q) : p[i] = q[i]
      /\ q \in Seq(Frame)
  BY DEF Grown
<1>a. At(p, "Audio") = At(q, "Audio") /\ At(p, "Idle") # {} /\ At(q, "Idle") = {}
  <2>1. At(p, "Audio") = At(q, "Audio") /\ At(p, "Idle") # {}
    BY DEF Grown, Viewed
  <2>2. At(q, "Idle") = {}
    BY <1>1 DEF NoIdle, At
  <2> QED BY <2>1, <2>2
<1>2. Stage(p) = "resting"
  BY <1>a DEF Stage
<1>3. CASE At(q, "Audio") = {}
  <2>1. Stage(q) = "asked" /\ Mark(p) = 0 /\ Mark(q) = 0
    BY <1>a, <1>3 DEF Stage, Mark
  <2> QED BY <2>1, <1>2
<1>4. CASE At(q, "Audio") # {}
  <2>1. PICK j \in At(p, "Audio") : p[j].last
    <3>1. Sounds(p)
      BY <1>1, <1>a, <1>4 DEF At, Sounds
    <3>2. PICK j \in 1 .. Len(p) : p[j].kind = "Audio" /\ p[j].last
      BY <3>1, Zenon DEF ClosedOff
    <3>3. j \in At(p, "Audio")
      BY <3>2, <1>1 DEF At
    <3> QED BY <3>2, <3>3
  <2>2. ClosedOff(q)
    <3>1. j \in 1 .. Len(q) /\ q[j].kind = "Audio"
      BY <1>a, <1>1 DEF At
    <3>2. q[j].last
      BY <2>1, <3>1, <1>1
    <3> QED BY <3>1, <3>2, Zenon DEF ClosedOff
  <2>3. q[Final(q)].last
    BY <2>2, <1>4, LastCloses
  <2>4. Final(q) \in 1 .. Len(q) /\ Final(p) = Final(q)
    BY <1>4, <1>1, <1>a, FinalFacts DEF At, Final
  <2>5. Stage(q) = "closed"
    BY <1>a, <1>4, <2>3 DEF Stage
  <2>6. Mark(p) = Mark(q)
    BY <1>a, <1>1, <2>4 DEF Mark
  <2> QED BY <1>2, <2>5, <2>6
<1> QED BY <1>3, <1>4

-----------------------------------------------------------------------------
(* The echo stays, and comes with the first step.                          *)
SInv == IInv /\ \A t \in Turns : Echoed(t)

(* What a step of a turn does to its history, in the words of the mapping. *)
LEMMA StepGrows ==
  ASSUME TypeOK, NEW t \in Turns, TurnInv(t), TurnStep(t), ~AddsNothing(t)
  PROVE  \E x : /\ Grown(sent[t], sent'[t], x) /\ pc'[t] # "new"
                /\ \/ pc[t] = "new" /\ x.kind = "UserMessage" /\ pc'[t] = "agent"
                   \/ pc[t] # "new" /\ x.kind = "Audio" /\ x.seq = seq[t]
                   \/ pc[t] \notin {"new", "done"} /\ x.kind = "Idle" /\ pc'[t] = "done"
<1>1. PICK r, x : Adds(t, r, x)
  BY StepAdds
<1>2. sent[t] \in Seq(Frame)
  BY DEF TypeOK
<1>3. x.kind \in Viewed
  BY <1>1 DEF Adds, Viewed
<1>4. Grown(sent[t], sent'[t], x)
  BY <1>1, <1>2, <1>3, AddedFacts DEF Adds
<1> QED BY <1>1, <1>4 DEF Adds

(* A turn's own step keeps the echo.                                       *)
LEMMA EchoStep ==
  ASSUME TypeOK, NEW t \in Turns, TurnInv(t), TurnStep(t), Echoed(t)
  PROVE  Echoed(t)'
<1>1. CASE AddsNothing(t)
  BY <1>1 DEF AddsNothing, Echoed, At
<1>2. CASE ~AddsNothing(t)
  <2>1. PICK x : /\ Grown(sent[t], sent'[t], x) /\ pc'[t] # "new"
                 /\ pc[t] # "new" \/ x.kind = "UserMessage"
    BY <1>2, StepGrows
  <2>2. At(sent'[t], "UserMessage") # {}
    BY <2>1 DEF Grown, Viewed, Echoed
  <2>3. Echoed(t)' <=> (At(sent'[t], "UserMessage") # {} <=> pc'[t] # "new")
    BY DEF Echoed, At
  <2> QED BY <2>1, <2>2, <2>3
<1> QED BY <1>1, <1>2

(* The refinement mapping, per turn.                                       *)
LEMMA TurnRefines ==
  ASSUME IInv, IInv', NEW t \in Turns, TurnStep(t), Echoed(t)
  PROVE  \/ sent'[t] = sent[t]
         \/ /\ Mark(sent'[t]) = Mark(sent[t])
            /\ \/ /\ Stage(sent[t]) = "silent" /\ Stage(sent'[t]) = "asked"
                  /\ Text(sent'[t]) = Text(sent[t])
               \/ /\ Stage(sent[t]) \in {"asked", "closed"} /\ Stage(sent'[t]) = "resting"
                  /\ Text(sent'[t]) = "first"
         \/ /\ Text(sent'[t]) = "first"
            /\ Stage(sent[t]) \in {"asked", "speaking"}
            /\ Stage(sent'[t]) \in {"speaking", "closed"}
            /\ Mark(sent'[t]) > Mark(sent[t])
<1> DEFINE q == sent[t]
           p == sent'[t]
<1>0. /\ TypeOK /\ TurnInv(t) /\ seq[t] \in Nat
      /\ Frames(q, seq[t], Voices(t)) /\ EndInv(t)
      /\ q \in Seq(Frame) /\ DOMAIN q = 1 .. Len(q)
  BY DEF IInv, TurnInv, TypeOK
<1>1. /\ Frames(p, seq'[t], Voices(t)') /\ IdleAtEnd(p)
      /\ pc'[t] = "done" => (Sounds(p) => ClosedOff(p))
  BY DEF IInv, TurnInv, EndInv, NoIdle, IdleAtEnd, Frames, Sounds, ClosedOff, TextOnce, TextFirst, Order, Bounds
<1>t. /\ Shown(q) => Text(q) = "first"
      /\ ~Shown(q) => Text(q) = "hidden"
      /\ Shown(p) => Text(p) = "first"
      /\ ~Shown(p) => Text(p) = "hidden"
      /\ Sounds(p) => Shown(p)
  BY <1>0, <1>1, TextFacts
<1>s. /\ pc'[t] = "done" => Shown(p)
      /\ pc'[t] = "agent" => ~Shown(p)
  BY DEF IInv, TurnInv, EndInv, BulkInv, Shown
<1>2. CASE AddsNothing(t)
  BY <1>2 DEF AddsNothing
<1>3. CASE ~AddsNothing(t)
  <2>1. PICK x : /\ Grown(q, p, x) /\ pc'[t] # "new"
                 /\ \/ pc[t] = "new" /\ x.kind = "UserMessage" /\ pc'[t] = "agent"
                    \/ pc[t] # "new" /\ x.kind = "Audio" /\ x.seq = seq[t]
                    \/ pc[t] \notin {"new", "done"} /\ x.kind = "Idle" /\ pc'[t] = "done"
    BY <1>0, <1>3, StepGrows
  <2>e. pc[t] # "new" <=> At(q, "UserMessage") # {}
    BY DEF Echoed
  <2>2. CASE pc[t] = "new" /\ x.kind = "UserMessage"
    <3>1. NoIdle(q) /\ ~Shown(q)
      BY <2>2, <1>0 DEF TurnInv, BulkInv, EndInv
    <3>2. ~Sounds(q)
      BY <3>1, <1>0, Soundless
    <3>3. At(q, "Audio") = {} /\ At(q, "Idle") = {}
      BY <3>1, <3>2, <1>0 DEF At, Sounds, NoIdle
    <3>4. Stage(q) = "silent" /\ Stage(p) = "asked" /\ Mark(p) = Mark(q)
      BY <2>1, <2>2, <2>e, <3>3, AskedMoves
    <3>5. Text(p) = Text(q)
      BY <2>1, <2>2, <3>1, <1>t, <1>s
    <3> QED BY <3>4, <3>5
  <2>3. CASE pc[t] # "new" /\ x.kind = "Audio" /\ x.seq = seq[t]
    <3>1. At(q, "UserMessage") # {}
      BY <2>3, <2>e
    <3>2. /\ Stage(q) \in {"asked", "speaking"} /\ Stage(p) \in {"speaking", "closed"}
          /\ Mark(p) > Mark(q)
      BY <2>1, <2>3, <3>1, <1>0, <1>1, SoundMoves
    <3>3. Sounds(p)
      <4>1. Len(p) \in 1 .. Len(p) /\ p[Len(p)] = x
        BY <2>1 DEF Grown
      <4> QED BY <4>1, <2>3 DEF Sounds
    <3> QED BY <3>2, <3>3, <1>t
  <2>4. CASE pc[t] \notin {"new", "done"} /\ x.kind = "Idle" /\ pc'[t] = "done"
    <3>1. NoIdle(q) /\ (Sounds(p) => ClosedOff(p))
      BY <2>4, <1>0, <1>1 DEF EndInv
    <3>2. At(q, "UserMessage") # {}
      BY <2>4, <2>e
    <3>3. Stage(q) \in {"asked", "closed"} /\ Stage(p) = "resting" /\ Mark(p) = Mark(q)
      BY <2>1, <2>4, <3>1, <3>2, <1>0, IdleMoves
    <3>4. Text(p) = "first"
      BY <2>4, <1>s, <1>t
    <3> QED BY <3>3, <3>4
  <2> QED BY <2>1, <2>2, <2>3, <2>4
<1> QED BY <1>2, <1>3

(* The echo invariant holds in every reachable state.                      *)
LEMMA EchoInit == Init => SInv
<1> SUFFICES ASSUME Init PROVE SInv
  OBVIOUS
<1>1. IInv
  BY InitInv
<1>2. \A t \in Turns : sent[t] = <<>> /\ pc[t] = "new"
  BY DEF Init
<1> QED BY <1>1, <1>2 DEF SInv, Echoed, At

(* A step that is not one of turn u leaves what its viewers see.           *)
LEMMA StepsOf ==
  ASSUME IInv, [Next]_vars
  PROVE  \/ \E t \in Turns : TurnStep(t) /\ \A u \in Turns : u # t => Same(u)
         \/ \A u \in Turns : Same(u)
<1>1. ASSUME NEW t \in Turns, TurnStep(t)
      PROVE  \A u \in Turns : u # t => Same(u)
  BY <1>1, Locality DEF IInv
<1>2. CASE SwapTts \/ SwapSubagent \/ SwapConfig
  BY <1>2, SwapInv DEF IInv
<1>3. CASE UNCHANGED vars
  BY <1>3 DEF vars, producer, dispatch, Same
<1> QED BY <1>1, <1>2, <1>3 DEF Next, TurnStep

(* Every step keeps the echo.                                              *)
LEMMA EchoNext == SInv /\ [Next]_vars => SInv'
<1> SUFFICES ASSUME SInv, [Next]_vars PROVE SInv'
  OBVIOUS
<1>1. IInv /\ IInv'
  BY StepInv DEF SInv
<1>2. ASSUME NEW u \in Turns, Same(u) PROVE Echoed(u)'
  BY <1>2 DEF SInv, Echoed, Same, At
<1>3. ASSUME NEW t \in Turns, TurnStep(t) PROVE Echoed(t)'
  BY <1>1, <1>3, EchoStep DEF SInv, IInv
<1> QED BY <1>1, <1>2, <1>3, StepsOf DEF SInv

(* So the echo belongs to every reachable state.                           *)
LEMMA EchoInvariance == Spec => []SInv
BY EchoInit, EchoNext, PTL DEF Spec

-----------------------------------------------------------------------------
(* A turn that sent nothing is silent.                                     *)
LEMMA InitRefines == Init => Protocol!Init
<1> SUFFICES ASSUME Init, NEW t \in Turns
             PROVE  StageOf(t) = "silent" /\ TextOf(t) = "hidden" /\ MarkOf(t) = 0
  BY DEF Protocol!Init
<1>1. sent[t] = <<>>
  BY DEF Init
<1>2. \A k : At(sent[t], k) = {}
  BY <1>1 DEF At
<1> QED BY <1>2, MappingFacts DEF Stage, Text, Mark

(* Every step maps to a step of the protocol or to a stutter.              *)
LEMMA StepRefines ==
  SInv /\ SInv' /\ [Next]_vars
    => [Protocol!Next]_<<[t \in Turns |-> StageOf(t)], [t \in Turns |-> TextOf(t)],
                         [t \in Turns |-> MarkOf(t)]>>
<1> DEFINE stage == [t \in Turns |-> StageOf(t)]
           text  == [t \in Turns |-> TextOf(t)]
           mark  == [t \in Turns |-> MarkOf(t)]
<1> SUFFICES ASSUME SInv, SInv', [Next]_vars PROVE [Protocol!Next]_<<stage, text, mark>>
  OBVIOUS
<1>0. IInv /\ IInv'
  BY DEF SInv
<1>1. ASSUME NEW u \in Turns
      PROVE  /\ stage[u] = Stage(sent[u]) /\ stage'[u] = Stage(sent'[u])
             /\ text[u] = Text(sent[u]) /\ text'[u] = Text(sent'[u])
             /\ mark[u] = Mark(sent[u]) /\ mark'[u] = Mark(sent'[u])
  BY MappingFacts
<1>2. ASSUME NEW u \in Turns, sent'[u] = sent[u]
      PROVE  stage'[u] = stage[u] /\ text'[u] = text[u] /\ mark'[u] = mark[u]
  BY <1>1, <1>2
<1>3. /\ stage = [u \in Turns |-> stage[u]] /\ stage' = [u \in Turns |-> stage'[u]]
      /\ text = [u \in Turns |-> text[u]] /\ text' = [u \in Turns |-> text'[u]]
      /\ mark = [u \in Turns |-> mark[u]] /\ mark' = [u \in Turns |-> mark'[u]]
  OBVIOUS
<1>4. ASSUME \A u \in Turns : sent'[u] = sent[u]
      PROVE  [Protocol!Next]_<<stage, text, mark>>
  <2>1. stage' = stage /\ text' = text /\ mark' = mark
    <3>1. \A u \in Turns : stage'[u] = stage[u] /\ text'[u] = text[u] /\ mark'[u] = mark[u]
      BY <1>2, <1>4
    <3> HIDE DEF stage, text, mark
    <3> QED BY <3>1, <1>3
  <2> QED BY <2>1
<1>5. ASSUME NEW t \in Turns, TurnStep(t), \A u \in Turns : u # t => Same(u)
      PROVE  [Protocol!Next]_<<stage, text, mark>>
  <2>1. /\ stage' = [stage EXCEPT ![t] = stage'[t]]
        /\ text' = [text EXCEPT ![t] = text'[t]]
        /\ mark' = [mark EXCEPT ![t] = mark'[t]]
    <3>1. \A u \in Turns : u # t => stage'[u] = stage[u] /\ text'[u] = text[u] /\ mark'[u] = mark[u]
      BY <1>2, <1>5 DEF Same
    <3> HIDE DEF stage, text, mark
    <3> QED BY <3>1, <1>3
  <2>2. \/ sent'[t] = sent[t]
        \/ /\ mark'[t] = mark[t]
           /\ \/ stage[t] = "silent" /\ stage'[t] = "asked" /\ text'[t] = text[t]
              \/ stage[t] \in {"asked", "closed"} /\ stage'[t] = "resting" /\ text'[t] = "first"
        \/ /\ stage[t] \in {"asked", "speaking"} /\ stage'[t] \in {"speaking", "closed"}
           /\ text'[t] = "first"
           /\ mark'[t] > mark[t]
    BY <1>0, <1>1, <1>5, TurnRefines DEF SInv
  <2>3. ASSUME mark'[t] = mark[t] PROVE mark' = mark
    <3> HIDE DEF stage, text, mark
    <3> QED BY <2>1, <2>3, <1>3
  <2>4. ASSUME text'[t] = text[t] PROVE text' = text
    <3> HIDE DEF stage, text, mark
    <3> QED BY <2>1, <2>4, <1>3
  <2>5. CASE sent'[t] = sent[t]
    <3>1. \A u \in Turns : sent'[u] = sent[u]
      BY <2>5, <1>5 DEF Same
    <3> QED BY <3>1, <1>4
  <2>s. ASSUME text'[t] = "first" PROVE Protocol!Show(t)
    <3> HIDE DEF stage, text, mark
    <3> QED BY <2>s, <2>1 DEF Protocol!Show, text
  <2>6. CASE /\ mark'[t] = mark[t] /\ text'[t] = text[t]
             /\ stage[t] = "silent" /\ stage'[t] = "asked"
    <3>1. Protocol!Ask(t)
      BY <2>1, <2>3, <2>4, <2>6 DEF Protocol!Ask, Protocol!Move
    <3> QED BY <3>1 DEF Protocol!Next
  <2>7. CASE /\ mark'[t] = mark[t] /\ text'[t] = "first"
             /\ stage[t] \in {"asked", "closed"} /\ stage'[t] = "resting"
    <3>1. Protocol!Rest(t)
      BY <2>1, <2>3, <2>7, <2>s DEF Protocol!Rest, Protocol!Move
    <3> QED BY <3>1 DEF Protocol!Next
  <2>8. CASE /\ stage[t] \in {"asked", "speaking"} /\ stage'[t] \in {"speaking", "closed"}
             /\ text'[t] = "first"
             /\ mark'[t] > mark[t]
    <3>1. Protocol!Advance(t) /\ Protocol!Show(t)
      BY <2>1, <2>8, <2>s DEF Protocol!Advance
    <3>2. CASE stage'[t] = "speaking"
      <4>1. Protocol!Speak(t)
        BY <2>1, <2>8, <3>1, <3>2 DEF Protocol!Speak, Protocol!Move
      <4> QED BY <4>1 DEF Protocol!Next
    <3>3. CASE stage'[t] = "closed"
      <4>1. Protocol!Close(t)
        BY <2>1, <2>8, <3>1, <3>3 DEF Protocol!Close, Protocol!Move
      <4> QED BY <4>1 DEF Protocol!Next
    <3> QED BY <2>8, <3>2, <3>3
  <2> QED BY <2>2, <2>5, <2>6, <2>7, <2>8
<1>6. CASE \A u \in Turns : Same(u)
  BY <1>4, <1>6 DEF Same
<1> QED BY <1>0, <1>5, <1>6, StepsOf

(* Every behaviour of the speak pipeline is, read off its frames, one of   *)
(* the viewer's protocol: echoed; its text once, ahead of every sound and  *)
(* of the rest; speaking with rising seqs, closed, rest.                   *)
THEOREM ProtocolRefined == Spec => ImplementsProtocol
BY InitRefines, StepRefines, EchoInvariance, PTL DEF Spec, ImplementsProtocol, Protocol!Spec
=============================================================================
