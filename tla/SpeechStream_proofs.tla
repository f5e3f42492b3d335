-------------------------- MODULE SpeechStream_proofs --------------------------
(***************************************************************************)
(* What is streamed is what is spoken: for any deltas, any texts and any   *)
(* way in which the network cuts the events up.                            *)
(***************************************************************************)
EXTENDS SpeechStream, SequenceTheorems, WellFoundedInduction, TLAPS

(***************************************************************************)
(* I.  First and last elements, and the trimming of texts.                 *)
(***************************************************************************)

(* A set of natural numbers that is not empty has a least element.         *)
LEMMA Least ==
  ASSUME NEW T \in SUBSET Nat, T # {}
  PROVE  Min(T) \in T /\ \A y \in T : Min(T) <= y
<1> DEFINE R == OpToRel(<, Nat)
<1>1. IsWellFoundedOn(R, Nat)
  BY NatLessThanWellFounded
<1>2. \A x, y \in T : y < x => <<y, x>> \in R
  BY DEF OpToRel
<1> HIDE DEF R
<1>3. \E x \in T : \A y \in T : ~(<<y, x>> \in R)
  BY <1>1, WFMin
<1>4. PICK x \in T : \A y \in T : ~(<<y, x>> \in R)
  BY <1>3
<1>5. ASSUME NEW y \in T PROVE x <= y
  <2>1. ~(y < x)
    BY <1>2, <1>4
  <2> QED BY <2>1
<1> QED BY <1>5 DEF Min

(* One with an upper bound has a greatest.                                 *)
LEMMA Greatest ==
  ASSUME NEW n \in Nat, NEW T \in SUBSET (0 .. n), T # {}
  PROVE  Max(T) \in T /\ \A y \in T : y <= Max(T)
<1> DEFINE U == {m \in Nat : \A y \in T : y <= m}
<1>1. n \in U
  OBVIOUS
<1>2. PICK m \in U : \A u \in U : m <= u
  BY <1>1, Least
<1>3. m \in T
  <2> SUFFICES ASSUME m \notin T PROVE FALSE
    OBVIOUS
  <2>1. \A y \in T : y < m
    BY <1>2
  <2>2. m # 0
    <3>1. PICK y \in T : y < m
      BY <2>1
    <3>2. y \in 0 .. n
      OBVIOUS
    <3> QED BY <3>1, <3>2
  <2>3. m - 1 \in U
    BY <1>2, <2>1, <2>2
  <2> QED BY <1>2, <2>3
<1>4. \E x \in T : \A y \in T : y <= x
  BY <1>2, <1>3
<1>5. Max(T) = CHOOSE x \in T : \A y \in T : x >= y
  BY DEF Max
<1>6. \E x \in T : \A y \in T : x >= y
  BY <1>4
<1>7. Max(T) \in T /\ \A y \in T : Max(T) >= y
  BY <1>5, <1>6
<1> QED BY <1>7

(* What is not white space in a text, and its ends.                        *)
LEMMA InkedEnds ==
  ASSUME NEW s \in Seq(Tokens)
  PROVE  /\ Inked(s) \subseteq 1 .. Len(s)
         /\ Inked(s) # {} =>
              /\ Min(Inked(s)) \in Inked(s) /\ Max(Inked(s)) \in Inked(s)
              /\ \A i \in Inked(s) : Min(Inked(s)) <= i /\ i <= Max(Inked(s))
              /\ Min(Inked(s)) \in 1 .. Len(s) /\ Max(Inked(s)) \in Min(Inked(s)) .. Len(s)
<1>1. Inked(s) \subseteq 1 .. Len(s) /\ Len(s) \in Nat
  BY DEF Inked
<1>2. ASSUME Inked(s) # {}
      PROVE  /\ Min(Inked(s)) \in Inked(s) /\ \A i \in Inked(s) : Min(Inked(s)) <= i
             /\ Max(Inked(s)) \in Inked(s) /\ \A i \in Inked(s) : i <= Max(Inked(s))
  <2>1. Inked(s) \in SUBSET Nat /\ Inked(s) \in SUBSET (0 .. Len(s))
    BY <1>1
  <2>2. Min(Inked(s)) \in Inked(s) /\ \A i \in Inked(s) : Min(Inked(s)) <= i
    BY <1>2, <2>1, Least
  <2>3. Max(Inked(s)) \in Inked(s) /\ \A i \in Inked(s) : i <= Max(Inked(s))
    BY <1>1, <1>2, <2>1, Greatest
  <2> QED BY <2>2, <2>3
<1>3. ASSUME Inked(s) # {}
      PROVE  Min(Inked(s)) \in 1 .. Len(s) /\ Max(Inked(s)) \in Min(Inked(s)) .. Len(s)
  <2> DEFINE a == Min(Inked(s))
             b == Max(Inked(s))
  <2>1. a \in 1 .. Len(s) /\ b \in 1 .. Len(s) /\ a <= b
    BY <1>1, <1>2, <1>3
  <2> HIDE DEF a, b
  <2>2. a \in 1 .. Len(s) /\ b \in a .. Len(s)
    BY <1>1, <2>1
  <2> QED BY <2>2 DEF a, b
<1> QED BY <1>1, <1>2, <1>3

(* Any stretch of a text is one.                                           *)
LEMMA StretchType ==
  ASSUME NEW S, NEW s \in Seq(S), NEW a \in Nat \ {0}, NEW b \in 0 .. Len(s)
  PROVE  /\ SubSeq(s, a, b) \in Seq(S)
         /\ Len(SubSeq(s, a, b)) = IF a <= b THEN b - a + 1 ELSE 0
         /\ \A i \in 1 .. b - a + 1 : SubSeq(s, a, b)[i] = s[a + i - 1]
<1>1. \A i \in a .. b : s[i] \in S
  <2>1. \A i \in a .. b : i \in 1 .. Len(s)
    OBVIOUS
  <2> QED BY <2>1
<1>2. a \in Int /\ b \in Int
  OBVIOUS
<1> QED BY <1>1, <1>2, SubSeqProperties

(* Trimming.                                                               *)
LEMMA TrimType ==
  ASSUME NEW s \in Seq(Tokens)
  PROVE  Trim(s) \in Seq(Tokens) /\ TrimStart(s) \in Seq(Tokens)
<1>1. CASE Inked(s) = {}
  BY <1>1 DEF Trim, TrimStart
<1>2. CASE Inked(s) # {}
  <2> DEFINE a == Min(Inked(s))
             b == Max(Inked(s))
  <2>1. a \in 1 .. Len(s) /\ b \in a .. Len(s)
    BY <1>2, InkedEnds
  <2>2. Trim(s) = SubSeq(s, a, b) /\ TrimStart(s) = SubSeq(s, a, Len(s))
    BY <1>2 DEF Trim, TrimStart
  <2> HIDE DEF a, b
  <2>3. a \in Nat \ {0} /\ b \in 0 .. Len(s) /\ Len(s) \in 0 .. Len(s)
    BY <2>1
  <2> QED BY <2>2, <2>3, StretchType
<1> QED BY <1>1, <1>2

(***************************************************************************)
(* II.  The event stream.                                                  *)
(***************************************************************************)
Signs == Payloads \cup {Nl}

(* The bytes q are whole events ev; from t on, the text w is made up of    *)
(* theirs, each from where at says; and nothing comes after [DONE].        *)
Layout(q, t, w, ev, at) ==
  /\ ev \in Seq(Payloads) /\ Len(q) = 3 * Len(ev)
  /\ \A k \in 1 .. Len(ev) : q[3 * k - 2] = ev[k] /\ q[3 * k - 1] = Nl /\ q[3 * k] = Nl
  /\ at \in [1 .. Len(ev) + 1 -> 0 .. Len(w)] /\ at[1] = Len(t) /\ at[Len(ev) + 1] = Len(w)
  /\ \A k \in 1 .. Len(ev) :
       /\ at[k + 1] = at[k] + Len(ev[k].text)
       /\ \A j \in 1 .. Len(ev[k].text) : w[at[k] + j] = ev[k].text[j]
       /\ ev[k] = Done => k = Len(ev)

Lies(q, t, w) == \E ev, at : Layout(q, t, w, ev, at)

StreamTypes ==
  /\ mode \in Modes /\ attempt \in 1 .. Attempts[mode]
  /\ phase \in {"ask", "reading", "over", "closed"}
  /\ result \in {"none", "done", "eof", "answer"}
  /\ written \in Seq(Tokens) /\ told \in Seq(Tokens)
  /\ wire \in Seq(Signs) /\ Len(wire) <= MaxWire
  /\ bytes \in Seq(Signs) /\ Len(bytes) <= MaxWire + 2

StreamInv ==
  /\ StreamTypes
  /\ phase = "ask" => /\ written = <<>> /\ told = <<>> /\ wire = <<>> /\ bytes = <<>>
  /\ phase \in {"ask", "reading"} => result = "none"
  /\ phase = "reading" => Lies(bytes \o wire, told, written)
  /\ Len(told) <= Len(written) /\ \A i \in 1 .. Len(told) : told[i] = written[i]
  /\ result = "done" => told = written

-----------------------------------------------------------------------------
(* A payload has a text and is not a line feed.                            *)
LEMMA PayloadText ==
  ASSUME NEW e \in Payloads
  PROVE  e.text \in Seq(Tokens) /\ e # Nl /\ Len(e.text) \in Nat
<1>1. /\ Beat.text = <<>> /\ Done.text = <<>> /\ Beat.kind = "beat" /\ Done.kind = "done"
      /\ Nl.kind = "nl" /\ \A d \in Deltas : Delta(d).text = d /\ Delta(d).kind = "delta"
  BY DEF Beat, Done, Nl, Delta
<1>2. CASE e = Beat \/ e = Done
  <2>1. <<>> \in Seq(Tokens) /\ Len(<<>>) \in Nat
    OBVIOUS
  <2> QED BY <1>1, <1>2, <2>1
<1>3. CASE \E d \in Deltas : e = Delta(d)
  <2>1. PICK d \in Deltas : e = Delta(d)
    BY <1>3
  <2>2. d \in Seq(Tokens)
    BY TextAssumption
  <2>3. e.text = d /\ e.kind = "delta"
    BY <1>1, <2>1
  <2> QED BY <1>1, <2>2, <2>3
<1> QED BY <1>2, <1>3 DEF Payloads

LEMMA SignsText == Nl \in Signs /\ Payloads \subseteq Signs
BY DEF Signs

(* What the pieces of a sequence are.                                      *)
LEMMA BeforeAfter ==
  ASSUME NEW S, NEW q \in Seq(S), NEW n \in 0 .. Len(q)
  PROVE  /\ Before(q, n) \in Seq(S) /\ Len(Before(q, n)) = n
         /\ \A i \in 1 .. n : Before(q, n)[i] = q[i]
         /\ After(q, n) \in Seq(S) /\ Len(After(q, n)) = Len(q) - n
         /\ \A i \in 1 .. Len(q) - n : After(q, n)[i] = q[n + i]
         /\ Before(q, n) \o After(q, n) = q
<1>n. n \in Nat /\ Len(q) \in Nat /\ n <= Len(q)
  OBVIOUS
<1>1. \A i \in 1 .. Len(q) : q[i] \in S
  OBVIOUS
<1>2. /\ Before(q, n) \in Seq(S) /\ Len(Before(q, n)) = n
      /\ \A i \in 1 .. n : Before(q, n)[i] = q[i]
  <2>1. \A i \in 1 .. n : q[i] \in S
    BY <1>n, <1>1
  <2> QED BY <2>1, <1>n, SubSeqProperties DEF Before
<1>3. /\ After(q, n) \in Seq(S) /\ Len(After(q, n)) = Len(q) - n
      /\ \A i \in 1 .. Len(q) - n : After(q, n)[i] = q[n + i]
  <2>1. \A i \in n + 1 .. Len(q) : q[i] \in S
    BY <1>n, <1>1
  <2> QED BY <2>1, <1>n, SubSeqProperties DEF After
<1>4. Before(q, n) \o After(q, n) = q
  <2>1. Before(q, n) \o After(q, n) \in Seq(S) /\ Len(Before(q, n) \o After(q, n)) = Len(q)
    BY <1>n, <1>2, <1>3, ConcatProperties
  <2>2. ASSUME NEW i \in 1 .. Len(q) PROVE (Before(q, n) \o After(q, n))[i] = q[i]
    <3>1. (Before(q, n) \o After(q, n))[i] = IF i <= n THEN Before(q, n)[i] ELSE After(q, n)[i - n]
      BY <1>n, <1>2, <1>3, ConcatProperties
    <3> QED BY <3>1, <1>n, <1>2, <1>3
  <2> QED BY <2>1, <2>2, SeqEqual
<1> QED BY <1>2, <1>3, <1>4

(* At first nothing is under way.                                          *)
LEMMA LayEmpty == Lies(<<>>, <<>>, <<>>)
<1> DEFINE at == [k \in 1 .. 1 |-> 0]
<1>1. <<>> \in Seq(Payloads) /\ Len(<<>>) = 0
  OBVIOUS
<1>2. at \in [1 .. 0 + 1 -> 0 .. 0] /\ at[1] = 0 /\ at[0 + 1] = 0
  OBVIOUS
<1>3. Layout(<<>>, <<>>, <<>>, <<>>, at)
  <2> HIDE DEF at
  <2> QED BY <1>1, <1>2 DEF Layout
<1> QED BY <1>3 DEF Lies

(* The server adds an event.                                               *)
LEMMA LayWrite ==
  ASSUME NEW q \in Seq(Signs), NEW t \in Seq(Tokens), NEW w \in Seq(Tokens), NEW e \in Payloads,
         Lies(q, t, w), \A i \in DOMAIN q : q[i] # Done
  PROVE  Lies(q \o SseEvent(e), t, w \o e.text)
<1>1. PICK ev, at : Layout(q, t, w, ev, at)
  BY DEF Lies
<1> DEFINE n == Len(ev)
           x == w \o e.text
           r == q \o SseEvent(e)
           fv == Append(ev, e)
           bt == [k \in 1 .. n + 2 |-> IF k = n + 2 THEN Len(x) ELSE at[k]]
<1>2. e.text \in Seq(Tokens) /\ Len(e.text) \in Nat
  BY PayloadText
<1>3. n \in Nat /\ ev \in Seq(Payloads) /\ fv \in Seq(Payloads) /\ Len(fv) = n + 1
      /\ fv[n + 1] = e /\ \A k \in 1 .. n : fv[k] = ev[k]
  BY <1>1 DEF Layout
<1>4. /\ x \in Seq(Tokens) /\ Len(x) = Len(w) + Len(e.text) /\ Len(w) \in Nat
      /\ \A i \in 1 .. Len(w) : x[i] = w[i]
      /\ \A j \in 1 .. Len(e.text) : x[Len(w) + j] = e.text[j]
  BY <1>2, ConcatProperties
<1>5. /\ Len(r) = 3 * n + 3 /\ \A i \in 1 .. 3 * n : r[i] = q[i]
      /\ r[3 * n + 1] = e /\ r[3 * n + 2] = Nl /\ r[3 * n + 3] = Nl
  <2>1. Len(q) = 3 * n /\ SseEvent(e) = <<e, Nl, Nl>>
    BY <1>1 DEF Layout, SseEvent
  <2>2. SseEvent(e) \in Seq(Signs)
    BY <2>1, SignsText
  <2> QED BY <1>3, <2>1, <2>2
<1>6. at \in [1 .. n + 1 -> 0 .. Len(w)] /\ at[1] = Len(t) /\ at[n + 1] = Len(w)
  BY <1>1 DEF Layout
<1> HIDE DEF n, r, x, fv
<1>7. /\ bt \in [1 .. n + 2 -> 0 .. Len(x)] /\ bt[n + 2] = Len(x)
      /\ \A k \in 1 .. n + 1 : bt[k] = at[k]
  <2>1. \A k \in 1 .. n + 2 : bt[k] = IF k = n + 2 THEN Len(x) ELSE at[k]
    OBVIOUS
  <2>2. \A k \in 1 .. n + 1 : bt[k] = at[k]
    BY <2>1, <1>3
  <2>3. ASSUME NEW k \in 1 .. n + 2 PROVE bt[k] \in 0 .. Len(x)
    <3>1. Len(x) \in Nat /\ Len(w) <= Len(x)
      BY <1>2, <1>4
    <3>2. CASE k = n + 2
      BY <2>1, <3>1, <3>2
    <3>3. CASE k # n + 2
      <4>1. k \in 1 .. n + 1
        BY <3>3, <1>3
      <4>2. at[k] \in 0 .. Len(w)
        BY <4>1, <1>6
      <4> QED BY <2>2, <3>1, <4>1, <4>2, <1>4
    <3> QED BY <3>2, <3>3
  <2> QED BY <2>1, <2>2, <2>3, <1>3
<1> HIDE DEF bt
<1>8. ASSUME NEW k \in 1 .. n + 1
      PROVE  /\ r[3 * k - 2] = fv[k] /\ r[3 * k - 1] = Nl /\ r[3 * k] = Nl
             /\ bt[k + 1] = bt[k] + Len(fv[k].text)
             /\ \A j \in 1 .. Len(fv[k].text) : x[bt[k] + j] = fv[k].text[j]
             /\ fv[k] = Done => k = n + 1
  <2>1. CASE k = n + 1
    <3>1. fv[k] = e /\ bt[k] = Len(w) /\ bt[k + 1] = Len(x)
      <4>1. k \in 1 .. n + 1 /\ k + 1 = n + 2
        BY <2>1, <1>3
      <4> QED BY <2>1, <4>1, <1>3, <1>6, <1>7
    <3>2. 3 * k - 2 = 3 * n + 1 /\ 3 * k - 1 = 3 * n + 2 /\ 3 * k = 3 * n + 3
      BY <2>1, <1>3
    <3> QED BY <2>1, <3>1, <3>2, <1>4, <1>5
  <2>2. CASE k \in 1 .. n
    <3>1. /\ q[3 * k - 2] = ev[k] /\ q[3 * k - 1] = Nl /\ q[3 * k] = Nl
          /\ at[k + 1] = at[k] + Len(ev[k].text)
          /\ \A j \in 1 .. Len(ev[k].text) : w[at[k] + j] = ev[k].text[j]
      BY <1>1, <2>2 DEF Layout, n
    <3>0. k \in 1 .. n + 1 /\ k + 1 \in 1 .. n + 1
      BY <2>2, <1>3
    <3>2. fv[k] = ev[k] /\ bt[k] = at[k] /\ bt[k + 1] = at[k + 1]
      BY <2>2, <3>0, <1>3, <1>7
    <3>3. ev[k].text \in Seq(Tokens) /\ Len(ev[k].text) \in Nat
      BY <2>2, <1>3, PayloadText
    <3>4. at[k] \in Nat /\ at[k + 1] \in 0 .. Len(w)
      <4>1. at[k] \in 0 .. Len(w) /\ at[k + 1] \in 0 .. Len(w)
        BY <3>0, <1>6
      <4> QED BY <4>1
    <3>5. ASSUME NEW j \in 1 .. Len(ev[k].text) PROVE x[at[k] + j] = ev[k].text[j]
      <4>1. at[k] + j \in 1 .. Len(w)
        <5>1. j \in Nat /\ 1 <= j /\ j <= Len(ev[k].text)
          BY <3>3
        <5>2. at[k] + Len(ev[k].text) <= Len(w) /\ Len(w) \in Nat
          BY <3>1, <3>4, <1>4
        <5> QED BY <5>1, <5>2, <3>3, <3>4
      <4> QED BY <3>1, <4>1, <1>4
    <3>6. 3 * k - 2 \in 1 .. 3 * n /\ 3 * k - 1 \in 1 .. 3 * n /\ 3 * k \in 1 .. 3 * n
      BY <2>2, <1>3
    <3>7. ev[k] # Done
      <4>1. Len(q) = 3 * n
        BY <1>1 DEF Layout, n
      <4>2. 3 * k - 2 \in DOMAIN q
        BY <3>6, <4>1
      <4> QED BY <3>1, <4>2
    <3> QED BY <3>1, <3>2, <3>5, <3>6, <3>7, <1>5
  <2> QED BY <2>1, <2>2, <1>3
<1>9. Layout(r, t, x, fv, bt)
  <2>1. bt[1] = Len(t) /\ bt[Len(fv) + 1] = Len(x) /\ Len(r) = 3 * Len(fv) /\ 1 .. Len(fv) + 1 = 1 .. n + 2
    <3>1. 1 \in 1 .. n + 1
      BY <1>3
    <3> QED BY <3>1, <1>3, <1>5, <1>6, <1>7
  <2> QED BY <2>1, <1>3, <1>7, <1>8 DEF Layout
<1> QED BY <1>9 DEF Lies, r, x
(* The client takes the first event: its text is the next of what the      *)
(* server sent, and all of it is taken if it is [DONE].                    *)
LEMMA LayEvent ==
  ASSUME NEW q \in Seq(Signs), NEW t \in Seq(Tokens), NEW w \in Seq(Tokens),
         Lies(q, t, w), q # <<>>, Len(t) <= Len(w), \A i \in 1 .. Len(t) : t[i] = w[i]
  PROVE  LET e == q[1]
             u == t \o e.text
         IN /\ Len(q) >= 3 /\ e \in Payloads /\ q[2] = Nl /\ q[3] = Nl
            /\ Lies(After(q, 3), u, w)
            /\ Len(u) <= Len(w) /\ \A i \in 1 .. Len(u) : u[i] = w[i]
            /\ e = Done => t = w
<1>1. PICK ev, at : Layout(q, t, w, ev, at)
  BY DEF Lies
<1> DEFINE n == Len(ev)
           e == q[1]
           u == t \o e.text
           fv == Tail(ev)
           bt == [k \in 1 .. n |-> at[k + 1]]
           r == After(q, 3)
<1>2. ev \in Seq(Payloads) /\ n \in Nat \ {0}
  <2>1. ev \in Seq(Payloads) /\ Len(q) = 3 * Len(ev) /\ Len(q) # 0
    BY <1>1 DEF Layout
  <2> QED BY <2>1
<1>3. Len(q) = 3 * n /\ 3 <= Len(q) /\ e = ev[1] /\ q[2] = Nl /\ q[3] = Nl /\ e \in Payloads
  <2>1. 1 \in 1 .. Len(ev)
    BY <1>2
  <2>2. q[3 * 1 - 2] = ev[1] /\ q[3 * 1 - 1] = Nl /\ q[3 * 1] = Nl /\ Len(q) = 3 * Len(ev)
    BY <1>1, <2>1 DEF Layout
  <2>3. 3 * 1 - 2 = 1 /\ 3 * 1 - 1 = 2 /\ 3 * 1 = 3
    OBVIOUS
  <2> QED BY <1>2, <2>1, <2>2, <2>3
<1>4. e.text \in Seq(Tokens) /\ Len(e.text) \in Nat
  BY <1>3, PayloadText
<1>5. /\ u \in Seq(Tokens) /\ Len(u) = Len(t) + Len(e.text)
      /\ \A i \in 1 .. Len(t) + Len(e.text) : u[i] = IF i <= Len(t) THEN t[i] ELSE e.text[i - Len(t)]
  BY <1>4, ConcatProperties
<1>6. fv \in Seq(Payloads) /\ Len(fv) = n - 1 /\ \A k \in 1 .. n - 1 : fv[k] = ev[k + 1]
  BY <1>2, HeadTailProperties
<1>7. r \in Seq(Signs) /\ Len(r) = 3 * n - 3 /\ \A i \in 1 .. 3 * n - 3 : r[i] = q[3 + i]
  <2>1. 3 \in 0 .. Len(q) /\ Len(q) - 3 = 3 * n - 3
    BY <1>2, <1>3
  <2>2. /\ r \in Seq(Signs) /\ Len(r) = Len(q) - 3
        /\ \A i \in 1 .. Len(q) - 3 : r[i] = q[3 + i]
    BY <2>1, BeforeAfter
  <2> HIDE DEF n, r
  <2> QED BY <2>1, <2>2
<1>8. at \in [1 .. n + 1 -> 0 .. Len(w)] /\ at[1] = Len(t) /\ at[n + 1] = Len(w)
      /\ at[2] = Len(t) + Len(e.text) /\ \A j \in 1 .. Len(e.text) : w[Len(t) + j] = e.text[j]
  <2>1. 1 \in 1 .. Len(ev)
    BY <1>2
  <2>2. /\ at \in [1 .. n + 1 -> 0 .. Len(w)] /\ at[1] = Len(t) /\ at[n + 1] = Len(w)
        /\ at[1 + 1] = at[1] + Len(ev[1].text) /\ \A j \in 1 .. Len(ev[1].text) : w[at[1] + j] = ev[1].text[j]
    BY <2>1, <1>1 DEF Layout
  <2>3. 1 + 1 = 2 /\ ev[1] = e
    BY <1>3
  <2> HIDE DEF n, e
  <2> QED BY <2>2, <2>3
<1>9. /\ bt \in [1 .. n -> 0 .. Len(w)] /\ \A k \in 1 .. n : bt[k] = at[k + 1]
  <2>1. ASSUME NEW k \in 1 .. n PROVE at[k + 1] \in 0 .. Len(w)
    <3>1. k + 1 \in 1 .. n + 1
      BY <1>2
    <3> HIDE DEF n
    <3> QED BY <3>1, <1>8
  <2> HIDE DEF n
  <2> QED BY <2>1
<1>10. /\ Len(u) <= Len(w) /\ \A i \in 1 .. Len(u) : u[i] = w[i]
  <2>1. at[2] \in 0 .. Len(w)
    <3>1. 2 \in 1 .. n + 1
      BY <1>2
    <3> HIDE DEF n
    <3> QED BY <3>1, <1>8
  <2>2. Len(t) \in Nat /\ Len(w) \in Nat
    OBVIOUS
  <2>3. ASSUME NEW i \in 1 .. Len(u) PROVE u[i] = w[i]
    <3>1. CASE i <= Len(t)
      <4>1. i \in 1 .. Len(t)
        BY <3>1, <2>2, <1>4, <1>5
      <4>2. u[i] = t[i]
        BY <3>1, <1>5
      <4> QED BY <4>1, <4>2
    <3>2. CASE i > Len(t)
      <4>1. i - Len(t) \in 1 .. Len(e.text)
        BY <3>2, <2>2, <1>4, <1>5
      <4>2. u[i] = e.text[i - Len(t)]
        BY <3>2, <2>2, <1>5
      <4>3. w[Len(t) + (i - Len(t))] = e.text[i - Len(t)]
        BY <4>1, <1>8
      <4>4. Len(t) + (i - Len(t)) = i
        BY <2>2
      <4> QED BY <4>2, <4>3, <4>4
    <3> QED BY <3>1, <3>2, <2>2
  <2> QED BY <2>1, <2>2, <2>3, <1>5, <1>8
<1>11. e = Done => t = w
  <2> SUFFICES ASSUME e = Done PROVE t = w
    OBVIOUS
  <2>1. n = 1
    <3>1. \A k \in 1 .. Len(ev) : ev[k] = Done => k = Len(ev)
      BY <1>1 DEF Layout
    <3>2. 1 \in 1 .. Len(ev) /\ ev[1] = Done
      BY <1>2, <1>3
    <3> QED BY <3>1, <3>2
  <2>2. Len(e.text) = 0
    BY DEF Done
  <2>3. Len(t) = Len(w)
    <3>1. at[2] = Len(w)
      BY <2>1, <1>8
    <3> QED BY <3>1, <2>2, <1>8
  <2> QED BY <2>3, SeqEqual
<1> HIDE DEF n, e, u, fv, bt, r
<1>12. Layout(r, u, w, fv, bt)
  <2>1. bt[1] = Len(u) /\ bt[Len(fv) + 1] = Len(w) /\ Len(r) = 3 * Len(fv) /\ 1 .. Len(fv) + 1 = 1 .. n
    <3>1. bt[1] = at[2]
      BY <1>2, <1>9
    <3>2. bt[n] = at[n + 1]
      BY <1>2, <1>9
    <3>3. Len(fv) + 1 = n /\ Len(r) = 3 * Len(fv)
      BY <1>2, <1>6, <1>7
    <3> QED BY <3>1, <3>2, <3>3, <1>5, <1>8
  <2>2. ASSUME NEW k \in 1 .. n - 1
        PROVE  /\ r[3 * k - 2] = fv[k] /\ r[3 * k - 1] = Nl /\ r[3 * k] = Nl
               /\ bt[k + 1] = bt[k] + Len(fv[k].text)
               /\ \A j \in 1 .. Len(fv[k].text) : w[bt[k] + j] = fv[k].text[j]
               /\ fv[k] = Done => k = n - 1
    <3>1. k + 1 \in 1 .. n /\ k \in 1 .. n /\ k \in Nat
      BY <1>2
    <3>2. /\ q[3 * (k + 1) - 2] = ev[k + 1] /\ q[3 * (k + 1) - 1] = Nl /\ q[3 * (k + 1)] = Nl
          /\ at[(k + 1) + 1] = at[k + 1] + Len(ev[k + 1].text)
          /\ \A j \in 1 .. Len(ev[k + 1].text) : w[at[k + 1] + j] = ev[k + 1].text[j]
          /\ ev[k + 1] = Done => k + 1 = n
      BY <1>1, <3>1 DEF Layout, n
    <3>3. bt[k] = at[k + 1] /\ bt[k + 1] = at[(k + 1) + 1] /\ fv[k] = ev[k + 1]
      BY <3>1, <1>6, <1>9
    <3>4. r[3 * k - 2] = q[3 * (k + 1) - 2] /\ r[3 * k - 1] = q[3 * (k + 1) - 1] /\ r[3 * k] = q[3 * (k + 1)]
      <4>1. /\ 3 * k - 2 \in 1 .. 3 * n - 3 /\ 3 * k - 1 \in 1 .. 3 * n - 3 /\ 3 * k \in 1 .. 3 * n - 3
            /\ 3 + (3 * k - 2) = 3 * (k + 1) - 2 /\ 3 + (3 * k - 1) = 3 * (k + 1) - 1 /\ 3 + 3 * k = 3 * (k + 1)
        BY <1>2, <3>1
      <4>2. \A i \in 1 .. 3 * n - 3 : r[i] = q[3 + i]
        BY <1>7
      <4>3. r[3 * k - 2] = q[3 + (3 * k - 2)] /\ r[3 * k - 1] = q[3 + (3 * k - 1)] /\ r[3 * k] = q[3 + 3 * k]
        BY <4>1, <4>2
      <4> QED BY <4>1, <4>3
    <3>5. fv[k] = Done => k = n - 1
      BY <3>1, <3>2, <3>3, <1>2
    <3> QED BY <3>2, <3>3, <3>4, <3>5
  <2> QED BY <2>1, <2>2, <1>6, <1>9 DEF Layout
<1> QED BY <1>3, <1>10, <1>11, <1>12 DEF Lies, e, u, r
-----------------------------------------------------------------------------
(* Nothing is asked yet.                                                   *)
LEMMA StreamStarts == Init => StreamInv
<1> SUFFICES ASSUME Init PROVE StreamInv
  OBVIOUS
<1>1. <<>> \in Seq(Tokens) /\ <<>> \in Seq(Signs) /\ Len(<<>>) = 0 /\ MaxWire \in Nat
  BY TextAssumption
<1>2. mode \in Modes /\ attempt \in 1 .. Attempts[mode]
  BY DEF Init, Modes, Attempts
<1>3. StreamTypes
  BY <1>1, <1>2 DEF Init, StreamTypes
<1> QED BY <1>1, <1>3 DEF Init, StreamInv

(* Another attempt, or none.                                               *)
LEMMA NextAttemptType ==
  ASSUME StreamTypes, NextAttempt, mode' = mode
  PROVE  attempt' \in 1 .. Attempts[mode'] /\ phase' \in {phase, "over"}
<1>1. Attempts[mode] \in Nat /\ attempt \in 1 .. Attempts[mode]
  BY DEF StreamTypes, Modes, Attempts
<1> QED BY <1>1 DEF NextAttempt

(* A whole answer.                                                         *)
LEMMA DeliverKeeps ==
  ASSUME StreamInv, NEW d \in Seq(Tokens), Deliver(d)
  PROVE  StreamInv'
<1>1. /\ mode' = mode /\ attempt' = attempt /\ wire' = wire /\ bytes' = bytes
      /\ phase' = "over" /\ result' = "answer" /\ told' = d /\ written' = d
  BY DEF Deliver
<1>2. StreamTypes'
  BY <1>1 DEF StreamInv, StreamTypes
<1>3. Len(d) <= Len(d)
  OBVIOUS
<1> QED BY <1>1, <1>2, <1>3 DEF StreamInv

(* The steps of the request.                                               *)
AskStep == OpenSse \/ PlainBody \/ Translated \/ TranslatedNmt \/ Analyzed \/ AskFails

LEMMA AskKeeps == ASSUME StreamInv, AskStep PROVE StreamInv'
<1>1. CASE OpenSse
  <2>1. /\ mode' = mode /\ attempt' = attempt /\ wire' = wire /\ bytes' = bytes
        /\ phase = "ask" /\ phase' = "reading" /\ result' = result /\ told' = told /\ written' = written
    BY <1>1 DEF OpenSse
  <2>2. Lies(bytes' \o wire', told', written')
    <3>1. bytes' = <<>> /\ wire' = <<>> /\ told' = <<>> /\ written' = <<>>
      BY <2>1 DEF StreamInv
    <3>2. <<>> \o <<>> = <<>>
      OBVIOUS
    <3> QED BY <3>1, <3>2, LayEmpty
  <2>3. StreamTypes'
    BY <2>1 DEF StreamInv, StreamTypes
  <2> QED BY <2>1, <2>2, <2>3 DEF StreamInv
<1>2. CASE PlainBody \/ Translated \/ TranslatedNmt \/ Analyzed
  <2>1. \E d \in Seq(Tokens) : Deliver(d)
    BY <1>2, TextAssumption, TrimType DEF PlainBody, Translated, TranslatedNmt, Analyzed
  <2> QED BY <2>1, DeliverKeeps
<1>3. CASE AskFails
  <2>1. /\ mode' = mode /\ wire' = wire /\ bytes' = bytes /\ phase = "ask"
        /\ result' = result /\ told' = told /\ written' = written /\ NextAttempt
    BY <1>3 DEF AskFails
  <2>2. attempt' \in 1 .. Attempts[mode'] /\ phase' \in {"ask", "over"}
    BY <2>1, NextAttemptType DEF StreamInv
  <2>3. StreamTypes'
    BY <2>1, <2>2 DEF StreamInv, StreamTypes
  <2> QED BY <2>1, <2>2, <2>3 DEF StreamInv
<1> QED BY <1>1, <1>2, <1>3 DEF AskStep

(* The server writes.                                                      *)
LEMMA WriteKeeps == ASSUME StreamInv, NEW e \in Payloads, Write(e) PROVE StreamInv'
<1>1. /\ mode' = mode /\ attempt' = attempt /\ bytes' = bytes /\ result' = result /\ told' = told
      /\ phase = "reading" /\ phase' = "reading"
      /\ Len(wire) + 3 <= MaxWire /\ wire' = wire \o SseEvent(e) /\ written' = written \o e.text
      /\ Done \notin {wire[n] : n \in DOMAIN wire} \cup {bytes[n] : n \in DOMAIN bytes}
  BY DEF Write
<1>2. /\ wire \in Seq(Signs) /\ bytes \in Seq(Signs) /\ told \in Seq(Tokens) /\ written \in Seq(Tokens)
      /\ Lies(bytes \o wire, told, written) /\ Len(told) <= Len(written)
      /\ \A i \in 1 .. Len(told) : told[i] = written[i]
  BY <1>1 DEF StreamInv, StreamTypes
<1>3. e.text \in Seq(Tokens) /\ Len(e.text) \in Nat
  BY PayloadText
<1>4. /\ SseEvent(e) \in Seq(Signs) /\ Len(SseEvent(e)) = 3
  <2>1. e \in Signs /\ Nl \in Signs /\ SseEvent(e) = <<e, Nl, Nl>>
    BY SignsText DEF SseEvent
  <2> HIDE DEF Signs
  <2> QED BY <2>1
<1>5. /\ wire' \in Seq(Signs) /\ Len(wire') = Len(wire) + 3
  <2>1. wire \o SseEvent(e) \in Seq(Signs) /\ Len(wire \o SseEvent(e)) = Len(wire) + Len(SseEvent(e))
    BY <1>2, <1>4, ConcatProperties
  <2> QED BY <2>1, <1>1, <1>4
<1>6. /\ written' \in Seq(Tokens) /\ Len(written') = Len(written) + Len(e.text)
      /\ \A i \in 1 .. Len(written) + Len(e.text) :
           written'[i] = IF i <= Len(written) THEN written[i] ELSE e.text[i - Len(written)]
  BY <1>1, <1>2, <1>3, ConcatProperties
<1>7. Lies(bytes' \o wire', told', written')
  <2>1. bytes \o wire \in Seq(Signs)
    BY <1>2, ConcatProperties
  <2>2. ASSUME NEW i \in DOMAIN (bytes \o wire) PROVE (bytes \o wire)[i] # Done
    <3>1. i \in 1 .. Len(bytes) + Len(wire) /\ Len(bytes) \in Nat /\ Len(wire) \in Nat
      BY <1>2
    <3>2. (bytes \o wire)[i] = IF i <= Len(bytes) THEN bytes[i] ELSE wire[i - Len(bytes)]
      BY <3>1, <1>2, ConcatProperties
    <3>3. CASE i <= Len(bytes)
      <4>1. i \in DOMAIN bytes
        BY <3>1, <3>3, <1>2
      <4> QED BY <4>1, <3>2, <3>3, <1>1
    <3>4. CASE i > Len(bytes)
      <4>1. i - Len(bytes) \in DOMAIN wire
        BY <3>1, <3>4, <1>2
      <4>2. (bytes \o wire)[i] = wire[i - Len(bytes)]
        BY <3>1, <3>2, <3>4
      <4> QED BY <4>1, <4>2, <1>1
    <3> QED BY <3>1, <3>3, <3>4
  <2>3. Lies((bytes \o wire) \o SseEvent(e), told, written \o e.text)
    BY <2>1, <2>2, <1>2, LayWrite
  <2>4. (bytes \o wire) \o SseEvent(e) = bytes \o (wire \o SseEvent(e))
    BY <1>2, <1>4, ConcatAssociative
  <2> QED BY <2>3, <2>4, <1>1
<1>8. Len(told) <= Len(written') /\ \A i \in 1 .. Len(told) : told[i] = written'[i]
  <2>1. Len(told) \in Nat /\ Len(written) \in Nat
    BY <1>2
  <2>2. ASSUME NEW i \in 1 .. Len(told) PROVE told[i] = written'[i]
    <3>1. i \in 1 .. Len(written) + Len(e.text) /\ i <= Len(written)
      BY <2>1, <1>2, <1>3
    <3> QED BY <3>1, <1>2, <1>6
  <2> QED BY <2>1, <2>2, <1>2, <1>3, <1>6
<1>9. StreamTypes'
  <2>1. Len(wire') <= MaxWire
    BY <1>1, <1>5
  <2> QED BY <2>1, <1>1, <1>5, <1>6 DEF StreamInv, StreamTypes
<1> QED BY <1>1, <1>7, <1>8, <1>9 DEF StreamInv

(* While chat_stream waits its buffer holds less than an event.            *)
LEMMA LessThanAnEvent ==
  ASSUME StreamInv, phase = "reading", ~Whole
  PROVE  Len(bytes) <= 2
<1> SUFFICES ASSUME Len(bytes) > 2 PROVE FALSE
  BY DEF StreamInv, StreamTypes
<1>1. /\ wire \in Seq(Signs) /\ bytes \in Seq(Signs) /\ told \in Seq(Tokens) /\ written \in Seq(Tokens)
      /\ Lies(bytes \o wire, told, written) /\ Len(told) <= Len(written)
      /\ \A i \in 1 .. Len(told) : told[i] = written[i]
  BY DEF StreamInv, StreamTypes
<1> DEFINE q == bytes \o wire
<1>2. q \in Seq(Signs) /\ Len(bytes) \in Nat /\ Len(q) = Len(bytes) + Len(wire) /\ Len(wire) \in Nat
      /\ \A i \in 1 .. Len(bytes) : q[i] = bytes[i]
  BY <1>1, ConcatProperties
<1> HIDE DEF q
<1>3. Lies(q, told, written) /\ q # <<>>
  BY <1>1, <1>2 DEF q
<1>4. q[2] = Nl /\ q[3] = Nl
  BY <1>1, <1>2, <1>3, LayEvent
<1>5. bytes[2] = Nl /\ bytes[3] = Nl /\ 2 \in 1 .. Len(bytes) - 1
  BY <1>2, <1>4
<1>6. 2 \in NewlinePairs(bytes)
  BY <1>5 DEF NewlinePairs
<1> QED BY <1>6 DEF Whole

(* The network hands over a piece.                                         *)
LEMMA PieceKeeps == ASSUME StreamInv, NEW n \in 1 .. MaxWire, Piece(n) PROVE StreamInv'
<1>1. /\ mode' = mode /\ attempt' = attempt /\ result' = result /\ told' = told /\ written' = written
      /\ phase = "reading" /\ phase' = "reading" /\ ~Whole
      /\ n <= Len(wire) /\ bytes' = bytes \o Before(wire, n) /\ wire' = After(wire, n)
  BY DEF Piece, Awaits, Received
<1>2. /\ wire \in Seq(Signs) /\ bytes \in Seq(Signs) /\ Lies(bytes \o wire, told, written)
      /\ Len(wire) <= MaxWire /\ MaxWire \in Nat /\ n \in 0 .. Len(wire)
  BY <1>1, TextAssumption DEF StreamInv, StreamTypes
<1>3. /\ Before(wire, n) \in Seq(Signs) /\ Len(Before(wire, n)) = n
      /\ After(wire, n) \in Seq(Signs) /\ Len(After(wire, n)) = Len(wire) - n
      /\ Before(wire, n) \o After(wire, n) = wire
  BY <1>2, BeforeAfter
<1>4. bytes' \in Seq(Signs) /\ Len(bytes') = Len(bytes) + n
  <2>1. bytes \o Before(wire, n) \in Seq(Signs) /\ Len(bytes \o Before(wire, n)) = Len(bytes) + Len(Before(wire, n))
    BY <1>2, <1>3, ConcatProperties
  <2> QED BY <2>1, <1>1, <1>3
<1>5. bytes' \o wire' = bytes \o wire
  <2>1. (bytes \o Before(wire, n)) \o After(wire, n) = bytes \o (Before(wire, n) \o After(wire, n))
    <3> DEFINE a == Before(wire, n)
               b == After(wire, n)
    <3>1. bytes \in Seq(Signs) /\ a \in Seq(Signs) /\ b \in Seq(Signs)
      BY <1>2, <1>3
    <3>2. (bytes \o a) \o b = bytes \o (a \o b)
      <4> HIDE DEF a, b
      <4> QED BY <3>1, ConcatAssociative
    <3> QED BY <3>2
  <2> QED BY <2>1, <1>1, <1>3
<1>6. Len(bytes') <= MaxWire + 2 /\ Len(wire') <= MaxWire
  <2>1. Len(bytes) <= 2 /\ Len(bytes) \in Nat /\ Len(wire) \in Nat
    BY <1>1, <1>2, LessThanAnEvent
  <2> QED BY <2>1, <1>1, <1>2, <1>3, <1>4
<1>7. StreamTypes'
  BY <1>1, <1>3, <1>4, <1>6 DEF StreamInv, StreamTypes
<1> QED BY <1>1, <1>2, <1>5, <1>7 DEF StreamInv

(* The first line feeds of a whole event are its second and third byte.    *)
LEMMA FirstPair ==
  ASSUME StreamInv, phase = "reading", Whole
  PROVE  /\ Min(NewlinePairs(bytes)) = 2 /\ Len(bytes) >= 3 /\ bytes[1] \in Payloads
         /\ LET u == told \o bytes[1].text
            IN /\ Lies(After(bytes, 3) \o wire, u, written)
               /\ Len(u) <= Len(written) /\ \A i \in 1 .. Len(u) : u[i] = written[i]
         /\ bytes[1] = Done => told = written
<1>1. /\ wire \in Seq(Signs) /\ bytes \in Seq(Signs) /\ told \in Seq(Tokens) /\ written \in Seq(Tokens)
      /\ Lies(bytes \o wire, told, written) /\ Len(told) <= Len(written)
      /\ \A i \in 1 .. Len(told) : told[i] = written[i]
  BY DEF StreamInv, StreamTypes
<1> DEFINE q == bytes \o wire
           P == NewlinePairs(bytes)
<1>2. q \in Seq(Signs) /\ Len(bytes) \in Nat /\ Len(q) = Len(bytes) + Len(wire) /\ Len(wire) \in Nat
      /\ \A i \in 1 .. Len(bytes) : q[i] = bytes[i]
  BY <1>1, ConcatProperties
<1>3. PICK k \in 1 .. Len(bytes) - 1 : bytes[k] = Nl /\ bytes[k + 1] = Nl
  BY DEF Whole, NewlinePairs
<1>4. Lies(q, told, written) /\ q # <<>>
  <2>1. Len(q) # 0
    BY <1>2, <1>3
  <2> QED BY <2>1, <1>1
<1> HIDE DEF q, P
<1>5. /\ q[1] \in Payloads /\ q[2] = Nl /\ q[3] = Nl /\ Len(q) >= 3
      /\ LET u == told \o q[1].text
         IN /\ Lies(After(q, 3), u, written)
            /\ Len(u) <= Len(written) /\ \A i \in 1 .. Len(u) : u[i] = written[i]
      /\ q[1] = Done => told = written
  BY <1>1, <1>2, <1>4, LayEvent
<1>6. bytes[1] = q[1] /\ bytes[1] # Nl
  <2>1. 1 \in 1 .. Len(bytes)
    BY <1>2, <1>3
  <2> QED BY <2>1, <1>2, <1>5, PayloadText
<1>7. k >= 2 /\ Len(bytes) >= 3
  <2>1. k # 1
    BY <1>3, <1>6
  <2> QED BY <2>1, <1>2, <1>3
<1>8. 2 \in P /\ \A i \in P : 2 <= i
  <2>1. bytes[2] = Nl /\ bytes[3] = Nl /\ 2 \in 1 .. Len(bytes) - 1
    BY <1>2, <1>5, <1>7
  <2>2. 2 \in P
    BY <2>1 DEF P, NewlinePairs
  <2>3. ASSUME NEW i \in P PROVE 2 <= i
    <3>1. i \in 1 .. Len(bytes) - 1 /\ bytes[i] = Nl
      BY DEF P, NewlinePairs
    <3>2. i # 1
      BY <3>1, <1>6
    <3> QED BY <3>1, <3>2, <1>2
  <2> QED BY <2>2, <2>3
<1>9. Min(P) = 2
  <2>1. P \in SUBSET Nat
    BY <1>2 DEF P, NewlinePairs
  <2>2. Min(P) \in P /\ \A i \in P : Min(P) <= i
    BY <1>8, <2>1, Least
  <2>3. Min(P) <= 2 /\ 2 <= Min(P) /\ Min(P) \in Nat
    BY <1>8, <2>1, <2>2
  <2> QED BY <2>3
<1>10. After(q, 3) = After(bytes, 3) \o wire
  <2>1. /\ Before(bytes, 3) \in Seq(Signs) /\ Len(Before(bytes, 3)) = 3
        /\ After(bytes, 3) \in Seq(Signs) /\ Len(After(bytes, 3)) = Len(bytes) - 3
        /\ \A i \in 1 .. Len(bytes) - 3 : After(bytes, 3)[i] = bytes[3 + i]
    <3>1. 3 \in 0 .. Len(bytes)
      BY <1>2, <1>7
    <3> QED BY <3>1, <1>1, BeforeAfter
  <2>2. /\ After(q, 3) \in Seq(Signs) /\ Len(After(q, 3)) = Len(q) - 3
        /\ \A i \in 1 .. Len(q) - 3 : After(q, 3)[i] = q[3 + i]
    <3>1. 3 \in 0 .. Len(q)
      BY <1>2, <1>5
    <3> QED BY <3>1, <1>2, BeforeAfter
  <2> DEFINE x == After(bytes, 3) \o wire
  <2>3. /\ x \in Seq(Signs) /\ Len(x) = (Len(bytes) - 3) + Len(wire)
        /\ \A i \in 1 .. (Len(bytes) - 3) + Len(wire) :
             x[i] = IF i <= Len(bytes) - 3 THEN After(bytes, 3)[i] ELSE wire[i - (Len(bytes) - 3)]
    <3>1. /\ x \in Seq(Signs) /\ Len(x) = Len(After(bytes, 3)) + Len(wire)
          /\ \A i \in 1 .. Len(After(bytes, 3)) + Len(wire) :
               x[i] = IF i <= Len(After(bytes, 3)) THEN After(bytes, 3)[i] ELSE wire[i - Len(After(bytes, 3))]
      BY <1>1, <2>1, ConcatProperties
    <3> QED BY <3>1, <2>1
  <2>4. ASSUME NEW i \in 1 .. Len(q) - 3 PROVE After(q, 3)[i] = x[i]
    <3>1. i \in Nat /\ i <= (Len(bytes) - 3) + Len(wire) /\ i >= 1
      BY <1>2
    <3>2. q[3 + i] = IF 3 + i <= Len(bytes) THEN bytes[3 + i] ELSE wire[3 + i - Len(bytes)]
      <4>1. 3 + i \in 1 .. Len(bytes) + Len(wire)
        BY <3>1, <1>2
      <4> QED BY <4>1, <1>1, ConcatProperties DEF q
    <3>3. CASE 3 + i <= Len(bytes)
      <4>1. i \in 1 .. Len(bytes) - 3 /\ i <= Len(bytes) - 3
        BY <3>1, <3>3, <1>2
      <4> QED BY <4>1, <3>1, <3>2, <3>3, <2>1, <2>2, <2>3
    <3>4. CASE ~(3 + i <= Len(bytes))
      <4>1. ~(i <= Len(bytes) - 3) /\ 3 + i - Len(bytes) = i - (Len(bytes) - 3)
        BY <3>1, <3>4, <1>2
      <4> QED BY <4>1, <3>1, <3>2, <3>4, <2>2, <2>3
    <3> QED BY <3>3, <3>4
  <2>5. Len(x) = Len(q) - 3
    BY <2>3, <1>2, <1>7
  <2> HIDE DEF x
  <2>6. After(q, 3) = x
    BY <2>2, <2>3, <2>4, <2>5, SeqEqual
  <2> QED BY <2>6 DEF x
<1> QED BY <1>5, <1>6, <1>7, <1>9, <1>10 DEF P

(* An event is taken.                                                      *)
LEMMA EventKeeps == ASSUME StreamInv, Event PROVE StreamInv'
<1> DEFINE e == bytes[1]
<1>1. /\ mode' = mode /\ attempt' = attempt /\ wire' = wire /\ written' = written
      /\ phase = "reading" /\ Whole /\ bytes' = After(bytes, Min(NewlinePairs(bytes)) + 1)
      /\ \/ e = Done /\ phase' = "over" /\ result' = "done" /\ told' = told
         \/ e # Done /\ phase' = phase /\ result' = result /\ told' = told \o e.text
  BY DEF Event
<1>2. /\ Min(NewlinePairs(bytes)) + 1 = 3 /\ Len(bytes) >= 3 /\ e \in Payloads
      /\ Lies(After(bytes, 3) \o wire, told \o e.text, written)
      /\ Len(told \o e.text) <= Len(written) /\ \A i \in 1 .. Len(told \o e.text) : (told \o e.text)[i] = written[i]
      /\ e = Done => told = written
  BY <1>1, FirstPair
<1> HIDE DEF e
<1>3. /\ bytes' = After(bytes, 3) /\ bytes \in Seq(Signs) /\ told \in Seq(Tokens) /\ Len(bytes) <= MaxWire + 2
      /\ MaxWire \in Nat
  BY <1>1, <1>2, TextAssumption DEF StreamInv, StreamTypes
<1>4. bytes' \in Seq(Signs) /\ Len(bytes') <= MaxWire + 2
  <2>1. 3 \in 0 .. Len(bytes) /\ Len(bytes) \in Nat
    BY <1>2, <1>3
  <2>2. bytes' \in Seq(Signs) /\ Len(bytes') = Len(bytes) - 3
    BY <2>1, <1>3, BeforeAfter
  <2> QED BY <2>1, <2>2, <1>3
<1>5. told' \in Seq(Tokens)
  BY <1>1, <1>2, <1>3, PayloadText, ConcatProperties
<1>6. StreamTypes'
  BY <1>1, <1>4, <1>5 DEF StreamInv, StreamTypes
<1>7. CASE e = Done
  BY <1>1, <1>2, <1>6, <1>7 DEF StreamInv
<1>8. CASE e # Done
  BY <1>1, <1>2, <1>3, <1>6, <1>8 DEF StreamInv
<1> QED BY <1>7, <1>8

(* The ways a call ends, and what becomes of its text, leave the stream.   *)
EndStep == Eof \/ Break \/ Timeout \/ Pop \/ Close \/ CloseBulk

LEMMA EndKeeps == ASSUME StreamInv, EndStep PROVE StreamInv'
<1>1. /\ mode' = mode /\ wire' = wire /\ bytes' = bytes /\ told' = told /\ written' = written
  BY DEF EndStep, Eof, Break, Timeout, Pop, Close, CloseBulk
<1>2. attempt' \in 1 .. Attempts[mode'] /\ phase' \in {phase, "over", "closed"}
  <2>1. CASE Timeout /\ phase = "ask" /\ NextAttempt
    BY <2>1, <1>1, NextAttemptType DEF StreamInv
  <2>2. CASE ~(Timeout /\ phase = "ask" /\ NextAttempt)
    <3>1. attempt' = attempt /\ phase' \in {phase, "over", "closed"}
      BY <2>2 DEF EndStep, Eof, Break, Timeout, TimesOut, Pop, Close, CloseBulk
    <3> QED BY <3>1, <1>1 DEF StreamInv, StreamTypes
  <2> QED BY <2>1, <2>2
<1>3. result' = result \/ (result' = "eof" /\ phase = "reading" /\ phase' = "over")
  BY DEF EndStep, Eof, Break, Timeout, Pop, Close, CloseBulk, Awaits
<1>4. StreamTypes'
  BY <1>1, <1>2, <1>3 DEF StreamInv, StreamTypes
<1> QED BY <1>1, <1>2, <1>3, <1>4 DEF StreamInv

(* Every step.                                                             *)
LEMMA StreamStep == StreamInv /\ [Next]_vars => StreamInv'
<1> SUFFICES ASSUME StreamInv, [Next]_vars PROVE StreamInv'
  OBVIOUS
<1>1. CASE UNCHANGED vars
  BY <1>1 DEF vars, StreamInv, StreamTypes
<1>2. CASE AskStep
  BY <1>2, AskKeeps
<1>3. ASSUME NEW e \in Payloads, Write(e) PROVE StreamInv'
  BY <1>3, WriteKeeps
<1>4. ASSUME NEW n \in 1 .. MaxWire, Piece(n) PROVE StreamInv'
  BY <1>4, PieceKeeps
<1>5. CASE Event
  BY <1>5, EventKeeps
<1>6. CASE EndStep
  BY <1>6, EndKeeps
<1> QED BY <1>1, <1>2, <1>3, <1>4, <1>5, <1>6 DEF Next, AskStep, EndStep

(* The invariant holds in every behaviour.                                 *)
THEOREM StreamInvariance == Spec => []StreamInv
BY StreamStarts, StreamStep, PTL DEF Spec

(* chat_stream's buffer: however the network cuts the events up, on_chunk  *)
(* gets the deltas of the server in order, without gaps, and all of them   *)
(* once [DONE] was seen.                                                   *)
THEOREM DeltasCorrect == Spec => []DeltasInOrder
<1>1. StreamInv => DeltasInOrder
  <2> SUFFICES ASSUME StreamInv PROVE DeltasInOrder
    OBVIOUS
  <2>1. /\ written \in Seq(Tokens) /\ told \in Seq(Tokens) /\ Len(told) <= Len(written)
        /\ \A i \in 1 .. Len(told) : told[i] = written[i]
        /\ result = "done" => told = written
    BY DEF StreamInv, StreamTypes
  <2>2. /\ Before(told, Len(told)) \in Seq(Tokens) /\ Len(Before(told, Len(told))) = Len(told)
        /\ \A i \in 1 .. Len(told) : Before(told, Len(told))[i] = told[i]
    <3>1. Len(told) \in 0 .. Len(told)
      OBVIOUS
    <3> QED BY <3>1, <2>1, BeforeAfter
  <2>3. /\ Before(written, Len(told)) \in Seq(Tokens) /\ Len(Before(written, Len(told))) = Len(told)
        /\ \A i \in 1 .. Len(told) : Before(written, Len(told))[i] = written[i]
    <3>1. Len(told) \in 0 .. Len(written)
      BY <2>1
    <3> QED BY <3>1, <2>1, BeforeAfter
  <2>4. Before(told, Len(told)) = Before(written, Len(told))
    BY <2>1, <2>2, <2>3, SeqEqual
  <2> QED BY <2>1, <2>4 DEF DeltasInOrder, IsPrefix, Before
<1> QED BY <1>1, StreamInvariance, PTL

(***************************************************************************)
(* III.  What is visible of a text, and how texts are cut.                 *)
(***************************************************************************)

(* Induction over a stretch of numbers, on the set of those that have what *)
(* is to be shown; and the same from the top.                              *)
LEMMA Upwards ==
  ASSUME NEW n \in Nat, NEW T, 0 \in T, \A k \in 0 .. n - 1 : k \in T => k + 1 \in T
  PROVE  \A k \in 0 .. n : k \in T
<1> DEFINE U == {k \in 0 .. n : k \notin T}
<1> SUFFICES ASSUME U # {} PROVE FALSE
  OBVIOUS
<1>1. PICK k \in U : \A y \in U : k <= y
  <2>1. U \in SUBSET Nat
    OBVIOUS
  <2> QED BY <2>1, Least
<1>2. k - 1 \in 0 .. n - 1 /\ k - 1 \notin U /\ (k - 1) + 1 = k
  BY <1>1
<1>3. k - 1 \in T
  BY <1>2
<1> QED BY <1>1, <1>2, <1>3

LEMMA Downwards ==
  ASSUME NEW n \in Nat, NEW T, \A k \in 0 .. n : (\A j \in k + 1 .. n : j \in T) => k \in T
  PROVE  \A k \in 0 .. n : k \in T
<1> DEFINE U == {k \in 0 .. n : k \notin T}
<1> SUFFICES ASSUME U # {} PROVE FALSE
  OBVIOUS
<1>1. PICK k \in U : \A y \in U : y <= k
  <2>1. U \in SUBSET (0 .. n)
    OBVIOUS
  <2> QED BY <2>1, Greatest
<1>2. \A j \in k + 1 .. n : j \in T
  BY <1>1
<1> QED BY <1>1, <1>2

-----------------------------------------------------------------------------
(* The texts H[1] to H[n] one after the other.                             *)
Texts(H, n) == \A k \in 1 .. n : H[k] \in Seq(Tokens)

Grows(g, H, n) == g[0] = <<>> /\ \A k \in 1 .. n : g[k] = g[k - 1] \o H[k]
Adds(H, n, g)  == g \in [0 .. n -> Seq(Tokens)] /\ Grows(g, H, n)

Sum(H, n) == (CHOOSE g : Adds(H, n, g))[n]

LEMMA AddsExists ==
  ASSUME NEW n \in Nat, NEW H, Texts(H, n)
  PROVE  \E g : Adds(H, n, g)
<1> DEFINE T == {m \in 0 .. n : \E g : Adds(H, m, g)}
<1>1. 0 \in T
  <2> DEFINE g == [k \in 0 .. 0 |-> <<>>]
  <2>1. <<>> \in Seq(Tokens)
    OBVIOUS
  <2>2. g \in [0 .. 0 -> Seq(Tokens)] /\ g[0] = <<>> /\ 1 .. 0 = {}
    BY <2>1
  <2>3. Adds(H, 0, g)
    BY <2>2 DEF Adds, Grows
  <2> QED BY <2>3
<1>2. ASSUME NEW m \in 0 .. n - 1, m \in T PROVE m + 1 \in T
  <2>1. PICK g : Adds(H, m, g)
    BY <1>2
  <2> DEFINE h == [k \in 0 .. m + 1 |-> IF k = m + 1 THEN g[m] \o H[m + 1] ELSE g[k]]
  <2>2. /\ g \in [0 .. m -> Seq(Tokens)] /\ g[0] = <<>>
        /\ \A k \in 1 .. m : g[k] = g[k - 1] \o H[k]
    BY <2>1 DEF Adds, Grows
  <2>3. H[m + 1] \in Seq(Tokens) /\ g[m] \in Seq(Tokens)
    BY <2>2 DEF Texts
  <2>4. g[m] \o H[m + 1] \in Seq(Tokens)
    BY <2>3, ConcatProperties
  <2>5. h[m + 1] = g[m] \o H[m + 1] /\ \A k \in 0 .. m : h[k] = g[k]
    OBVIOUS
  <2>6. h \in [0 .. m + 1 -> Seq(Tokens)]
    <3>1. \A k \in 0 .. m + 1 : k # m + 1 => k \in 0 .. m
      OBVIOUS
    <3>2. \A k \in 0 .. m + 1 : k # m + 1 => g[k] \in Seq(Tokens)
      BY <3>1, <2>2
    <3> QED BY <2>4, <3>2
  <2> HIDE DEF h
  <2>7. ASSUME NEW k \in 1 .. m + 1 PROVE h[k] = h[k - 1] \o H[k]
    <3>1. CASE k = m + 1
      <4>1. k - 1 = m /\ m \in 0 .. m
        BY <3>1
      <4>2. h[k - 1] = g[m]
        BY <4>1, <2>5
      <4> QED BY <3>1, <4>2, <2>5
    <3>2. CASE k # m + 1
      <4>1. k \in 1 .. m /\ k \in 0 .. m /\ k - 1 \in 0 .. m
        BY <3>2
      <4>2. h[k - 1] = g[k - 1] /\ h[k] = g[k]
        BY <4>1, <2>5
      <4> QED BY <4>1, <4>2, <2>2
    <3> QED BY <3>1, <3>2
  <2>8. h[0] = <<>>
    BY <2>2, <2>5
  <2>9. Adds(H, m + 1, h)
    BY <2>6, <2>7, <2>8 DEF Adds, Grows
  <2> QED BY <2>9
<1>3. \A m \in 0 .. n : m \in T
  <2> HIDE DEF T
  <2> QED BY <1>1, <1>2, Upwards
<1> QED BY <1>3

(* Whatever grows in the same way is the same.                             *)
LEMMA AddsUnique ==
  ASSUME NEW n \in Nat, NEW g, NEW h, NEW H, Grows(g, H, n), Grows(h, H, n)
  PROVE  \A k \in 0 .. n : g[k] = h[k]
<1> DEFINE T == {k \in 0 .. n : g[k] = h[k]}
<1>1. 0 \in T
  BY DEF Grows
<1>2. ASSUME NEW k \in 0 .. n - 1, k \in T PROVE k + 1 \in T
  <2>1. k + 1 \in 1 .. n /\ (k + 1) - 1 = k
    OBVIOUS
  <2>2. g[k] = h[k]
    BY <1>2
  <2>3. g[k + 1] = g[k] \o H[k + 1] /\ h[k + 1] = h[k] \o H[k + 1]
    BY <2>1 DEF Grows
  <2>4. g[k + 1] = h[k + 1]
    BY <2>2, <2>3
  <2> QED BY <2>1, <2>4
<1>3. \A k \in 0 .. n : k \in T
  <2> HIDE DEF T
  <2> QED BY <1>1, <1>2, Upwards
<1> QED BY <1>3

(* Hence this is what any such sequence of sums comes to.                  *)
LEMMA SumIs ==
  ASSUME NEW n \in Nat, NEW H, Texts(H, n), NEW g, Grows(g, H, n)
  PROVE  g[n] = Sum(H, n) /\ Sum(H, n) \in Seq(Tokens)
<1> DEFINE h == CHOOSE x : Adds(H, n, x)
<1>1. Adds(H, n, h)
  BY AddsExists
<1>2. Sum(H, n) = h[n]
  BY DEF Sum
<1> HIDE DEF h
<1>3. h \in [0 .. n -> Seq(Tokens)] /\ Grows(h, H, n)
  BY <1>1 DEF Adds
<1>4. \A k \in 0 .. n : g[k] = h[k]
  BY <1>3, AddsUnique
<1>5. n \in 0 .. n
  OBVIOUS
<1> QED BY <1>2, <1>3, <1>4, <1>5

LEMMA SumZero == ASSUME NEW H PROVE Sum(H, 0) = <<>>
<1> DEFINE g == [k \in 0 .. 0 |-> <<>>]
<1>1. 1 .. 0 = {} /\ g[0] = <<>>
  OBVIOUS
<1> HIDE DEF g
<1>2. Texts(H, 0) /\ Grows(g, H, 0)
  BY <1>1 DEF Texts, Grows
<1> QED BY <1>1, <1>2, SumIs

LEMMA SumNext ==
  ASSUME NEW n \in Nat, NEW H, Texts(H, n + 1)
  PROVE  /\ Sum(H, n) \in Seq(Tokens) /\ H[n + 1] \in Seq(Tokens)
         /\ Sum(H, n + 1) = Sum(H, n) \o H[n + 1] /\ Sum(H, n + 1) \in Seq(Tokens)
<1>0. n + 1 \in Nat /\ n + 1 \in 1 .. n + 1 /\ (n + 1) - 1 = n /\ 1 .. n \subseteq 1 .. n + 1
  OBVIOUS
<1>1. PICK g : Adds(H, n + 1, g)
  BY <1>0, AddsExists
<1>2. Grows(g, H, n + 1)
  BY <1>1 DEF Adds
<1>3. Texts(H, n) /\ H[n + 1] \in Seq(Tokens) /\ Grows(g, H, n)
  BY <1>0, <1>2 DEF Texts, Grows
<1>4. g[n] = Sum(H, n) /\ Sum(H, n) \in Seq(Tokens)
  BY <1>3, SumIs
<1>5. g[n + 1] = Sum(H, n + 1) /\ Sum(H, n + 1) \in Seq(Tokens)
  BY <1>0, <1>2, SumIs
<1>6. g[n + 1] = g[n] \o H[n + 1]
  BY <1>0, <1>2 DEF Grows
<1> QED BY <1>3, <1>4, <1>5, <1>6

LEMMA ConcatTokens ==
  /\ \A s, t \in Seq(Tokens) : s \o t \in Seq(Tokens)
  /\ \A s, t, u \in Seq(Tokens) : (s \o t) \o u = s \o (t \o u)
  /\ <<>> \in Seq(Tokens) /\ \A s \in Seq(Tokens) : s \o <<>> = s /\ <<>> \o s = s
<1>1. ASSUME NEW s \in Seq(Tokens), NEW t \in Seq(Tokens) PROVE s \o t \in Seq(Tokens)
  BY ConcatProperties
<1>2. ASSUME NEW s \in Seq(Tokens), NEW t \in Seq(Tokens), NEW u \in Seq(Tokens)
      PROVE  (s \o t) \o u = s \o (t \o u)
  BY ConcatAssociative
<1>3. <<>> \in Seq(Tokens)
  OBVIOUS
<1>4. ASSUME NEW s \in Seq(Tokens) PROVE s \o <<>> = s /\ <<>> \o s = s
  BY ConcatEmptySeq
<1> QED BY <1>1, <1>2, <1>3, <1>4

LEMMA SumType ==
  ASSUME NEW n \in Nat, NEW H, Texts(H, n)
  PROVE  Sum(H, n) \in Seq(Tokens)
<1>1. PICK g : Adds(H, n, g)
  BY AddsExists
<1>2. Grows(g, H, n)
  BY <1>1 DEF Adds
<1> QED BY <1>2, SumIs

LEMMA SumSame ==
  ASSUME NEW n \in Nat, NEW H, NEW I, Texts(H, n), \A k \in 1 .. n : H[k] = I[k]
  PROVE  Sum(H, n) = Sum(I, n)
<1>1. PICK g : Adds(H, n, g)
  BY AddsExists
<1>2. Grows(g, H, n)
  BY <1>1 DEF Adds
<1>3. Texts(I, n) /\ Grows(g, I, n)
  BY <1>2 DEF Texts, Grows
<1> QED BY <1>2, <1>3, SumIs

(* In two parts: the texts of H from n + 1 on are those of I.              *)
Follows(I, H, n, m) == \A k \in 1 .. m : I[k] = H[n + k]

LEMMA SumSplit ==
  ASSUME NEW n \in Nat, NEW m \in Nat, NEW H, NEW I, Texts(H, n + m), Follows(I, H, n, m)
  PROVE  Sum(H, n + m) = Sum(H, n) \o Sum(I, m)
<1> DEFINE T == {k \in 0 .. m : Sum(H, n + k) = Sum(H, n) \o Sum(I, k)}
<1>h. \A k \in 0 .. m : n + k \in Nat /\ Texts(H, n + k)
  BY DEF Texts
<1>i. \A k \in 0 .. m : Texts(I, k)
  <2> SUFFICES ASSUME NEW k \in 0 .. m, NEW j \in 1 .. k PROVE I[j] \in Seq(Tokens)
    BY DEF Texts
  <2>1. j \in 1 .. m /\ n + j \in 1 .. n + m
    OBVIOUS
  <2> QED BY <2>1 DEF Texts, Follows
<1>0. Sum(H, n) \in Seq(Tokens)
  <2>1. Texts(H, n)
    BY DEF Texts
  <2> QED BY <2>1, SumType
<1>1. 0 \in T
  <2>1. Sum(I, 0) = <<>> /\ n + 0 = n
    BY SumZero
  <2>2. Sum(H, n) \o <<>> = Sum(H, n)
    BY <1>0, ConcatEmptySeq
  <2>3. Sum(H, n + 0) = Sum(H, n) \o Sum(I, 0)
    BY <2>1, <2>2
  <2> QED BY <2>3
<1>2. ASSUME NEW k \in 0 .. m - 1, k \in T PROVE k + 1 \in T
  <2>1. k \in Nat /\ n + k \in Nat /\ k + 1 \in 0 .. m /\ n + (k + 1) = (n + k) + 1 /\ k + 1 \in 1 .. m
    OBVIOUS
  <2>2. Texts(H, (n + k) + 1) /\ Texts(I, k + 1)
    BY <2>1, <1>h, <1>i
  <2>3. Sum(H, (n + k) + 1) = Sum(H, n + k) \o H[(n + k) + 1]
    BY <2>1, <2>2, SumNext
  <2>4. /\ Sum(I, k) \in Seq(Tokens) /\ I[k + 1] \in Seq(Tokens)
        /\ Sum(I, k + 1) = Sum(I, k) \o I[k + 1]
    BY <2>1, <2>2, SumNext
  <2>5. I[k + 1] = H[(n + k) + 1]
    <3>1. I[k + 1] = H[n + (k + 1)]
      BY <2>1 DEF Follows
    <3> QED BY <3>1, <2>1
  <2>6. Sum(H, n + k) = Sum(H, n) \o Sum(I, k)
    BY <1>2
  <2>7. (Sum(H, n) \o Sum(I, k)) \o I[k + 1] = Sum(H, n) \o (Sum(I, k) \o I[k + 1])
    BY <2>4, <1>0, ConcatTokens
  <2> QED BY <2>1, <2>3, <2>4, <2>5, <2>6, <2>7
<1>3. \A k \in 0 .. m : k \in T
  <2> HIDE DEF T
  <2> QED BY <1>1, <1>2, Upwards
<1>4. m \in 0 .. m
  OBVIOUS
<1> QED BY <1>3, <1>4

-----------------------------------------------------------------------------
(* FlattenSeq is such a sum,                                               *)
LEMMA FlattenSum ==
  ASSUME NEW x \in Seq(Seq(Tokens))
  PROVE  Texts(x, Len(x)) /\ FlattenSeq(x) = Sum(x, Len(x)) /\ FlattenSeq(x) \in Seq(Tokens)
<1> DEFINE n == Len(x)
<1>1. n \in Nat /\ Texts(x, n) /\ DOMAIN x = 1 .. n
  BY DEF Texts
<1>2. CASE n = 0
  <2>1. x = <<>>
    BY <1>2
  <2>2. FlattenSeq(x) = <<>>
    BY <1>2, <2>1 DEF FlattenSeq
  <2> QED BY <1>1, <1>2, <2>2, SumZero, ConcatTokens
<1>3. CASE n # 0
  <2> DEFINE Flat(f) == f = [i \in 1 .. n |-> IF i = 1 THEN x[i] ELSE f[i - 1] \o x[i]]
             g == [i \in 1 .. n |-> Sum(x, i)]
             h == CHOOSE f : Flat(f)
  <2>1. FlattenSeq(x) = h[n]
    BY <1>3 DEF FlattenSeq
  <2>2. Flat(g)
    <3>1. ASSUME NEW i \in 1 .. n PROVE Sum(x, i) = IF i = 1 THEN x[i] ELSE g[i - 1] \o x[i]
      <4>1. i - 1 \in Nat /\ (i - 1) + 1 = i /\ Texts(x, (i - 1) + 1)
        BY <1>1 DEF Texts
      <4>2. Sum(x, (i - 1) + 1) = Sum(x, i - 1) \o x[(i - 1) + 1] /\ x[(i - 1) + 1] \in Seq(Tokens)
        BY <4>1, SumNext
      <4>3. Sum(x, i) = Sum(x, i - 1) \o x[i] /\ x[i] \in Seq(Tokens)
        BY <4>1, <4>2
      <4>4. CASE i = 1
        <5>1. Sum(x, i - 1) = <<>>
          BY <4>4, SumZero
        <5> QED BY <4>3, <4>4, <5>1, ConcatTokens
      <4>5. CASE i # 1
        <5>1. i - 1 \in 1 .. n
          BY <4>5, <1>1
        <5>2. g[i - 1] = Sum(x, i - 1)
          BY <5>1
        <5> QED BY <4>3, <4>5, <5>2
      <4> QED BY <4>4, <4>5
    <3> HIDE DEF n
    <3>2. g = [i \in 1 .. n |-> IF i = 1 THEN x[i] ELSE g[i - 1] \o x[i]]
      BY <3>1
    <3> QED BY <3>2
  <2>3. Flat(h)
    BY <2>2
  <2> HIDE DEF n, h, g
  <2>4. \A i \in 1 .. n : h[i] = IF i = 1 THEN x[i] ELSE h[i - 1] \o x[i]
    BY <2>3
  <2> DEFINE k == [i \in 0 .. n |-> IF i = 0 THEN <<>> ELSE h[i]]
  <2>5. k[0] = <<>> /\ \A i \in 1 .. n : k[i] = h[i]
    BY <1>1
  <2> HIDE DEF k
  <2>6. ASSUME NEW i \in 1 .. n PROVE k[i] = k[i - 1] \o x[i]
    <3>1. CASE i = 1
      <4>1. k[i - 1] = <<>> /\ h[i] = x[i] /\ k[i] = h[i]
        BY <3>1, <2>4, <2>5
      <4>2. x[i] \in Seq(Tokens)
        BY <1>1 DEF Texts
      <4> QED BY <4>1, <4>2, ConcatTokens
    <3>2. CASE i # 1
      <4>1. i - 1 \in 1 .. n
        BY <3>2, <1>1
      <4> QED BY <3>2, <4>1, <2>4, <2>5
    <3> QED BY <3>1, <3>2
  <2>7. Grows(k, x, n)
    BY <2>5, <2>6 DEF Grows
  <2>8. k[n] = Sum(x, n) /\ Sum(x, n) \in Seq(Tokens)
    BY <2>7, <1>1, SumIs
  <2>9. k[n] = h[n]
    BY <2>5, <1>1, <1>3
  <2> QED BY <2>1, <2>8, <2>9, <1>1 DEF n
<1> QED BY <1>2, <1>3

(* and so is what is visible of a text.                                    *)
Marks(s) == [k \in 1 .. Len(s) |-> IF s[k] \in White THEN <<>> ELSE <<s[k]>>]

LEMMA MarksType ==
  ASSUME NEW s \in Seq(Tokens)
  PROVE  /\ Len(s) \in Nat /\ DOMAIN s = 1 .. Len(s) /\ Texts(Marks(s), Len(s))
         /\ \A k \in 1 .. Len(s) : Marks(s)[k] = IF s[k] \in White THEN <<>> ELSE <<s[k]>>
BY DEF Marks, Texts

LEMMA VisibleSum ==
  ASSUME NEW s \in Seq(Tokens)
  PROVE  Visible(s) = Sum(Marks(s), Len(s)) /\ Visible(s) \in Seq(Tokens)
<1> DEFINE n == Len(s)
           m == Marks(s)
           Upto(g) == g = [k \in 0 .. n |->
                             IF k = 0 THEN <<>> ELSE IF k \in Inked(s) THEN Append(g[k - 1], s[k]) ELSE g[k - 1]]
           g == [k \in 0 .. n |-> Sum(m, k)]
           h == CHOOSE f : Upto(f)
<1>1. /\ n \in Nat /\ Texts(m, n)
      /\ \A k \in 1 .. n : m[k] = IF s[k] \in White THEN <<>> ELSE <<s[k]>>
  BY MarksType
<1>2. \A k \in 1 .. n : (k \in Inked(s) <=> s[k] \notin White) /\ s[k] \in Tokens
  BY DEF Inked
<1>3. Visible(s) = h[n]
  BY DEF Visible
<1> HIDE DEF m
<1>4. ASSUME NEW k \in 1 .. n, NEW t \in Seq(Tokens)
      PROVE  t \o m[k] = IF k \in Inked(s) THEN Append(t, s[k]) ELSE t
  <2>1. CASE k \in Inked(s)
    <3>1. m[k] = <<s[k]>> /\ s[k] \in Tokens
      BY <2>1, <1>1, <1>2
    <3>2. Append(t, s[k]) = t \o <<s[k]>>
      BY <3>1, AppendIsConcat
    <3> QED BY <2>1, <3>1, <3>2
  <2>2. CASE k \notin Inked(s)
    <3>1. m[k] = <<>>
      BY <2>2, <1>1, <1>2
    <3> QED BY <2>2, <3>1, ConcatTokens
  <2> QED BY <2>1, <2>2
<1> HIDE DEF n
<1>5. Upto(g)
  <2>1. ASSUME NEW k \in 0 .. n
        PROVE  Sum(m, k) = IF k = 0 THEN <<>> ELSE IF k \in Inked(s) THEN Append(g[k - 1], s[k]) ELSE g[k - 1]
    <3>1. CASE k = 0
      BY <3>1, SumZero
    <3>2. CASE k # 0
      <4>1. /\ k - 1 \in Nat /\ (k - 1) + 1 = k /\ k \in 1 .. n /\ k - 1 \in 0 .. n
            /\ Texts(m, (k - 1) + 1)
        BY <3>2, <1>1 DEF Texts
      <4>2. Sum(m, (k - 1) + 1) = Sum(m, k - 1) \o m[(k - 1) + 1] /\ Sum(m, k - 1) \in Seq(Tokens)
        BY <4>1, SumNext
      <4>3. g[k - 1] = Sum(m, k - 1)
        BY <4>1
      <4>4. Sum(m, k) = g[k - 1] \o m[k] /\ g[k - 1] \in Seq(Tokens)
        BY <4>1, <4>2, <4>3
      <4> HIDE DEF g
      <4> QED BY <3>2, <4>1, <4>4, <1>4
    <3> QED BY <3>1, <3>2
  <2>2. g = [k \in 0 .. n |->
               IF k = 0 THEN <<>> ELSE IF k \in Inked(s) THEN Append(g[k - 1], s[k]) ELSE g[k - 1]]
    BY <2>1
  <2> QED BY <2>2
<1>6. Upto(h)
  BY <1>5
<1> HIDE DEF g, h
<1>7. \A k \in 0 .. n : h[k] = IF k = 0 THEN <<>> ELSE IF k \in Inked(s) THEN Append(h[k - 1], s[k]) ELSE h[k - 1]
  BY <1>6
<1> DEFINE T == {k \in 0 .. n : h[k] = Sum(m, k)}
<1>8. 0 \in T
  BY <1>1, <1>7, SumZero
<1>9. ASSUME NEW k \in 0 .. n - 1, k \in T PROVE k + 1 \in T
  <2>1. k \in Nat /\ k + 1 \in 1 .. n /\ k + 1 \in 0 .. n /\ k + 1 # 0 /\ (k + 1) - 1 = k /\ Texts(m, k + 1)
    BY <1>1 DEF Texts
  <2>2. Sum(m, k + 1) = Sum(m, k) \o m[k + 1] /\ Sum(m, k) \in Seq(Tokens)
    BY <2>1, SumNext
  <2>3. h[k] = Sum(m, k)
    BY <1>9
  <2>4. h[k + 1] = IF k + 1 \in Inked(s) THEN Append(h[k], s[k + 1]) ELSE h[k]
    BY <2>1, <1>7
  <2>5. h[k + 1] = Sum(m, k + 1)
    BY <2>1, <2>2, <2>3, <2>4, <1>4
  <2> QED BY <2>1, <2>5
<1>10. \A k \in 0 .. n : k \in T
  <2> HIDE DEF T
  <2> QED BY <1>1, <1>8, <1>9, Upwards
<1>11. n \in 0 .. n
  BY <1>1
<1>12. h[n] = Sum(m, n)
  BY <1>10, <1>11
<1> QED BY <1>1, <1>3, <1>12, SumType DEF n, m

-----------------------------------------------------------------------------
(* What is visible of two texts one after the other.                       *)
LEMMA VisibleCat ==
  ASSUME NEW s \in Seq(Tokens), NEW t \in Seq(Tokens)
  PROVE  Visible(s \o t) = Visible(s) \o Visible(t)
<1> DEFINE n == Len(s)
           m == Len(t)
           u == s \o t
<1>1. n \in Nat /\ m \in Nat /\ u \in Seq(Tokens) /\ Len(u) = n + m
  BY ConcatProperties
<1>2. \A i \in 1 .. n + m : u[i] = IF i <= n THEN s[i] ELSE t[i - n]
  BY ConcatProperties
<1> HIDE DEF u
<1>3. Texts(Marks(u), n + m) /\ Visible(u) = Sum(Marks(u), n + m)
  BY <1>1, MarksType, VisibleSum
<1>4. \A i \in 1 .. n + m : Marks(u)[i] = IF u[i] \in White THEN <<>> ELSE <<u[i]>>
  BY <1>1, MarksType
<1>5. \A i \in 1 .. m : Marks(t)[i] = Marks(u)[n + i]
  <2> SUFFICES ASSUME NEW i \in 1 .. m PROVE Marks(t)[i] = Marks(u)[n + i]
    OBVIOUS
  <2>1. n + i \in 1 .. n + m /\ ~(n + i <= n) /\ (n + i) - n = i
    BY <1>1
  <2>2. u[n + i] = t[i]
    BY <2>1, <1>2
  <2>3. Marks(t)[i] = IF t[i] \in White THEN <<>> ELSE <<t[i]>>
    BY MarksType
  <2> QED BY <2>1, <2>2, <2>3, <1>4
<1>6. \A i \in 1 .. n : Marks(s)[i] = Marks(u)[i]
  <2> SUFFICES ASSUME NEW i \in 1 .. n PROVE Marks(s)[i] = Marks(u)[i]
    OBVIOUS
  <2>1. i \in 1 .. n + m /\ i <= n
    BY <1>1
  <2>2. Marks(s)[i] = IF s[i] \in White THEN <<>> ELSE <<s[i]>>
    BY MarksType
  <2> QED BY <2>1, <2>2, <1>2, <1>4
<1>7. Sum(Marks(u), n + m) = Sum(Marks(u), n) \o Sum(Marks(t), m)
  <2>1. Follows(Marks(t), Marks(u), n, m)
    BY <1>5 DEF Follows
  <2> QED BY <1>1, <1>3, <2>1, SumSplit
<1>8. Texts(Marks(s), n)
  BY MarksType
<1>9. Sum(Marks(s), n) = Sum(Marks(u), n)
  BY <1>1, <1>6, <1>8, SumSame
<1> QED BY <1>3, <1>7, <1>9, VisibleSum DEF u

LEMMA VisibleNone ==
  ASSUME NEW s \in Seq(Tokens), Inked(s) = {}
  PROVE  Visible(s) = <<>>
<1> DEFINE n == Len(s)
           g == [k \in 0 .. n |-> <<>>]
<1>1. n \in Nat /\ Texts(Marks(s), n)
  BY MarksType
<1>2. \A k \in 1 .. n : Marks(s)[k] = <<>>
  BY MarksType DEF Inked
<1> HIDE DEF n
<1>3. \A k \in 0 .. n : g[k] = <<>>
  OBVIOUS
<1> HIDE DEF g
<1>4. Grows(g, Marks(s), n)
  <2>1. \A k \in 1 .. n : k - 1 \in 0 .. n /\ k \in 0 .. n
    BY <1>1
  <2>2. <<>> \o <<>> = <<>>
    BY ConcatTokens
  <2>3. 0 \in 0 .. n
    BY <1>1
  <2> QED BY <1>2, <1>3, <2>1, <2>2, <2>3 DEF Grows
<1>5. g[n] = Sum(Marks(s), n)
  BY <1>1, <1>4, SumIs
<1>6. n \in 0 .. n
  BY <1>1
<1> QED BY <1>3, <1>5, <1>6, VisibleSum DEF n

LEMMA VisibleEmpty == <<>> \in Seq(Tokens) /\ Visible(<<>>) = <<>>
<1>1. <<>> \in Seq(Tokens) /\ Inked(<<>>) = {}
  BY DEF Inked
<1> QED BY <1>1, VisibleNone

LEMMA VisibleBlank == <<Blank>> \in Seq(Tokens) /\ Visible(<<Blank>>) = <<>>
<1>1. Blank \in Tokens /\ Blank \in White
  BY DEF Tokens, White
<1>2. <<Blank>> \in Seq(Tokens) /\ Inked(<<Blank>>) = {}
  BY <1>1 DEF Inked
<1> QED BY <1>2, VisibleNone

(* Texts that look alike add up to texts that look alike.                  *)
LEMMA VisibleSums ==
  ASSUME NEW n \in Nat, NEW H, NEW I, Texts(H, n), Texts(I, n),
         \A k \in 1 .. n : Visible(H[k]) = Visible(I[k])
  PROVE  Visible(Sum(H, n)) = Visible(Sum(I, n))
<1> DEFINE T == {k \in 0 .. n : Visible(Sum(H, k)) = Visible(Sum(I, k))}
<1>1. 0 \in T
  BY SumZero
<1>2. ASSUME NEW k \in 0 .. n - 1, k \in T PROVE k + 1 \in T
  <2>1. k \in Nat /\ k + 1 \in 0 .. n /\ k + 1 \in 1 .. n /\ Texts(H, k + 1) /\ Texts(I, k + 1)
    BY DEF Texts
  <2>2. /\ Sum(H, k) \in Seq(Tokens) /\ H[k + 1] \in Seq(Tokens)
        /\ Sum(H, k + 1) = Sum(H, k) \o H[k + 1]
    BY <2>1, SumNext
  <2>3. /\ Sum(I, k) \in Seq(Tokens) /\ I[k + 1] \in Seq(Tokens)
        /\ Sum(I, k + 1) = Sum(I, k) \o I[k + 1]
    BY <2>1, SumNext
  <2>4. Visible(Sum(H, k + 1)) = Visible(Sum(H, k)) \o Visible(H[k + 1])
    BY <2>2, VisibleCat
  <2>5. Visible(Sum(I, k + 1)) = Visible(Sum(I, k)) \o Visible(I[k + 1])
    BY <2>3, VisibleCat
  <2>6. Visible(Sum(H, k)) = Visible(Sum(I, k)) /\ Visible(H[k + 1]) = Visible(I[k + 1])
    BY <1>2, <2>1
  <2>7. Visible(Sum(H, k + 1)) = Visible(Sum(I, k + 1))
    BY <2>4, <2>5, <2>6
  <2> QED BY <2>1, <2>7
<1>3. \A k \in 0 .. n : k \in T
  <2> HIDE DEF T
  <2> QED BY <1>1, <1>2, Upwards
<1>4. n \in 0 .. n
  OBVIOUS
<1> QED BY <1>3, <1>4

(* Trimming takes away nothing that is visible.                            *)
LEMMA VisibleTrim ==
  ASSUME NEW s \in Seq(Tokens)
  PROVE  Visible(Trim(s)) = Visible(s) /\ Visible(TrimStart(s)) = Visible(s)
<1>1. CASE Inked(s) = {}
  BY <1>1, VisibleNone, VisibleEmpty DEF Trim, TrimStart
<1>2. CASE Inked(s) # {}
  <2> DEFINE a == Min(Inked(s))
             b == Max(Inked(s))
             n == Len(s)
             t == SubSeq(s, a, n)
  <2>1. a \in 1 .. n /\ b \in a .. n /\ n \in Nat /\ \A i \in Inked(s) : a <= i /\ i <= b
    BY <1>2, InkedEnds
  <2>2. Trim(s) = SubSeq(s, a, b) /\ TrimStart(s) = t
    BY <1>2 DEF Trim, TrimStart
  <2>3. \A i \in 1 .. n : i \notin Inked(s) => s[i] \in White
    BY DEF Inked
  <2> HIDE DEF a, b, n
  <2>4. ASSUME NEW i \in 1 .. n, NEW j \in 0 .. n, \A k \in i .. j : k \notin Inked(s)
        PROVE  SubSeq(s, i, j) \in Seq(Tokens) /\ Visible(SubSeq(s, i, j)) = <<>>
    <3> DEFINE r == SubSeq(s, i, j)
    <3>1. /\ r \in Seq(Tokens) /\ Len(r) = IF i <= j THEN j - i + 1 ELSE 0
          /\ \A k \in 1 .. j - i + 1 : r[k] = s[i + k - 1]
      <4>1. i \in Nat \ {0} /\ j \in 0 .. Len(s)
        BY <2>1 DEF n
      <4> QED BY <4>1, StretchType
    <3> HIDE DEF r
    <3>2. ASSUME NEW k \in DOMAIN r PROVE r[k] \in White
      <4>1. k \in 1 .. Len(r)
        BY <3>1
      <4>2. k \in 1 .. j - i + 1
        BY <3>1, <4>1
      <4>3. i + k - 1 \in i .. j /\ i + k - 1 \in 1 .. n
        BY <4>2, <2>1
      <4> QED BY <4>2, <4>3, <3>1, <2>3, <2>4
    <3>3. Inked(r) = {}
      BY <3>2 DEF Inked
    <3> QED BY <3>1, <3>3, VisibleNone DEF r
  <2>5. s = SubSeq(s, 1, a - 1) \o t
    <3>1. 1 \in 1 .. Len(s) + 1 /\ a - 1 \in 1 - 1 .. Len(s) /\ Len(s) \in a - 1 .. Len(s) /\ (a - 1) + 1 = a
      BY <2>1 DEF n
    <3>2. SubSeq(s, 1, a - 1) \o SubSeq(s, (a - 1) + 1, Len(s)) = SubSeq(s, 1, Len(s))
      BY <3>1, ConcatAdjacentSubSeq
    <3> QED BY <3>1, <3>2, SubSeqFull DEF n
  <2>6. SubSeq(s, 1, a - 1) \in Seq(Tokens) /\ Visible(SubSeq(s, 1, a - 1)) = <<>>
    <3>1. 1 \in 1 .. n /\ a - 1 \in 0 .. n /\ \A k \in 1 .. a - 1 : k \notin Inked(s)
      BY <2>1
    <3> QED BY <3>1, <2>4
  <2>7. t \in Seq(Tokens) /\ Trim(s) \in Seq(Tokens)
    BY <2>2, TrimType
  <2>8. Visible(s) = Visible(t)
    <3>1. Visible(s) = Visible(SubSeq(s, 1, a - 1)) \o Visible(t)
      BY <2>5, <2>6, <2>7, VisibleCat
    <3> QED BY <3>1, <2>6, <2>7, VisibleSum, ConcatTokens
  <2>9. t = SubSeq(s, a, b) \o SubSeq(s, b + 1, n)
    <3>1. a \in 1 .. Len(s) + 1 /\ b \in a - 1 .. Len(s) /\ n \in b .. Len(s)
      BY <2>1 DEF n
    <3> QED BY <3>1, ConcatAdjacentSubSeq
  <2>10. SubSeq(s, b + 1, n) \in Seq(Tokens) /\ Visible(SubSeq(s, b + 1, n)) = <<>>
    <3>1. CASE b + 1 \in 1 .. n
      <4>1. n \in 0 .. n /\ \A k \in b + 1 .. n : k \notin Inked(s)
        BY <2>1
      <4> QED BY <3>1, <4>1, <2>4
    <3>2. CASE b + 1 \notin 1 .. n
      <4>1. b + 1 \in Int /\ n \in Int /\ n < b + 1
        BY <3>2, <2>1
      <4> QED BY <4>1, SubSeqEmpty, VisibleEmpty
    <3> QED BY <3>1, <3>2
  <2>11. Visible(t) = Visible(Trim(s))
    <3>1. Visible(t) = Visible(Trim(s)) \o Visible(SubSeq(s, b + 1, n))
      BY <2>2, <2>7, <2>9, <2>10, VisibleCat
    <3> QED BY <3>1, <2>7, <2>10, VisibleSum, ConcatTokens
  <2> QED BY <2>2, <2>8, <2>11
<1> QED BY <1>1, <1>2

-----------------------------------------------------------------------------
(* Texts in a row.                                                         *)
LEMMA FlattenCat ==
  ASSUME NEW x \in Seq(Seq(Tokens)), NEW y \in Seq(Seq(Tokens))
  PROVE  FlattenSeq(x \o y) = FlattenSeq(x) \o FlattenSeq(y)
<1> DEFINE n == Len(x)
           m == Len(y)
           z == x \o y
<1>1. /\ n \in Nat /\ m \in Nat /\ z \in Seq(Seq(Tokens)) /\ Len(z) = n + m
      /\ \A i \in 1 .. n + m : z[i] = IF i <= n THEN x[i] ELSE y[i - n]
  BY ConcatProperties
<1> HIDE DEF z
<1>2. Texts(z, n + m) /\ FlattenSeq(z) = Sum(z, n + m)
  BY <1>1, FlattenSum
<1>3. Follows(y, z, n, m)
  <2> SUFFICES ASSUME NEW k \in 1 .. m PROVE y[k] = z[n + k]
    BY DEF Follows
  <2>1. n + k \in 1 .. n + m /\ ~(n + k <= n) /\ (n + k) - n = k
    BY <1>1
  <2> QED BY <2>1, <1>1
<1>4. Sum(z, n + m) = Sum(z, n) \o Sum(y, m)
  BY <1>1, <1>2, <1>3, SumSplit
<1>5. \A k \in 1 .. n : x[k] = z[k]
  BY <1>1
<1>6. Texts(x, n)
  BY FlattenSum
<1>7. Sum(x, n) = Sum(z, n)
  BY <1>1, <1>5, <1>6, SumSame
<1> QED BY <1>2, <1>4, <1>7, FlattenSum DEF z

LEMMA FlattenNone == FlattenSeq(<<>>) = <<>>
<1>1. <<>> \in Seq(Seq(Tokens)) /\ Len(<<>>) = 0
  OBVIOUS
<1> QED BY <1>1, FlattenSum, SumZero

LEMMA FlattenOne ==
  ASSUME NEW t \in Seq(Tokens)
  PROVE  <<t>> \in Seq(Seq(Tokens)) /\ FlattenSeq(<<t>>) = t
<1> DEFINE x == <<t>>
<1>1. x \in Seq(Seq(Tokens)) /\ Len(x) = 1 /\ x[1] = t
  OBVIOUS
<1> HIDE DEF x
<1>2. FlattenSeq(x) = Sum(x, 1) /\ Texts(x, 0 + 1) /\ 0 + 1 = 1
  <2>1. FlattenSeq(x) = Sum(x, 1) /\ Texts(x, 1)
    BY <1>1, FlattenSum
  <2> QED BY <2>1
<1>3. Sum(x, 0 + 1) = Sum(x, 0) \o x[0 + 1]
  BY <1>2, SumNext
<1>4. Sum(x, 1) = <<>> \o t
  BY <1>1, <1>2, <1>3, SumZero
<1> QED BY <1>1, <1>2, <1>4, ConcatTokens DEF x

-----------------------------------------------------------------------------
(* A text without white space at its ends, as messages are.                *)
Neat == {t \in Seq(Tokens) : t # <<>> /\ Trim(t) = t}

LEMMA NeatEnds ==
  ASSUME NEW t \in Seq(Tokens)
  PROVE  t \in Neat <=> t # <<>> /\ t[1] \notin White /\ t[Len(t)] \notin White
<1> DEFINE a == Min(Inked(t))
           b == Max(Inked(t))
           n == Len(t)
<1>1. n \in Nat /\ (t # <<>> => n \in 1 .. n /\ 1 \in 1 .. n) /\ DOMAIN t = 1 .. n
  OBVIOUS
<1>2. ASSUME t \in Neat PROVE t # <<>> /\ t[1] \notin White /\ t[n] \notin White
  <2>1. t # <<>> /\ Trim(t) = t
    BY <1>2 DEF Neat
  <2>2. Inked(t) # {}
    BY <2>1 DEF Trim
  <2>3. a \in 1 .. n /\ b \in a .. n /\ a \in Inked(t) /\ b \in Inked(t) /\ t = SubSeq(t, a, b)
    BY <2>1, <2>2, InkedEnds DEF Trim
  <2> HIDE DEF a, b
  <2>4. a \in Nat \ {0} /\ b \in 0 .. Len(t) /\ a <= b
    BY <2>3
  <2>5. n = b - a + 1
    BY <2>3, <2>4, StretchType
  <2>6. a = 1 /\ b = n
    BY <2>3, <2>5, <1>1
  <2>7. 1 \in Inked(t) /\ n \in Inked(t)
    BY <2>3, <2>6
  <2> QED BY <2>1, <2>7 DEF Inked
<1>3. ASSUME t # <<>>, t[1] \notin White, t[n] \notin White PROVE t \in Neat
  <2>1. 1 \in Inked(t) /\ n \in Inked(t)
    BY <1>1, <1>3 DEF Inked
  <2>2. Trim(t) = SubSeq(t, a, b) /\ a \in 1 .. n /\ b \in a .. n /\ a <= 1 /\ n <= b
    BY <2>1, InkedEnds DEF Trim
  <2> HIDE DEF a, b
  <2>3. a = 1 /\ b = n
    <3>1. n \in Nat /\ a \in Nat /\ b \in Nat /\ 1 <= a /\ b <= n /\ a <= 1 /\ n <= b
      BY <2>2, <1>1
    <3> HIDE DEF n
    <3> QED BY <3>1
  <2>4. Trim(t) = t
    BY <2>2, <2>3, SubSeqFull
  <2> QED BY <1>3, <2>4 DEF Neat
<1> QED BY <1>2, <1>3

LEMMA TrimNeat ==
  ASSUME NEW s \in Seq(Tokens), Trim(s) # <<>>
  PROVE  Trim(s) \in Neat
<1> DEFINE a == Min(Inked(s))
           b == Max(Inked(s))
           t == Trim(s)
<1>1. Inked(s) # {}
  BY DEF Trim
<1>2. a \in 1 .. Len(s) /\ b \in a .. Len(s) /\ a \in Inked(s) /\ b \in Inked(s) /\ t = SubSeq(s, a, b)
  BY <1>1, InkedEnds DEF Trim
<1>3. t \in Seq(Tokens)
  BY TrimType
<1> HIDE DEF a, b, t
<1>4. a \in Nat \ {0} /\ b \in 0 .. Len(s) /\ a <= b
  BY <1>2
<1>5. Len(t) = b - a + 1 /\ \A i \in 1 .. b - a + 1 : t[i] = s[a + i - 1]
  BY <1>2, <1>4, StretchType
<1>6. t[1] = s[a] /\ t[Len(t)] = s[b]
  <2>1. 1 \in 1 .. b - a + 1 /\ b - a + 1 \in 1 .. b - a + 1 /\ a + 1 - 1 = a /\ a + (b - a + 1) - 1 = b
    BY <1>4
  <2> QED BY <1>5, <2>1
<1>7. s[a] \notin White /\ s[b] \notin White
  BY <1>2 DEF Inked
<1> QED BY <1>3, <1>6, <1>7, NeatEnds DEF t

(* What Spoken makes of a text.                                            *)
LEMMA SpokenNeat ==
  ASSUME NEW s \in Seq(Tokens)
  PROVE  /\ Spoken(s) \in Seq(Neat) /\ Spoken(s) \in Seq(Seq(Tokens))
         /\ Visible(FlattenSeq(Spoken(s))) = Visible(s)
<1>0. Trim(s) \in Seq(Tokens) /\ Visible(Trim(s)) = Visible(s)
  BY TrimType, VisibleTrim
<1>1. CASE Trim(s) = <<>>
  <2>1. Spoken(s) = <<>>
    BY <1>1 DEF Spoken
  <2>2. <<>> \in Seq(Neat) /\ <<>> \in Seq(Seq(Tokens))
    OBVIOUS
  <2> QED BY <1>0, <1>1, <2>1, <2>2, FlattenNone
<1>2. CASE Trim(s) # <<>>
  <2>1. Spoken(s) = <<Trim(s)>>
    BY <1>2 DEF Spoken
  <2>2. Trim(s) \in Neat
    BY <1>2, TrimNeat
  <2>3. <<Trim(s)>> \in Seq(Neat)
    BY <2>2
  <2> QED BY <1>0, <2>1, <2>3, FlattenOne
<1> QED BY <1>1, <1>2

LEMMA NeatTexts == Neat \subseteq Seq(Tokens) /\ \A x \in Seq(Neat) : x \in Seq(Seq(Tokens))
<1>1. Neat \subseteq Seq(Tokens)
  BY DEF Neat
<1>2. ASSUME NEW x \in Seq(Neat) PROVE x \in Seq(Seq(Tokens))
  BY <1>1, SeqMonotonic
<1> QED BY <1>1, <1>2

(* One more message, or none for a blank text.                             *)
LEMMA SpokenNext ==
  ASSUME NEW x \in Seq(Neat), NEW s \in Seq(Tokens)
  PROVE  /\ x \o Spoken(s) \in Seq(Neat)
         /\ Visible(FlattenSeq(x \o Spoken(s))) = Visible(FlattenSeq(x)) \o Visible(s)
         /\ Visible(FlattenSeq(Spoken(s) \o x)) = Visible(s) \o Visible(FlattenSeq(x))
         /\ Spoken(s) \o x \in Seq(Neat)
<1>1. x \in Seq(Seq(Tokens)) /\ Spoken(s) \in Seq(Seq(Tokens)) /\ Spoken(s) \in Seq(Neat)
  BY NeatTexts, SpokenNeat
<1>2. FlattenSeq(x) \in Seq(Tokens) /\ FlattenSeq(Spoken(s)) \in Seq(Tokens)
  BY <1>1, FlattenSum
<1>3. /\ FlattenSeq(x \o Spoken(s)) = FlattenSeq(x) \o FlattenSeq(Spoken(s))
      /\ FlattenSeq(Spoken(s) \o x) = FlattenSeq(Spoken(s)) \o FlattenSeq(x)
  BY <1>1, FlattenCat
<1>4. x \o Spoken(s) \in Seq(Neat) /\ Spoken(s) \o x \in Seq(Neat)
  BY <1>1, ConcatProperties
<1>5. /\ Visible(FlattenSeq(x \o Spoken(s))) = Visible(FlattenSeq(x)) \o Visible(FlattenSeq(Spoken(s)))
      /\ Visible(FlattenSeq(Spoken(s) \o x)) = Visible(FlattenSeq(Spoken(s))) \o Visible(FlattenSeq(x))
  BY <1>2, <1>3, VisibleCat
<1> QED BY <1>4, <1>5, SpokenNeat

-----------------------------------------------------------------------------
(* A text with a sentence end has a first sentence.                        *)
LEMMA FirstEndType ==
  ASSUME NEW s \in Seq(Tokens), NEW ends \in SUBSET (DOMAIN s)
  PROVE  /\ FirstEnd(s, ends) \in 0 .. Len(s)
         /\ ends # {} => FirstEnd(s, ends) \in 1 .. Len(s) /\ Ended(s, FirstEnd(s, ends), ends)
         /\ ends = {} => FirstEnd(s, ends) = 0
<1>1. DOMAIN s = 1 .. Len(s) /\ Len(s) \in Nat
  OBVIOUS
<1>2. CASE ends = {}
  BY <1>1, <1>2 DEF FirstEnd
<1>3. CASE ends # {}
  <2>1. ends \in SUBSET Nat
    BY <1>1
  <2>2. PICK i \in ends : \A k \in ends : i <= k
    BY <1>3, <2>1, Least
  <2> DEFINE T == {j \in i .. Len(s) : \A n \in i + 1 .. j : s[n] = Quote}
  <2>3. i \in 1 .. Len(s)
    BY <1>1
  <2>4. T \in SUBSET (0 .. Len(s)) /\ i \in T
    BY <2>3
  <2>5. PICK j \in T : \A y \in T : y <= j
    BY <1>1, <2>4, Greatest
  <2>6. j \in i .. Len(s) /\ \A n \in i + 1 .. j : s[n] = Quote
    OBVIOUS
  <2>7. At(s, j + 1) # Quote
    <3> SUFFICES ASSUME At(s, j + 1) = Quote PROVE FALSE
      OBVIOUS
    <3>1. j + 1 \in DOMAIN s /\ s[j + 1] = Quote
      BY DEF At, Quote, Blank
    <3>2. j + 1 \in i .. Len(s)
      BY <1>1, <2>3, <2>6, <3>1
    <3>3. \A n \in i + 1 .. j + 1 : s[n] = Quote
      BY <2>3, <2>6, <3>1
    <3>4. j + 1 \in T
      BY <3>2, <3>3
    <3> QED BY <2>3, <2>5, <2>6, <3>4
  <2>8. Ended(s, j, ends) /\ j \in DOMAIN s
    BY <1>1, <2>2, <2>3, <2>6, <2>7 DEF Ended
  <2>9. FirstEnd(s, ends) \in DOMAIN s /\ Ended(s, FirstEnd(s, ends), ends)
    BY <1>3, <2>8 DEF FirstEnd
  <2> QED BY <1>1, <1>3, <2>9
<1> QED BY <1>2, <1>3

LEMMA AfterAfter ==
  ASSUME NEW S, NEW s \in Seq(S), NEW k \in 0 .. Len(s), NEW n \in 0 .. Len(s) - k
  PROVE  After(After(s, k), n) = After(s, k + n) /\ k + n \in 0 .. Len(s)
<1>1. /\ k + n \in 0 .. Len(s) /\ Len(s) \in Nat /\ k \in Nat /\ n \in Nat
      /\ Len(s) - k \in Nat /\ (Len(s) - k) - n = Len(s) - (k + n)
  OBVIOUS
<1> DEFINE r == After(s, k)
           u == After(s, k + n)
           v == After(r, n)
<1>2. r \in Seq(S) /\ Len(r) = Len(s) - k /\ \A i \in 1 .. Len(s) - k : r[i] = s[k + i]
  BY BeforeAfter
<1>3. /\ u \in Seq(S) /\ Len(u) = Len(s) - (k + n)
      /\ \A i \in 1 .. Len(s) - (k + n) : u[i] = s[(k + n) + i]
  BY <1>1, BeforeAfter
<1> HIDE DEF r, u
<1>4. n \in 0 .. Len(r)
  BY <1>2
<1>5. v \in Seq(S) /\ Len(v) = Len(r) - n /\ \A i \in 1 .. Len(r) - n : v[i] = r[n + i]
  BY <1>2, <1>4, BeforeAfter
<1> HIDE DEF v
<1>6. Len(v) = Len(u)
  BY <1>1, <1>2, <1>3, <1>5
<1>7. ASSUME NEW i \in 1 .. Len(v) PROVE v[i] = u[i]
  <2>1. /\ i \in 1 .. Len(r) - n /\ n + i \in 1 .. Len(s) - k /\ i \in 1 .. Len(s) - (k + n)
        /\ k + (n + i) = (k + n) + i
    BY <1>1, <1>2, <1>5
  <2>2. v[i] = r[n + i] /\ r[n + i] = s[k + (n + i)] /\ u[i] = s[(k + n) + i]
    BY <2>1, <1>2, <1>3, <1>5
  <2> QED BY <2>1, <2>2
<1>8. v = u
  BY <1>3, <1>5, <1>6, <1>7, SeqEqual
<1> QED BY <1>1, <1>8 DEF r, u, v

(* The end of the sentence after position k, and the sentences from there  *)
(* on, given those from each later position.                               *)
EndAfter(s, k)  == FirstEnd(After(s, k), {i \in DOMAIN After(s, k) : EndsSentence(After(s, k), i)})
Rest(s, k, f) ==
  IF EndAfter(s, k) = 0 THEN Spoken(After(s, k))
  ELSE Spoken(Before(After(s, k), EndAfter(s, k))) \o f[k + EndAfter(s, k)]

LEMMA EndAfterType ==
  ASSUME NEW s \in Seq(Tokens), NEW k \in 0 .. Len(s)
  PROVE  /\ After(s, k) \in Seq(Tokens) /\ EndAfter(s, k) \in 0 .. Len(After(s, k))
         /\ k + EndAfter(s, k) \in 0 .. Len(s)
         /\ Before(After(s, k), EndAfter(s, k)) \in Seq(Tokens)
         /\ After(After(s, k), EndAfter(s, k)) = After(s, k + EndAfter(s, k))
         /\ Visible(After(s, k)) = Visible(Before(After(s, k), EndAfter(s, k)))
                                     \o Visible(After(s, k + EndAfter(s, k)))
         /\ After(s, k + EndAfter(s, k)) \in Seq(Tokens)
<1> DEFINE r == After(s, k)
           n == EndAfter(s, k)
<1>1. r \in Seq(Tokens) /\ Len(r) = Len(s) - k
  BY BeforeAfter
<1>2. n \in 0 .. Len(r)
  <2>1. {i \in DOMAIN r : EndsSentence(r, i)} \in SUBSET (DOMAIN r)
    OBVIOUS
  <2> QED BY <1>1, <2>1, FirstEndType DEF EndAfter
<1> HIDE DEF n
<1>3. n \in 0 .. Len(s) - k
  BY <1>1, <1>2
<1>4. After(r, n) = After(s, k + n) /\ k + n \in 0 .. Len(s)
  BY <1>3, AfterAfter
<1> HIDE DEF r
<1>5. Before(r, n) \in Seq(Tokens) /\ After(r, n) \in Seq(Tokens) /\ Before(r, n) \o After(r, n) = r
  BY <1>1, <1>2, BeforeAfter
<1>6. Visible(r) = Visible(Before(r, n)) \o Visible(After(r, n))
  BY <1>5, VisibleCat
<1> QED BY <1>1, <1>2, <1>4, <1>5, <1>6 DEF r, n

(* Functions that look further on exist.                                   *)
Ahead(A, E, k, f) == IF E[k] = 0 THEN A[k] ELSE A[k] \o f[k + E[k]]

Within(E, b, n)          == \A k \in b .. n : E[k] \in 0 .. n - k
Recursive(A, E, b, n, f) == f = [k \in b .. n |-> Ahead(A, E, k, f)]

LEMMA Recursion ==
  ASSUME NEW b \in Nat, NEW n \in Nat, NEW A, NEW E, Within(E, b, n)
  PROVE  \E f : Recursive(A, E, b, n, f)
<1> DEFINE From(f, m) == \A k \in b .. n : m <= k => f[k] = Ahead(A, E, k, f)
           T == {m \in 0 .. n : \E f : From(f, m)}
<1>0. \A k \in b .. n : E[k] \in 0 .. n - k
  BY DEF Within
<1>1. ASSUME NEW m \in 0 .. n, \A j \in m + 1 .. n : j \in T PROVE m \in T
  <2>1. PICK g : From(g, m + 1)
    <3>1. CASE m = n
      <4>1. \A k \in b .. n : ~(m + 1 <= k)
        BY <3>1
      <4> QED BY <4>1
    <3>2. CASE m # n
      <4>1. m + 1 \in m + 1 .. n
        BY <3>2
      <4>2. m + 1 \in T
        BY <4>1, <1>1
      <4> QED BY <4>2
    <3> QED BY <3>1, <3>2
  <2> DEFINE f == [k \in 0 .. n |-> IF k = m THEN Ahead(A, E, m, g) ELSE g[k]]
  <2>2. f[m] = Ahead(A, E, m, g) /\ \A k \in m + 1 .. n : f[k] = g[k]
    OBVIOUS
  <2> HIDE DEF f
  <2>3. ASSUME NEW k \in b .. n, m <= k PROVE Ahead(A, E, k, f) = Ahead(A, E, k, g)
    <3>1. CASE E[k] = 0
      BY <3>1 DEF Ahead
    <3>2. CASE E[k] # 0
      <4>1. k + E[k] \in m + 1 .. n
        BY <1>0, <2>3, <3>2
      <4> QED BY <4>1, <2>2 DEF Ahead
    <3> QED BY <3>1, <3>2
  <2>4. ASSUME NEW k \in b .. n, m <= k PROVE f[k] = Ahead(A, E, k, f)
    <3>1. CASE k = m
      BY <3>1, <2>2, <2>3
    <3>2. CASE k # m
      <4>1. k \in m + 1 .. n /\ m + 1 <= k
        BY <3>2, <2>4
      <4>2. f[k] = g[k] /\ g[k] = Ahead(A, E, k, g)
        BY <4>1, <2>1, <2>2
      <4> QED BY <4>2, <2>3, <2>4
    <3> QED BY <3>1, <3>2
  <2>5. From(f, m)
    BY <2>4
  <2> QED BY <2>5
<1>2. \A m \in 0 .. n : m \in T
  <2> HIDE DEF T
  <2> QED BY <1>1, Downwards
<1>3. PICK g : From(g, 0)
  <2>1. 0 \in T
    BY <1>2
  <2> QED BY <2>1
<1> DEFINE f == [k \in b .. n |-> g[k]]
<1>4. \A k \in b .. n : f[k] = g[k]
  OBVIOUS
<1>5. ASSUME NEW k \in b .. n PROVE g[k] = Ahead(A, E, k, f)
  <2> HIDE DEF f
  <2>1. CASE E[k] = 0
    BY <2>1, <1>3 DEF Ahead
  <2>2. CASE E[k] # 0
    <3>1. k + E[k] \in b .. n
      BY <1>0
    <3> QED BY <3>1, <1>3, <1>4 DEF Ahead
  <2> QED BY <2>1, <2>2
<1>6. f = [k \in b .. n |-> Ahead(A, E, k, f)]
  BY <1>5
<1> QED BY <1>6 DEF Recursive

(* The function of raw_sentences is defined.                               *)
LEMMA RawExists ==
  ASSUME NEW s \in Seq(Tokens)
  PROVE  \E f : f = [k \in 0 .. Len(s) |-> Rest(s, k, f)]
<1> DEFINE n == Len(s)
<1>0. n \in Nat
  OBVIOUS
<1> HIDE DEF n
<1> DEFINE E == [k \in 0 .. n |-> EndAfter(s, k)]
           A == [k \in 0 .. n |-> IF EndAfter(s, k) = 0 THEN Spoken(After(s, k))
                                  ELSE Spoken(Before(After(s, k), EndAfter(s, k)))]
<1>1. /\ \A k \in 0 .. n : E[k] = EndAfter(s, k)
      /\ \A k \in 0 .. n : A[k] = IF EndAfter(s, k) = 0 THEN Spoken(After(s, k))
                                  ELSE Spoken(Before(After(s, k), EndAfter(s, k)))
  OBVIOUS
<1> HIDE DEF A, E
<1>2. ASSUME NEW k \in 0 .. n PROVE E[k] \in 0 .. n - k
  <2>1. EndAfter(s, k) \in 0 .. Len(After(s, k)) /\ Len(After(s, k)) = n - k
    BY EndAfterType, BeforeAfter DEF n
  <2> QED BY <2>1, <1>1
<1>3. PICK f : Recursive(A, E, 0, n, f)
  <2>1. 0 \in Nat /\ Within(E, 0, n)
    BY <1>2 DEF Within
  <2> QED BY <1>0, <2>1, Recursion
<1>4. \A k \in 0 .. n : Ahead(A, E, k, f) = Rest(s, k, f)
  BY <1>1 DEF Ahead, Rest
<1>5. [k \in 0 .. n |-> Ahead(A, E, k, f)] = [k \in 0 .. n |-> Rest(s, k, f)]
  BY <1>4
<1>6. f = [k \in 0 .. n |-> Rest(s, k, f)]
  BY <1>3, <1>5 DEF Recursive
<1> QED BY <1>6 DEF n

(* The sentences of a text say what it says.                               *)
LEMMA RawSentencesNeat ==
  ASSUME NEW s \in Seq(Tokens)
  PROVE  /\ RawSentences(s) \in Seq(Neat)
         /\ Visible(FlattenSeq(RawSentences(s))) = Visible(s)
<1> DEFINE n == Len(s)
           Raw(f) == f = [k \in 0 .. n |-> Rest(s, k, f)]
           raw == CHOOSE f : Raw(f)
<1>0. n \in Nat /\ 0 \in 0 .. n
  OBVIOUS
<1>1. RawSentences(s) = raw[0]
  BY DEF RawSentences, Rest, EndAfter
<1> HIDE DEF n
<1>2. \E f : Raw(f)
  BY RawExists DEF n
<1>3. Raw(raw)
  BY <1>2
<1> HIDE DEF raw
<1>4. \A k \in 0 .. n : raw[k] = Rest(s, k, raw)
  BY <1>3
<1> DEFINE T == {k \in 0 .. n : raw[k] \in Seq(Neat) /\ Visible(FlattenSeq(raw[k])) = Visible(After(s, k))}
<1>5. ASSUME NEW k \in 0 .. n, \A j \in k + 1 .. n : j \in T PROVE k \in T
  <2> DEFINE r == After(s, k)
             e == EndAfter(s, k)
  <2>0. k \in 0 .. Len(s)
    BY DEF n
  <2>1. /\ r \in Seq(Tokens) /\ e \in Nat /\ k + e \in 0 .. n /\ Before(r, e) \in Seq(Tokens)
        /\ Visible(r) = Visible(Before(r, e)) \o Visible(After(s, k + e))
    <3>1. /\ r \in Seq(Tokens) /\ e \in 0 .. Len(r) /\ k + e \in 0 .. Len(s) /\ Before(r, e) \in Seq(Tokens)
          /\ Visible(r) = Visible(Before(r, e)) \o Visible(After(s, k + e))
      BY <2>0, EndAfterType
    <3> HIDE DEF r, e
    <3> QED BY <3>1 DEF n
  <2>2. raw[k] = IF e = 0 THEN Spoken(r) ELSE Spoken(Before(r, e)) \o raw[k + e]
    BY <1>4 DEF Rest
  <2> HIDE DEF r, e
  <2>3. CASE e = 0
    <3>1. raw[k] \in Seq(Neat) /\ Visible(FlattenSeq(raw[k])) = Visible(r)
      BY <2>1, <2>2, <2>3, SpokenNeat
    <3> QED BY <3>1 DEF r
  <2>4. CASE e # 0
    <3>1. k + e \in k + 1 .. n
      BY <2>1, <2>4
    <3>2. raw[k + e] \in Seq(Neat) /\ Visible(FlattenSeq(raw[k + e])) = Visible(After(s, k + e))
      BY <3>1, <1>5
    <3>3. raw[k] = Spoken(Before(r, e)) \o raw[k + e]
      BY <2>2, <2>4
    <3>4. /\ raw[k] \in Seq(Neat)
          /\ Visible(FlattenSeq(raw[k])) = Visible(Before(r, e)) \o Visible(FlattenSeq(raw[k + e]))
      BY <2>1, <3>2, <3>3, SpokenNext
    <3>5. raw[k] \in Seq(Neat) /\ Visible(FlattenSeq(raw[k])) = Visible(r)
      BY <2>1, <3>2, <3>4
    <3> QED BY <3>5 DEF r
  <2> QED BY <2>3, <2>4
<1>6. \A k \in 0 .. n : k \in T
  <2> HIDE DEF T
  <2> QED BY <1>0, <1>5, Downwards
<1>7. raw[0] \in Seq(Neat) /\ Visible(FlattenSeq(raw[0])) = Visible(After(s, 0))
  BY <1>0, <1>6
<1>8. After(s, 0) = s
  BY SubSeqFull DEF After
<1> QED BY <1>1, <1>7, <1>8

-----------------------------------------------------------------------------
(* Sentences joined by blanks are neat and say what the sentences say.     *)
LEMMA NeatCat ==
  ASSUME NEW s \in Neat, NEW t \in Seq(Tokens), t # <<>>, t[Len(t)] \notin White
  PROVE  s \o t \in Neat
<1>1. s \in Seq(Tokens) /\ s # <<>> /\ s[1] \notin White
  BY NeatEnds, NeatTexts
<1>2. Len(s) \in Nat \ {0} /\ Len(t) \in Nat \ {0}
  BY <1>1, EmptySeq
<1> DEFINE u == s \o t
<1>3. /\ u \in Seq(Tokens) /\ Len(u) = Len(s) + Len(t)
      /\ \A i \in 1 .. Len(s) + Len(t) : u[i] = IF i <= Len(s) THEN s[i] ELSE t[i - Len(s)]
  BY <1>1, ConcatProperties
<1> HIDE DEF u
<1>4. u[1] = s[1]
  BY <1>2, <1>3
<1>5. u[Len(u)] = t[Len(t)]
  <2>1. Len(u) \in 1 .. Len(s) + Len(t) /\ ~(Len(u) <= Len(s)) /\ Len(u) - Len(s) = Len(t)
    BY <1>2, <1>3
  <2> QED BY <2>1, <1>3
<1>6. u # <<>>
  <2>1. Len(u) # 0
    BY <1>2, <1>3
  <2> QED BY <2>1
<1> QED BY <1>1, <1>3, <1>4, <1>5, <1>6, NeatEnds DEF u

LEMMA BlankNeat ==
  ASSUME NEW t \in Neat
  PROVE  /\ <<Blank>> \o t \in Seq(Tokens) /\ <<Blank>> \o t # <<>>
         /\ (<<Blank>> \o t)[Len(<<Blank>> \o t)] \notin White
         /\ Visible(<<Blank>> \o t) = Visible(t)
<1>1. t \in Seq(Tokens) /\ t # <<>> /\ t[Len(t)] \notin White
  BY NeatEnds, NeatTexts
<1>2. <<Blank>> \in Seq(Tokens) /\ Len(<<Blank>>) = 1 /\ Len(t) \in Nat \ {0}
  BY <1>1, VisibleBlank, EmptySeq
<1> DEFINE u == <<Blank>> \o t
<1>3. /\ u \in Seq(Tokens) /\ Len(u) = 1 + Len(t)
      /\ \A i \in 1 .. 1 + Len(t) : u[i] = IF i <= 1 THEN <<Blank>>[i] ELSE t[i - 1]
  BY <1>1, <1>2, ConcatProperties
<1>4. Visible(u) = Visible(t)
  <2>1. Visible(u) = <<>> \o Visible(t)
    BY <1>1, <1>2, VisibleCat, VisibleBlank
  <2> QED BY <1>1, <2>1, VisibleSum, ConcatTokens
<1> HIDE DEF u
<1>5. Len(u) \in 1 .. 1 + Len(t) /\ ~(Len(u) <= 1) /\ Len(u) - 1 = Len(t)
  BY <1>2, <1>3
<1>6. u[Len(u)] = t[Len(t)]
  BY <1>3, <1>5
<1>7. u # <<>>
  BY <1>2, <1>3
<1> QED BY <1>1, <1>3, <1>4, <1>6, <1>7 DEF u

LEMMA IsSeq ==
  ASSUME NEW S, NEW n \in Nat, NEW f \in [1 .. n -> S]
  PROVE  f \in Seq(S) /\ Len(f) = n
<1>1. f \in Seq(S)
  BY SeqDef
<1>2. DOMAIN f = 1 .. n /\ DOMAIN f = 1 .. Len(f) /\ Len(f) \in Nat
  BY <1>1, LenProperties
<1> QED BY <1>1, <1>2

LEMMA JoinedNeat ==
  ASSUME NEW r \in Seq(Neat), NEW p \in Nat, NEW q \in p + 1 .. Len(r)
  PROVE  /\ Joined(r, p + 1, q) \in Neat
         /\ Visible(Sum(r, q)) = Visible(Sum(r, p)) \o Visible(Joined(r, p + 1, q))
<1> DEFINE m == q - p
           K == [k \in 1 .. m |-> IF k = 1 THEN r[p + 1] ELSE <<Blank>> \o r[(p + 1) + k - 1]]
           R == [k \in 1 .. m |-> r[p + k]]
<1>1. m \in Nat /\ m # 0 /\ q = p + m /\ q - (p + 1) + 1 = m /\ q \in Nat
  OBVIOUS
<1>2. Joined(r, p + 1, q) = FlattenSeq(K)
  BY <1>1 DEF Joined
<1> HIDE DEF m
<1>3. \A k \in 1 .. m : /\ r[p + k] \in Neat /\ R[k] = r[p + k]
                        /\ K[k] = IF k = 1 THEN r[p + k] ELSE <<Blank>> \o r[p + k]
  <2> SUFFICES ASSUME NEW k \in 1 .. m
               PROVE  /\ r[p + k] \in Neat /\ R[k] = r[p + k]
                      /\ K[k] = IF k = 1 THEN r[p + k] ELSE <<Blank>> \o r[p + k]
    OBVIOUS
  <2>1. p + k \in 1 .. Len(r) /\ (p + 1) + k - 1 = p + k
    BY <1>1
  <2>2. r[p + k] \in Neat
    BY <2>1, ElementOfSeq
  <2> QED BY <2>1, <2>2
<1>4. \A k \in 1 .. m : /\ K[k] \in Seq(Tokens) /\ K[k] # <<>> /\ K[k][Len(K[k])] \notin White
                        /\ Visible(K[k]) = Visible(R[k]) /\ R[k] \in Seq(Tokens)
  <2> HIDE DEF K, R
  <2> SUFFICES ASSUME NEW k \in 1 .. m
               PROVE  /\ K[k] \in Seq(Tokens) /\ K[k] # <<>> /\ K[k][Len(K[k])] \notin White
                      /\ Visible(K[k]) = Visible(R[k]) /\ R[k] \in Seq(Tokens)
    OBVIOUS
  <2>1. r[p + k] \in Seq(Tokens) /\ r[p + k] # <<>> /\ r[p + k][Len(r[p + k])] \notin White
    BY <1>3, NeatEnds, NeatTexts
  <2>2. CASE k = 1
    <3>1. K[k] = r[p + k] /\ R[k] = r[p + k]
      BY <1>3, <2>2
    <3> QED BY <2>1, <3>1
  <2>3. CASE k # 1
    <3>1. K[k] = <<Blank>> \o r[p + k] /\ R[k] = r[p + k]
      BY <1>3, <2>3
    <3> QED BY <1>3, <2>1, <3>1, BlankNeat
  <2> QED BY <2>2, <2>3
<1>5. K \in Seq(Seq(Tokens)) /\ Len(K) = m
  <2>1. K \in [1 .. m -> Seq(Tokens)]
    BY <1>4
  <2> QED BY <2>1, <1>1, IsSeq
<1> HIDE DEF K, R
<1>6. Joined(r, p + 1, q) = Sum(K, m) /\ Texts(K, m)
  BY <1>2, <1>5, FlattenSum
<1>7. Texts(R, m)
  BY <1>4 DEF Texts
<1>8. Visible(Sum(K, m)) = Visible(Sum(R, m))
  BY <1>1, <1>4, <1>6, <1>7, VisibleSums
<1>9. Visible(Sum(r, q)) = Visible(Sum(r, p)) \o Visible(Sum(R, m))
  <2>1. Texts(r, p + m) /\ Texts(r, p)
    <3>1. r \in Seq(Seq(Tokens))
      BY NeatTexts
    <3>2. Texts(r, Len(r)) /\ Len(r) \in Nat
      BY <3>1, FlattenSum
    <3> QED BY <3>2, <1>1 DEF Texts
  <2>2. Follows(R, r, p, m)
    BY <1>3 DEF Follows
  <2>3. Sum(r, q) = Sum(r, p) \o Sum(R, m)
    BY <1>1, <2>1, <2>2, SumSplit
  <2>4. Sum(r, p) \in Seq(Tokens) /\ Sum(R, m) \in Seq(Tokens)
    BY <1>1, <1>7, <2>1, SumType
  <2> QED BY <2>3, <2>4, VisibleCat
<1>10. Sum(K, m) \in Neat
  <2> DEFINE T == {k \in 0 .. m - 1 : Sum(K, k + 1) \in Neat}
  <2>1. \A k \in 0 .. m - 1 : k \in Nat /\ k + 1 \in Nat /\ k + 1 \in 1 .. m /\ Texts(K, k + 1)
    BY <1>1, <1>6 DEF Texts
  <2>2. 0 \in T
    <3>1. 0 \in 0 .. m - 1 /\ 0 + 1 = 1 /\ 1 \in 1 .. m /\ p + 1 = p + 1
      BY <1>1
    <3>2. Sum(K, 0 + 1) = Sum(K, 0) \o K[0 + 1]
      BY <2>1, <3>1, SumNext
    <3>3. K[1] \in Neat
      BY <1>3, <3>1
    <3>4. Sum(K, 0 + 1) = <<>> \o K[1]
      BY <3>1, <3>2, SumZero
    <3>5. Sum(K, 0 + 1) = K[1]
      BY <3>3, <3>4, NeatTexts, ConcatTokens
    <3>6. Sum(K, 0 + 1) \in Neat
      BY <3>3, <3>5
    <3> QED BY <3>1, <3>6
  <2>3. ASSUME NEW k \in 0 .. m - 1 - 1, k \in T PROVE k + 1 \in T
    <3>1. k + 1 \in 0 .. m - 1 /\ (k + 1) + 1 \in 1 .. m /\ k + 1 \in Nat
      BY <1>1
    <3>2. Sum(K, (k + 1) + 1) = Sum(K, k + 1) \o K[(k + 1) + 1]
      BY <2>1, <3>1, SumNext
    <3>3. /\ K[(k + 1) + 1] \in Seq(Tokens) /\ K[(k + 1) + 1] # <<>>
          /\ K[(k + 1) + 1][Len(K[(k + 1) + 1])] \notin White
      BY <1>4, <3>1
    <3>4. Sum(K, k + 1) \in Neat
      BY <2>3
    <3>5. Sum(K, (k + 1) + 1) \in Neat
      BY <3>2, <3>3, <3>4, NeatCat
    <3> QED BY <3>1, <3>5
  <2>4. m - 1 \in Nat /\ m - 1 \in 0 .. m - 1 /\ (m - 1) + 1 = m
    BY <1>1
  <2>5. \A k \in 0 .. m - 1 : k \in T
    <3> HIDE DEF T
    <3> QED BY <2>2, <2>3, <2>4, Upwards
  <2>6. Sum(K, (m - 1) + 1) \in Neat
    BY <2>4, <2>5
  <2> QED BY <2>4, <2>6
<1> QED BY <1>6, <1>8, <1>9, <1>10

-----------------------------------------------------------------------------
(* The last sentences of chunks that cover sentences i to n.               *)
Cuts(e, i, n) ==
  /\ e \in Seq(i .. n) /\ \A m \in 1 .. Len(e) - 1 : e[m] < e[m + 1]
  /\ i <= n => e # <<>> /\ e[Len(e)] = n

LEMMA CutsNext ==
  ASSUME NEW n \in Nat, NEW i \in 1 .. n, NEW j \in i .. n, NEW e, Cuts(e, j + 1, n)
  PROVE  Cuts(<<j>> \o e, i, n)
<1> DEFINE d == <<j>> \o e
<1>1. /\ e \in Seq(j + 1 .. n) /\ \A m \in 1 .. Len(e) - 1 : e[m] < e[m + 1]
      /\ j + 1 <= n => e # <<>> /\ e[Len(e)] = n
  BY DEF Cuts
<1>2. e \in Seq(i .. n) /\ <<j>> \in Seq(i .. n) /\ Len(<<j>>) = 1 /\ Len(e) \in Nat
  <2>1. j + 1 .. n \subseteq i .. n
    OBVIOUS
  <2>2. e \in Seq(i .. n)
    BY <1>1, <2>1, SeqMonotonic
  <2> QED BY <2>2
<1>3. /\ d \in Seq(i .. n) /\ Len(d) = 1 + Len(e)
      /\ \A k \in 1 .. 1 + Len(e) : d[k] = IF k <= 1 THEN <<j>>[k] ELSE e[k - 1]
  BY <1>2, ConcatProperties
<1> HIDE DEF d
<1>4. d[1] = j /\ \A k \in 1 .. Len(e) : d[k + 1] = e[k] /\ e[k] \in j + 1 .. n
  <2>1. d[1] = j
    BY <1>2, <1>3
  <2>2. ASSUME NEW k \in 1 .. Len(e) PROVE d[k + 1] = e[k] /\ e[k] \in j + 1 .. n
    <3>1. k + 1 \in 1 .. 1 + Len(e) /\ ~(k + 1 <= 1) /\ (k + 1) - 1 = k
      BY <1>2
    <3>2. e[k] \in j + 1 .. n
      BY <1>1, ElementOfSeq
    <3> QED BY <3>1, <3>2, <1>3
  <2> QED BY <2>1, <2>2
<1>5. ASSUME NEW m \in 1 .. Len(d) - 1 PROVE d[m] < d[m + 1]
  <2>1. m \in 1 .. Len(e)
    BY <1>2, <1>3
  <2>2. d[m + 1] = e[m] /\ e[m] \in j + 1 .. n
    BY <2>1, <1>4
  <2>3. CASE m = 1
    BY <2>2, <2>3, <1>4
  <2>4. CASE m # 1
    <3>1. m - 1 \in 1 .. Len(e) - 1 /\ m - 1 \in 1 .. Len(e) /\ (m - 1) + 1 = m
      BY <2>1, <2>4, <1>2
    <3>2. d[m] = e[m - 1] /\ e[m - 1] < e[m]
      <4>1. d[(m - 1) + 1] = e[m - 1]
        BY <3>1, <1>4
      <4>2. e[m - 1] < e[(m - 1) + 1]
        BY <3>1, <1>1
      <4> QED BY <3>1, <4>1, <4>2
    <3> QED BY <2>2, <3>2
  <2> QED BY <2>3, <2>4
<1>6. d # <<>> /\ d[Len(d)] = n
  <2>0. Len(d) # 0
    BY <1>2, <1>3
  <2>1. CASE j = n
    <3>1. Len(e) = 0
      <4> SUFFICES ASSUME Len(e) # 0 PROVE FALSE
        OBVIOUS
      <4>1. 1 \in 1 .. Len(e)
        BY <1>2
      <4>2. e[1] \in j + 1 .. n
        BY <4>1, <1>4
      <4> QED BY <4>2, <2>1
    <3>2. Len(d) = 1
      BY <3>1, <1>3
    <3> QED BY <2>0, <2>1, <3>2, <1>4
  <2>2. CASE j # n
    <3>1. e # <<>> /\ e[Len(e)] = n
      BY <2>2, <1>1
    <3>2. Len(e) \in 1 .. Len(e) /\ Len(d) = Len(e) + 1
      BY <3>1, <1>1, <1>3, EmptySeq
    <3>3. d[Len(e) + 1] = e[Len(e)]
      BY <3>2, <1>4
    <3> QED BY <2>0, <3>1, <3>2, <3>3
  <2> QED BY <2>1, <2>2
<1> QED BY <1>3, <1>5, <1>6 DEF Cuts, d

LEMMA StopsCut ==
  ASSUME NEW r, NEW n \in Nat, Len(r) = n
  PROVE  Cuts(Stops(r), 1, n)
<1> DEFINE Stop(i)  == Max({k \in i .. n : Takes(r, i, k)})
           From(f) == f = [i \in 1 .. n + 1 |-> IF i > n THEN <<>> ELSE <<Stop(i)>> \o f[Stop(i) + 1]]
           from    == CHOOSE f : From(f)
<1>1. ASSUME NEW i \in 1 .. n PROVE Stop(i) \in i .. n
  <2> DEFINE S == {k \in i .. n : Takes(r, i, k)}
  <2>1. \A k \in i + 1 .. i : FALSE
    OBVIOUS
  <2>2. Takes(r, i, i)
    BY <2>1 DEF Takes
  <2>3. i \in S /\ S \in SUBSET (0 .. n)
    BY <2>2
  <2>4. Max(S) \in S
    BY <2>3, Greatest
  <2> QED BY <2>4
<1>2. Stops(r) = from[1]
  BY DEF Stops
<1> HIDE DEF Stop
<1>3. \E f : From(f)
  <2> DEFINE E == [i \in 1 .. n + 1 |-> IF i > n THEN 0 ELSE Stop(i) + 1 - i]
             A == [i \in 1 .. n + 1 |-> IF i > n THEN <<>> ELSE <<Stop(i)>>]
  <2>1. \A i \in 1 .. n + 1 : /\ E[i] = IF i > n THEN 0 ELSE Stop(i) + 1 - i
                              /\ A[i] = IF i > n THEN <<>> ELSE <<Stop(i)>>
    OBVIOUS
  <2> HIDE DEF A, E
  <2>2. ASSUME NEW i \in 1 .. n + 1 PROVE E[i] \in 0 .. (n + 1) - i /\ (E[i] = 0 <=> i > n)
    <3>1. CASE i > n
      <4>1. E[i] = 0
        BY <3>1, <2>1
      <4>2. i = n + 1
        BY <3>1
      <4> QED BY <3>1, <4>1, <4>2
    <3>2. CASE ~(i > n)
      <4>1. Stop(i) \in i .. n
        BY <3>2, <1>1
      <4>2. E[i] = Stop(i) + 1 - i
        BY <3>2, <2>1
      <4> QED BY <3>2, <4>1, <4>2
    <3> QED BY <3>1, <3>2
  <2>3. PICK f : Recursive(A, E, 1, n + 1, f)
    <3>1. 1 \in Nat /\ n + 1 \in Nat /\ Within(E, 1, n + 1)
      BY <2>2 DEF Within
    <3> QED BY <3>1, Recursion
  <2>4. ASSUME NEW i \in 1 .. n + 1
        PROVE  Ahead(A, E, i, f) = IF i > n THEN <<>> ELSE <<Stop(i)>> \o f[Stop(i) + 1]
    <3>1. CASE i > n
      BY <3>1, <2>1 DEF Ahead
    <3>2. CASE ~(i > n)
      <4>1. Stop(i) \in i .. n /\ i \in Nat
        BY <3>2, <1>1
      <4>2. E[i] = Stop(i) + 1 - i /\ E[i] # 0 /\ A[i] = <<Stop(i)>>
        BY <3>2, <2>1, <2>2
      <4>3. i + E[i] = Stop(i) + 1
        BY <4>1, <4>2
      <4>4. Ahead(A, E, i, f) = A[i] \o f[i + E[i]]
        BY <4>2 DEF Ahead
      <4> QED BY <3>2, <4>2, <4>3, <4>4
    <3> QED BY <3>1, <3>2
  <2>5. f = [i \in 1 .. n + 1 |-> IF i > n THEN <<>> ELSE <<Stop(i)>> \o f[Stop(i) + 1]]
    <3>1. f = [i \in 1 .. n + 1 |-> Ahead(A, E, i, f)]
      BY <2>3 DEF Recursive
    <3>2. [i \in 1 .. n + 1 |-> Ahead(A, E, i, f)]
            = [i \in 1 .. n + 1 |-> IF i > n THEN <<>> ELSE <<Stop(i)>> \o f[Stop(i) + 1]]
      BY <2>4
    <3> QED BY <3>1, <3>2
  <2> QED BY <2>5
<1>4. From(from)
  BY <1>3
<1> HIDE DEF from
<1>5. \A i \in 1 .. n + 1 : from[i] = IF i > n THEN <<>> ELSE <<Stop(i)>> \o from[Stop(i) + 1]
  BY <1>4
<1> DEFINE T == {m \in 0 .. n : Cuts(from[m + 1], m + 1, n)}
<1>6. ASSUME NEW m \in 0 .. n, \A j \in m + 1 .. n : j \in T PROVE m \in T
  <2>0. m + 1 \in 1 .. n + 1 /\ (m + 1 > n <=> m = n) /\ (m # n => m + 1 \in 1 .. n)
    OBVIOUS
  <2>1. CASE m = n
    <3>1. from[m + 1] = <<>>
      BY <2>0, <2>1, <1>5
    <3>2. /\ <<>> \in Seq(m + 1 .. n) /\ \A k \in 1 .. Len(<<>>) - 1 : <<>>[k] < <<>>[k + 1]
          /\ ~(m + 1 <= n)
      BY <2>1
    <3>3. Cuts(from[m + 1], m + 1, n)
      BY <3>1, <3>2 DEF Cuts
    <3> QED BY <3>3
  <2>2. CASE m # n
    <3>1. Stop(m + 1) \in m + 1 .. n /\ from[m + 1] = <<Stop(m + 1)>> \o from[Stop(m + 1) + 1]
      BY <2>0, <2>2, <1>1, <1>5
    <3>2. Cuts(from[Stop(m + 1) + 1], Stop(m + 1) + 1, n)
      BY <3>1, <1>6
    <3>3. Cuts(from[m + 1], m + 1, n)
      BY <2>0, <2>2, <3>1, <3>2, CutsNext
    <3> QED BY <3>3
  <2> QED BY <2>1, <2>2
<1>7. \A m \in 0 .. n : m \in T
  <2> HIDE DEF T
  <2> QED BY <1>6, Downwards
<1>8. Cuts(from[0 + 1], 0 + 1, n)
  <2>1. 0 \in 0 .. n
    OBVIOUS
  <2> QED BY <2>1, <1>7
<1> QED BY <1>2, <1>8

(* Without the last but one they still cover them.                         *)
LEMMA CutsJoin ==
  ASSUME NEW n \in Nat, NEW e, Cuts(e, 1, n), Len(e) > 1
  PROVE  Cuts(RemoveAt(e, Len(e) - 1), 1, n)
<1> DEFINE k == Len(e)
           a == SubSeq(e, 1, (k - 1) - 1)
           b == SubSeq(e, (k - 1) + 1, k)
           d == a \o b
<1>1. e \in Seq(1 .. n) /\ \A m \in 1 .. k - 1 : e[m] < e[m + 1]
  BY DEF Cuts
<1>2. k \in Nat /\ k >= 2
  BY <1>1
<1>3. n \in 1 .. n /\ e[k] = n
  <2>1. 1 \in 1 .. k
    BY <1>2
  <2>2. e[1] \in 1 .. n
    BY <1>1, <2>1, ElementOfSeq
  <2> QED BY <2>2 DEF Cuts
<1>4. RemoveAt(e, k - 1) = d
  BY DEF RemoveAt
<1>5. a \in Seq(1 .. n) /\ Len(a) = k - 2 /\ \A i \in 1 .. k - 2 : a[i] = e[i]
  <2> HIDE DEF k
  <2>1. 1 \in Nat \ {0} /\ (k - 1) - 1 \in 0 .. k
    BY <1>2
  <2>2. /\ a \in Seq(1 .. n) /\ Len(a) = IF 1 <= (k - 1) - 1 THEN (k - 1) - 1 - 1 + 1 ELSE 0
        /\ \A i \in 1 .. (k - 1) - 1 - 1 + 1 : a[i] = e[1 + i - 1]
    BY <1>1, <2>1, StretchType DEF k
  <2> HIDE DEF a
  <2>3. \A i \in 1 .. k - 2 : i \in 1 .. (k - 1) - 1 - 1 + 1 /\ 1 + i - 1 = i
    BY <1>2
  <2> QED BY <1>2, <2>2, <2>3
<1>6. b \in Seq(1 .. n) /\ Len(b) = 1 /\ b[1] = n
  <2> HIDE DEF k
  <2>1. (k - 1) + 1 = k /\ k \in Nat \ {0} /\ k \in 0 .. k /\ k - k + 1 = 1 /\ k + 1 - 1 = k /\ 1 \in 1 .. k - k + 1
    BY <1>2
  <2>2. b = SubSeq(e, k, k)
    BY <2>1
  <2>3. /\ b \in Seq(1 .. n) /\ Len(b) = IF k <= k THEN k - k + 1 ELSE 0
        /\ \A i \in 1 .. k - k + 1 : b[i] = e[k + i - 1]
    BY <1>1, <2>1, <2>2, StretchType DEF k
  <2> HIDE DEF b
  <2> QED BY <1>3, <2>1, <2>3
<1> HIDE DEF a, b
<1>7. /\ d \in Seq(1 .. n) /\ Len(d) = k - 1
      /\ \A i \in 1 .. k - 1 : d[i] = IF i <= k - 2 THEN e[i] ELSE n
  <2> HIDE DEF k
  <2>1. d \in Seq(1 .. n) /\ Len(d) = (k - 2) + 1
        /\ \A i \in 1 .. (k - 2) + 1 : d[i] = IF i <= k - 2 THEN a[i] ELSE b[i - (k - 2)]
    <3>1. /\ d \in Seq(1 .. n) /\ Len(d) = Len(a) + Len(b)
          /\ \A i \in 1 .. Len(a) + Len(b) : d[i] = IF i <= Len(a) THEN a[i] ELSE b[i - Len(a)]
      BY <1>5, <1>6, ConcatProperties
    <3> HIDE DEF d
    <3> QED BY <3>1, <1>5, <1>6
  <2> HIDE DEF d
  <2>2. ASSUME NEW i \in 1 .. k - 1 PROVE d[i] = IF i <= k - 2 THEN e[i] ELSE n
    <3>1. i \in 1 .. (k - 2) + 1
      BY <1>2
    <3>2. CASE i <= k - 2
      <4>1. i \in 1 .. k - 2
        BY <3>2, <1>2
      <4> QED BY <3>1, <3>2, <4>1, <2>1, <1>5
    <3>3. CASE ~(i <= k - 2)
      <4>1. i - (k - 2) = 1
        BY <3>3, <1>2
      <4> QED BY <3>1, <3>3, <4>1, <2>1, <1>6
    <3> QED BY <3>2, <3>3
  <2> QED BY <1>2, <2>1, <2>2
<1> HIDE DEF d, k
<1>8. ASSUME NEW m \in 1 .. Len(d) - 1 PROVE d[m] < d[m + 1]
  <2>1. m \in 1 .. k - 1 /\ m + 1 \in 1 .. k - 1 /\ m <= k - 2 /\ (m + 1 <= k - 2 \/ m = k - 2)
    BY <1>2, <1>7
  <2>2. d[m] = e[m] /\ e[m] < e[m + 1]
    BY <2>1, <1>1, <1>7
  <2>3. CASE m + 1 <= k - 2
    BY <2>1, <2>2, <2>3, <1>7
  <2>4. CASE m = k - 2
    <3>1. d[m + 1] = n
      BY <2>1, <2>4, <1>2, <1>7
    <3>2. m + 1 \in 1 .. k - 1 /\ (m + 1) + 1 = k /\ m + 1 \in 1 .. Len(e) /\ m \in 1 .. Len(e)
      BY <2>1, <2>4, <1>2 DEF k
    <3>3. e[m + 1] < e[(m + 1) + 1]
      BY <3>2, <1>1
    <3>4. e[m] \in 1 .. n /\ e[m + 1] \in 1 .. n
      BY <3>2, <1>1, ElementOfSeq
    <3> QED BY <2>2, <3>1, <3>2, <3>3, <3>4, <1>3
  <2> QED BY <2>1, <2>3, <2>4
<1>9. d # <<>> /\ d[Len(d)] = n
  <2>1. Len(d) \in 1 .. k - 1 /\ ~(Len(d) <= k - 2) /\ Len(d) # 0
    BY <1>2, <1>7
  <2> QED BY <2>1, <1>7
<1>10. Cuts(d, 1, n)
  BY <1>7, <1>8, <1>9 DEF Cuts
<1> QED BY <1>4, <1>10 DEF k

(* The chunks of a text say what it says.                                  *)
LEMMA SplitSentencesNeat ==
  ASSUME NEW s \in Seq(Tokens)
  PROVE  /\ SplitSentences(s) \in Seq(Neat)
         /\ Visible(FlattenSeq(SplitSentences(s))) = Visible(s)
<1> DEFINE r == RawSentences(s)
           n == Len(r)
           e == IF TailJoins(r, Stops(r)) THEN RemoveAt(Stops(r), Len(Stops(r)) - 1) ELSE Stops(r)
           To(m) == IF m = 0 THEN 0 ELSE e[m]
           c == [m \in DOMAIN e |-> Joined(r, (IF m = 1 THEN 0 ELSE e[m - 1]) + 1, e[m])]
<1>1. SplitSentences(s) = c
  BY DEF SplitSentences
<1>2. r \in Seq(Neat) /\ Visible(FlattenSeq(r)) = Visible(s)
  BY RawSentencesNeat
<1> HIDE DEF r
<1>3. n \in Nat /\ FlattenSeq(r) = Sum(r, n)
  BY <1>2, NeatTexts, FlattenSum
<1>4. Cuts(e, 1, n)
  <2>1. Cuts(Stops(r), 1, n)
    BY <1>3, StopsCut
  <2>2. TailJoins(r, Stops(r)) => Len(Stops(r)) > 1
    BY DEF TailJoins
  <2>3. TailJoins(r, Stops(r)) => Cuts(RemoveAt(Stops(r), Len(Stops(r)) - 1), 1, n)
    BY <1>3, <2>1, <2>2, CutsJoin
  <2> QED BY <2>1, <2>3
<1> HIDE DEF e, n
<1>5. /\ e \in Seq(1 .. n) /\ \A m \in 1 .. Len(e) - 1 : e[m] < e[m + 1]
      /\ 1 <= n => e # <<>> /\ e[Len(e)] = n
  BY <1>4 DEF Cuts
<1>6. /\ Len(e) \in Nat /\ DOMAIN e = 1 .. Len(e)
      /\ \A m \in 1 .. Len(e) : e[m] \in 1 .. n
  BY <1>5, ElementOfSeq, LenProperties
<1>7. ASSUME NEW m \in 1 .. Len(e)
      PROVE  /\ To(m - 1) \in Nat /\ To(m) = e[m] /\ e[m] \in To(m - 1) + 1 .. n
             /\ c[m] = Joined(r, To(m - 1) + 1, e[m])
  <2>1. c[m] = Joined(r, (IF m = 1 THEN 0 ELSE e[m - 1]) + 1, e[m])
    BY <1>6
  <2>2. CASE m = 1
    BY <2>1, <2>2, <1>6
  <2>3. CASE m # 1
    <3>1. m - 1 \in 1 .. Len(e) - 1 /\ m - 1 \in 1 .. Len(e) /\ (m - 1) + 1 = m /\ m - 1 # 0
      BY <2>3, <1>6
    <3>2. e[m - 1] < e[(m - 1) + 1]
      BY <3>1, <1>5
    <3>3. e[m - 1] \in 1 .. n /\ e[m] \in 1 .. n
      BY <3>1, <1>6
    <3> QED BY <2>1, <2>3, <3>1, <3>2, <3>3, <1>3
  <2> QED BY <2>2, <2>3
<1> HIDE DEF To
<1>8. ASSUME NEW m \in 1 .. Len(e)
      PROVE  /\ c[m] \in Neat
             /\ Visible(Sum(r, To(m))) = Visible(Sum(r, To(m - 1))) \o Visible(c[m])
  <2> HIDE DEF c
  <2>1. To(m - 1) \in Nat /\ e[m] \in To(m - 1) + 1 .. Len(r)
    BY <1>7 DEF n
  <2>2. /\ Joined(r, To(m - 1) + 1, e[m]) \in Neat
        /\ Visible(Sum(r, e[m])) = Visible(Sum(r, To(m - 1))) \o Visible(Joined(r, To(m - 1) + 1, e[m]))
    BY <1>2, <2>1, JoinedNeat
  <2> QED BY <2>2, <1>7
<1>9. c \in Seq(Neat) /\ Len(c) = Len(e)
  <2>1. DOMAIN c = 1 .. Len(e) /\ c = [m \in 1 .. Len(e) |-> c[m]]
    BY <1>6
  <2> HIDE DEF c
  <2>2. c \in [1 .. Len(e) -> Neat]
    BY <2>1, <1>8
  <2> QED BY <2>2, <1>6, IsSeq
<1> HIDE DEF c
<1>10. FlattenSeq(c) = Sum(c, Len(e)) /\ Texts(c, Len(e))
  <2>1. c \in Seq(Seq(Tokens))
    BY <1>9, NeatTexts
  <2> QED BY <2>1, <1>9, FlattenSum
<1> DEFINE T == {m \in 0 .. Len(e) : Visible(Sum(c, m)) = Visible(Sum(r, To(m)))}
<1>11. 0 \in T
  <2>1. To(0) = 0
    BY DEF To
  <2> QED BY <2>1, <1>6, SumZero
<1>12. ASSUME NEW m \in 0 .. Len(e) - 1, m \in T PROVE m + 1 \in T
  <2>1. /\ m \in Nat /\ m + 1 \in 1 .. Len(e) /\ m + 1 \in 0 .. Len(e) /\ (m + 1) - 1 = m
        /\ Texts(c, m + 1)
    BY <1>6, <1>10 DEF Texts
  <2>2. /\ Sum(c, m + 1) = Sum(c, m) \o c[m + 1] /\ Sum(c, m) \in Seq(Tokens)
        /\ c[m + 1] \in Seq(Tokens)
    BY <2>1, SumNext
  <2>3. Visible(Sum(c, m + 1)) = Visible(Sum(c, m)) \o Visible(c[m + 1])
    BY <2>2, VisibleCat
  <2>4. Visible(Sum(r, To(m + 1))) = Visible(Sum(r, To((m + 1) - 1))) \o Visible(c[m + 1])
    BY <2>1, <1>8
  <2>5. Visible(Sum(c, m)) = Visible(Sum(r, To(m)))
    BY <1>12
  <2>6. Visible(Sum(c, m + 1)) = Visible(Sum(r, To(m + 1)))
    BY <2>1, <2>3, <2>4, <2>5
  <2> QED BY <2>1, <2>6
<1>13. Visible(Sum(c, Len(e))) = Visible(Sum(r, To(Len(e))))
  <2>1. \A m \in 0 .. Len(e) : m \in T
    <3> HIDE DEF T
    <3> QED BY <1>6, <1>11, <1>12, Upwards
  <2>2. Len(e) \in 0 .. Len(e)
    BY <1>6
  <2> QED BY <2>1, <2>2
<1>14. To(Len(e)) = n
  <2>1. CASE n = 0
    <3>1. Len(e) = 0
      <4> SUFFICES ASSUME Len(e) # 0 PROVE FALSE
        OBVIOUS
      <4>1. 1 \in 1 .. Len(e)
        BY <1>6
      <4>2. e[1] \in 1 .. n
        BY <4>1, <1>6
      <4> QED BY <4>2, <2>1
    <3> QED BY <2>1, <3>1 DEF To
  <2>2. CASE n # 0
    <3>1. e # <<>> /\ e[Len(e)] = n
      BY <2>2, <1>3, <1>5
    <3>2. Len(e) # 0
      BY <3>1, <1>5, EmptySeq
    <3> QED BY <3>1, <3>2 DEF To
  <2> QED BY <2>1, <2>2
<1> QED BY <1>1, <1>2, <1>3, <1>9, <1>10, <1>13, <1>14

(***************************************************************************)
(* IV.  The sentences.                                                     *)
(***************************************************************************)
SpeechInv ==
  /\ StreamInv
  /\ buf \in Seq(Tokens) /\ sent \in Seq(Neat) /\ shown \in Seq(Tokens)
  /\ phase = "ask" => buf = <<>> /\ sent = <<>>
  /\ phase # "closed" => shown = <<>>
  /\ phase = "closed" => buf = <<>> /\ (shown = <<>> \/ Visible(shown) = Visible(told))
  /\ mode = "analysis" => phase # "reading" /\ told \in Translations \cup {<<>>}
  /\ Visible(told) = Visible(FlattenSeq(sent)) \o Visible(buf)

LEMMA SpeechStarts == Init => SpeechInv
<1> SUFFICES ASSUME Init PROVE SpeechInv
  OBVIOUS
<1>1. StreamInv
  BY StreamStarts
<1>2. <<>> \in Seq(Neat)
  OBVIOUS
<1> QED BY <1>1, <1>2, FlattenNone, VisibleEmpty, ConcatTokens DEF Init, SpeechInv

(* The texts of a state with the invariant.                                *)
LEMMA SpeechTypes ==
  ASSUME SpeechInv
  PROVE  /\ told \in Seq(Tokens) /\ buf \in Seq(Tokens) /\ sent \in Seq(Neat)
         /\ FlattenSeq(sent) \in Seq(Tokens)
         /\ Visible(FlattenSeq(sent)) \in Seq(Tokens) /\ Visible(buf) \in Seq(Tokens)
         /\ Visible(told) \in Seq(Tokens)
<1>1. told \in Seq(Tokens) /\ buf \in Seq(Tokens) /\ sent \in Seq(Neat)
  BY DEF SpeechInv, StreamInv, StreamTypes
<1>2. FlattenSeq(sent) \in Seq(Tokens)
  BY <1>1, NeatTexts, FlattenSum
<1> QED BY <1>1, <1>2, VisibleSum

(* A whole text arrives.                                                   *)
LEMMA DeliverSays ==
  ASSUME SpeechInv, StreamInv', NEW d \in Seq(Tokens), Deliver(d), phase = "ask",
         mode = "analysis" => d \in Translations
  PROVE  SpeechInv'
<1>1. /\ phase' = "over" /\ told' = d /\ buf' = d /\ sent' = sent /\ shown' = shown /\ mode' = mode
  BY DEF Deliver
<1>2. sent = <<>> /\ shown = <<>>
  BY DEF SpeechInv
<1>3. Visible(d) = Visible(FlattenSeq(<<>>)) \o Visible(d)
  BY VisibleSum, FlattenNone, VisibleEmpty, ConcatTokens
<1> QED BY <1>1, <1>2, <1>3 DEF SpeechInv

(* The steps that leave text, messages and mode as they are, and end at    *)
(* most the call.                                                          *)
LEMMA QuietSays ==
  ASSUME SpeechInv, StreamInv', UNCHANGED <<mode, told, buf, sent, shown>>,
         phase' \in {phase, "over"} \/ (phase' = "reading" /\ mode # "analysis"), phase # "closed"
  PROVE  SpeechInv'
<1>1. phase' # "closed" /\ (phase' = "ask" => phase = "ask") /\ (phase' = "reading" /\ mode = "analysis" => phase = "reading")
  OBVIOUS
<1> QED BY <1>1 DEF SpeechInv

(* A delta.                                                                *)
LEMMA EventSays == ASSUME SpeechInv, StreamInv', Event PROVE SpeechInv'
<1> DEFINE e == bytes[1]
<1>1. /\ UNCHANGED <<mode, sent, shown>> /\ phase = "reading" /\ Whole
      /\ \/ e = Done /\ phase' = "over" /\ UNCHANGED <<told, buf>>
         \/ e # Done /\ phase' = phase /\ told' = told \o e.text /\ buf' = buf \o e.text
  BY DEF Event
<1>2. e \in Payloads
  BY <1>1, FirstPair DEF SpeechInv
<1> HIDE DEF e
<1>3. CASE e = Done
  BY <1>1, <1>3, QuietSays
<1>4. CASE e # Done
  <2>1. phase' = phase /\ told' = told \o e.text /\ buf' = buf \o e.text /\ e.text \in Seq(Tokens)
    BY <1>1, <1>2, <1>4, PayloadText
  <2>2. Visible(told') = Visible(told) \o Visible(e.text) /\ Visible(buf') = Visible(buf) \o Visible(e.text)
    BY <2>1, SpeechTypes, VisibleCat
  <2>3. (Visible(FlattenSeq(sent)) \o Visible(buf)) \o Visible(e.text)
          = Visible(FlattenSeq(sent)) \o (Visible(buf) \o Visible(e.text))
    <3>1. /\ Visible(FlattenSeq(sent)) \in Seq(Tokens) /\ Visible(buf) \in Seq(Tokens)
          /\ Visible(e.text) \in Seq(Tokens)
      BY <2>1, SpeechTypes, VisibleSum
    <3> QED BY <3>1, ConcatTokens
  <2>4. Visible(told) = Visible(FlattenSeq(sent)) \o Visible(buf)
    BY DEF SpeechInv
  <2>5. Visible(told') = Visible(FlattenSeq(sent')) \o Visible(buf')
    BY <1>1, <2>2, <2>3, <2>4
  <2>6. buf' \in Seq(Tokens)
    BY <2>1, SpeechTypes, ConcatTokens
  <2> QED BY <1>1, <2>1, <2>5, <2>6 DEF SpeechInv
<1> QED BY <1>3, <1>4

(* A sentence moves from the buffer to the messages.                       *)
LEMMA PopSays == ASSUME SpeechInv, StreamInv', Pop PROVE SpeechInv'
<1>1. PICK n \in DOMAIN buf : sent' = sent \o Spoken(Before(buf, n)) /\ buf' = Remainder(n)
  BY DEF Pop
<1>2. UNCHANGED <<mode, phase, told, shown>> /\ buf # <<>>
  BY <1>1 DEF Pop
<1> DEFINE b == Before(buf, n)
           a == After(buf, n)
<1>3. b \in Seq(Tokens) /\ a \in Seq(Tokens) /\ b \o a = buf
  <2>1. n \in 0 .. Len(buf)
    BY SpeechTypes
  <2> QED BY <2>1, SpeechTypes, BeforeAfter
<1>4. Visible(buf) = Visible(b) \o Visible(a)
  BY <1>3, VisibleCat
<1> HIDE DEF a, b
<1>5. sent' \in Seq(Neat) /\ Visible(FlattenSeq(sent')) = Visible(FlattenSeq(sent)) \o Visible(b)
  <2>1. sent' = sent \o Spoken(b)
    BY <1>1 DEF b
  <2> QED BY <2>1, <1>3, SpeechTypes, SpokenNext
<1>6. buf' \in Seq(Tokens) /\ Visible(buf') = Visible(a)
  <2>1. buf' = TrimStart(a)
    BY <1>1 DEF Remainder, a
  <2> QED BY <2>1, <1>3, TrimType, VisibleTrim
<1>7. (Visible(FlattenSeq(sent)) \o Visible(b)) \o Visible(a) = Visible(FlattenSeq(sent)) \o (Visible(b) \o Visible(a))
  <2>1. /\ Visible(FlattenSeq(sent)) \in Seq(Tokens) /\ Visible(a) \in Seq(Tokens)
        /\ Visible(b) \in Seq(Tokens)
    BY <1>3, SpeechTypes, VisibleSum
  <2> QED BY <2>1, ConcatTokens
<1>8. Visible(told) = Visible(FlattenSeq(sent)) \o Visible(buf) /\ phase # "ask" /\ phase # "closed"
  BY <1>2 DEF SpeechInv
<1>9. Visible(told') = Visible(FlattenSeq(sent')) \o Visible(buf')
  BY <1>2, <1>4, <1>5, <1>6, <1>7, <1>8
<1> QED BY <1>2, <1>5, <1>6, <1>8, <1>9 DEF SpeechInv

(* The rest is the last message.                                           *)
LEMMA CloseSays == ASSUME SpeechInv, StreamInv', Close PROVE SpeechInv'
<1>1. /\ sent' = sent \o Spoken(buf) /\ shown' = (IF result = "none" THEN <<>> ELSE Trim(told))
      /\ phase' = "closed" /\ buf' = <<>> /\ UNCHANGED <<mode, told>> /\ mode # "analysis"
  BY DEF Close
<1>2. sent' \in Seq(Neat) /\ Visible(FlattenSeq(sent')) = Visible(FlattenSeq(sent)) \o Visible(buf)
  BY <1>1, SpeechTypes, SpokenNext
<1>3. <<>> \in Seq(Tokens) /\ Trim(told) \in Seq(Tokens) /\ Visible(Trim(told)) = Visible(told)
  BY SpeechTypes, TrimType, VisibleTrim, VisibleEmpty
<1>4. Visible(told) = Visible(FlattenSeq(sent')) \o Visible(<<>>)
  <2>1. Visible(told) = Visible(FlattenSeq(sent')) /\ Visible(told) \in Seq(Tokens)
    BY <1>2, SpeechTypes DEF SpeechInv
  <2> QED BY <2>1, VisibleEmpty, ConcatTokens
<1> QED BY <1>1, <1>2, <1>3, <1>4 DEF SpeechInv

(* The chunks of an analysis.                                              *)
LEMMA CloseBulkSays == ASSUME SpeechInv, StreamInv', CloseBulk PROVE SpeechInv'
<1>1. PICK streaming \in BOOLEAN : sent' = TtsChunks(told, streaming)
  BY DEF CloseBulk
<1>2. /\ shown' = Trim(told) /\ phase' = "closed" /\ buf' = <<>> /\ UNCHANGED <<mode, told>>
      /\ mode = "analysis"
  BY DEF CloseBulk
<1>3. told \in Translations \cup {<<>>} /\ told \in Seq(Tokens)
  BY <1>2, SpeechTypes DEF SpeechInv
<1>4. Trim(told) \in Seq(Tokens) /\ Visible(Trim(told)) = Visible(told)
  BY <1>3, TrimType, VisibleTrim
<1>5. sent' \in Seq(Neat) /\ Visible(FlattenSeq(sent')) = Visible(told)
  <2>1. CASE streaming
    <3>1. sent' = SplitSentences(Trim(told))
      BY <1>1, <1>3, <2>1 DEF TtsChunks, Chunked
    <3> QED BY <3>1, <1>4, SplitSentencesNeat
  <2>2. CASE ~streaming
    <3>1. sent' = Spoken(told)
      BY <1>1, <2>2 DEF TtsChunks
    <3> QED BY <3>1, <1>3, SpokenNeat
  <2> QED BY <2>1, <2>2
<1>6. Visible(told) = Visible(FlattenSeq(sent')) \o Visible(<<>>)
  BY <1>3, <1>5, VisibleSum, VisibleEmpty, ConcatTokens
<1> QED BY <1>2, <1>3, <1>4, <1>5, <1>6, VisibleEmpty DEF SpeechInv

(* Every step.                                                             *)
LEMMA SpeechStep == SpeechInv /\ [Next]_vars => SpeechInv'
<1> SUFFICES ASSUME SpeechInv, [Next]_vars PROVE SpeechInv'
  OBVIOUS
<1>0. StreamInv'
  BY StreamStep DEF SpeechInv
<1>1. CASE UNCHANGED vars
  BY <1>0, <1>1 DEF vars, SpeechInv
<1>2. CASE OpenSse
  <2>1. UNCHANGED <<mode, told, buf, sent, shown>> /\ phase' = "reading" /\ mode # "analysis" /\ phase # "closed"
    BY <1>2 DEF OpenSse
  <2> QED BY <1>0, <2>1, QuietSays
<1>3. CASE PlainBody
  <2>1. PICK d \in Answers : Deliver(d)
    BY <1>3 DEF PlainBody
  <2>2. d \in Seq(Tokens) /\ phase = "ask" /\ mode # "analysis"
    BY <1>3, TextAssumption DEF PlainBody
  <2> QED BY <1>0, <2>1, <2>2, DeliverSays
<1>4. CASE Translated \/ TranslatedNmt
  <2>1. PICK d \in Answers : Deliver(Trim(d))
    BY <1>4 DEF Translated, TranslatedNmt
  <2>2. Trim(d) \in Seq(Tokens) /\ phase = "ask" /\ mode # "analysis"
    BY <1>4, TextAssumption, TrimType DEF Translated, TranslatedNmt
  <2> QED BY <1>0, <2>1, <2>2, DeliverSays
<1>5. CASE Analyzed
  <2>1. PICK d \in Translations : Deliver(d)
    BY <1>5 DEF Analyzed
  <2>2. d \in Seq(Tokens) /\ phase = "ask"
    BY <1>5, TextAssumption DEF Analyzed
  <2> QED BY <1>0, <2>1, <2>2, DeliverSays
<1>6. CASE AskFails \/ Timeout \/ Eof \/ Break
  <2>1. UNCHANGED <<mode, told, buf, sent, shown>> /\ phase # "closed" /\ phase' \in {phase, "over"}
    BY <1>6 DEF AskFails, Timeout, TimesOut, NextAttempt, Eof, Break, Awaits
  <2> QED BY <1>0, <2>1, QuietSays
<1>7. ASSUME NEW e \in Payloads, Write(e) PROVE SpeechInv'
  <2>1. UNCHANGED <<mode, told, buf, sent, shown>> /\ phase # "closed" /\ phase' = phase
    BY <1>7 DEF Write
  <2> QED BY <1>0, <2>1, QuietSays
<1>8. ASSUME NEW n \in 1 .. MaxWire, Piece(n) PROVE SpeechInv'
  <2>1. UNCHANGED <<mode, told, buf, sent, shown>> /\ phase # "closed" /\ phase' = phase
    BY <1>8 DEF Piece, Awaits
  <2> QED BY <1>0, <2>1, QuietSays
<1>9. CASE Event
  BY <1>0, <1>9, EventSays
<1>10. CASE Pop
  BY <1>0, <1>10, PopSays
<1>11. CASE Close
  BY <1>0, <1>11, CloseSays
<1>12. CASE CloseBulk
  BY <1>0, <1>12, CloseBulkSays
<1> QED BY <1>1, <1>2, <1>3, <1>4, <1>5, <1>6, <1>7, <1>8, <1>9, <1>10, <1>11, <1>12 DEF Next

(* The invariant of the sentences.                                         *)
THEOREM SpeechInvariance == Spec => []SpeechInv
BY SpeechStarts, SpeechStep, PTL DEF Spec

(* Variables and messages keep their types: a message is never blank and   *)
(* has no white space at its ends (run_streaming_speak, raw_sentences).    *)
THEOREM TypeCorrect == Spec => []TypeOK
<1>1. SpeechInv => TypeOK
  <2> SUFFICES ASSUME SpeechInv PROVE TypeOK
    OBVIOUS
  <2>1. StreamTypes /\ buf \in Seq(Tokens) /\ sent \in Seq(Neat) /\ shown \in Seq(Tokens)
    BY DEF SpeechInv, StreamInv
  <2>2. ASSUME NEW i \in DOMAIN sent
        PROVE  sent[i] \in Seq(Tokens) /\ sent[i] = Trim(sent[i]) /\ sent[i] # <<>>
    <3>1. sent[i] \in Neat
      BY <2>1, LenProperties, ElementOfSeq
    <3> QED BY <3>1 DEF Neat
  <2> QED BY <2>1, <2>2 DEF TypeOK, StreamTypes, Signs
<1> QED BY <1>1, SpeechInvariance, PTL

(* What is streamed or translated is spoken or still in the buffer, in its *)
(* order, but for white space; and what the Debug frame shows, if it shows *)
(* a text, is what is spoken (run_streaming_speak, pop_first_sentence,     *)
(* split_sentences).                                                       *)
THEOREM NothingLostCorrect == Spec => []NothingLost
<1>1. SpeechInv => NothingLost
  <2> SUFFICES ASSUME SpeechInv PROVE NothingLost
    OBVIOUS
  <2>1. Visible(told) = Visible(FlattenSeq(sent)) \o Visible(buf)
    BY DEF SpeechInv
  <2>2. Visible(FlattenSeq(sent) \o buf) = Visible(told)
    BY <2>1, SpeechTypes, VisibleCat
  <2>3. ASSUME phase = "closed", shown # <<>> PROVE Visible(shown) = Visible(FlattenSeq(sent))
    <3>1. buf = <<>> /\ Visible(shown) = Visible(told)
      BY <2>3 DEF SpeechInv
    <3> QED BY <2>1, <3>1, SpeechTypes, VisibleEmpty, ConcatTokens
  <2> QED BY <2>2, <2>3 DEF NothingLost
<1> QED BY <1>1, SpeechInvariance, PTL

(***************************************************************************)
(* V.  The two scans.                                                      *)
(***************************************************************************)

(* A sentence has one end.                                                 *)
LEMMA OneEnd ==
  ASSUME NEW s \in Seq(Tokens), NEW ends \in SUBSET (DOMAIN s), NEW j \in DOMAIN s, Ended(s, j, ends)
  PROVE  FirstEnd(s, ends) = j
<1>1. DOMAIN s = 1 .. Len(s) /\ Len(s) \in Nat
  OBVIOUS
<1>2. ASSUME NEW x \in DOMAIN s, NEW y \in DOMAIN s, Ended(s, x, ends), Ended(s, y, ends)
      PROVE  ~(x < y)
  <2> SUFFICES ASSUME x < y PROVE FALSE
    OBVIOUS
  <2>1. PICK i \in ends : /\ i <= x /\ \A k \in ends : i <= k
                          /\ \A n \in i + 1 .. x : s[n] = Quote
    BY <1>2 DEF Ended
  <2>2. PICK l \in ends : /\ l <= y /\ \A k \in ends : l <= k
                          /\ \A n \in l + 1 .. y : s[n] = Quote
    BY <1>2 DEF Ended
  <2>3. i \in Nat /\ l \in Nat /\ i = l /\ x \in Nat /\ y \in Nat
    <3>1. i \in 1 .. Len(s) /\ l \in 1 .. Len(s) /\ x \in 1 .. Len(s) /\ y \in 1 .. Len(s)
      BY <1>1
    <3>2. i <= l /\ l <= i
      BY <2>1, <2>2
    <3> QED BY <3>1, <3>2
  <2>4. x + 1 \in l + 1 .. y /\ x + 1 \in DOMAIN s
    BY <1>1, <2>1, <2>3
  <2>5. s[x + 1] = Quote
    BY <2>2, <2>4
  <2> QED BY <1>2, <2>4, <2>5 DEF Ended, At
<1>3. ends # {}
  BY DEF Ended
<1> DEFINE f == CHOOSE x \in DOMAIN s : Ended(s, x, ends)
<1>4. f \in DOMAIN s /\ Ended(s, f, ends) /\ FirstEnd(s, ends) = f
  BY <1>3 DEF FirstEnd
<1> HIDE DEF f
<1>5. ~(f < j) /\ ~(j < f)
  BY <1>2, <1>4
<1>6. f \in Nat /\ j \in Nat
  BY <1>1, <1>4
<1> QED BY <1>4, <1>5, <1>6

(* The ends of sentences, and the sentences from each position on.         *)
Ends(s) == {i \in DOMAIN s : EndsSentence(s, i)}

(* The sentences of a text are its first one and those of the rest.        *)
LEMMA RawNext ==
  ASSUME NEW s \in Seq(Tokens)
  PROVE  LET e == FirstEnd(s, Ends(s))
         IN RawSentences(s) = IF e = 0 THEN Spoken(s) ELSE Spoken(Before(s, e)) \o RawSentences(After(s, e))
<1> DEFINE Raw(f, t) == f = [k \in 0 .. Len(t) |-> Rest(t, k, f)]
           raw(t)    == CHOOSE f : Raw(f, t)
<1>1. ASSUME NEW t \in Seq(Tokens)
      PROVE  RawSentences(t) = raw(t)[0] /\ \A k \in 0 .. Len(t) : raw(t)[k] = Rest(t, k, raw(t))
  <2>1. RawSentences(t) = raw(t)[0]
    BY DEF RawSentences, Rest, EndAfter
  <2>2. \E f : Raw(f, t)
    BY RawExists
  <2>3. Raw(raw(t), t)
    BY <2>2
  <2> DEFINE h == raw(t)
  <2>4. h = [k \in 0 .. Len(t) |-> Rest(t, k, h)]
    BY <2>3
  <2> HIDE DEF h
  <2>5. \A k \in 0 .. Len(t) : h[k] = Rest(t, k, h)
    BY <2>4
  <2> QED BY <2>1, <2>5 DEF h
<1> HIDE DEF raw
<1> DEFINE e == FirstEnd(s, Ends(s))
           u == After(s, e)
<1>2. After(s, 0) = s /\ Len(s) \in Nat
  BY SubSeqFull DEF After
<1>3. EndAfter(s, 0) = e
  BY <1>2 DEF EndAfter, Ends
<1> HIDE DEF e
<1>4. RawSentences(s) = IF e = 0 THEN Spoken(s) ELSE Spoken(Before(s, e)) \o raw(s)[e]
  <2>1. 0 \in 0 .. Len(s) /\ 0 + e = e
    BY <1>2, <1>3, EndAfterType
  <2>2. raw(s)[0] = Rest(s, 0, raw(s))
    BY <1>1, <2>1
  <2> QED BY <1>1, <1>2, <1>3, <2>1, <2>2 DEF Rest
<1>5. e \in 0 .. Len(s) /\ u \in Seq(Tokens) /\ Len(u) = Len(s) - e
  <2>1. 0 \in 0 .. Len(s)
    BY <1>2
  <2>2. 0 + e \in 0 .. Len(s) /\ e \in 0 .. Len(s)
    BY <1>2, <1>3, <2>1, EndAfterType
  <2> QED BY <2>2, BeforeAfter
<1> HIDE DEF u
<1> DEFINE T == {k \in 0 .. Len(u) : raw(u)[k] = raw(s)[e + k]}
<1>6. ASSUME NEW k \in 0 .. Len(u), \A j \in k + 1 .. Len(u) : j \in T PROVE k \in T
  <2>1. e + k \in 0 .. Len(s) /\ After(s, e + k) = After(u, k)
    <3>1. k \in 0 .. Len(s) - e
      BY <1>5
    <3> QED BY <3>1, <1>5, AfterAfter DEF u
  <2>2. EndAfter(s, e + k) = EndAfter(u, k)
    BY <2>1 DEF EndAfter
  <2>3. raw(u)[k] = Rest(u, k, raw(u)) /\ raw(s)[e + k] = Rest(s, e + k, raw(s))
    BY <1>1, <1>5, <2>1
  <2>4. CASE EndAfter(u, k) = 0
    BY <2>1, <2>2, <2>3, <2>4 DEF Rest
  <2>5. CASE EndAfter(u, k) # 0
    <3>1. EndAfter(u, k) \in Nat /\ k + EndAfter(u, k) \in 0 .. Len(u)
      <4>1. EndAfter(u, k) \in 0 .. Len(After(u, k)) /\ k + EndAfter(u, k) \in 0 .. Len(u)
        BY <1>5, EndAfterType
      <4>2. Len(After(u, k)) = Len(u) - k
        BY <1>5, BeforeAfter
      <4> QED BY <4>1, <4>2, <1>5
    <3>2. k + EndAfter(u, k) \in k + 1 .. Len(u) /\ (e + k) + EndAfter(u, k) = e + (k + EndAfter(u, k))
      BY <2>5, <3>1, <1>5
    <3>3. raw(u)[k + EndAfter(u, k)] = raw(s)[e + (k + EndAfter(u, k))]
      BY <3>2, <1>6
    <3> QED BY <2>1, <2>2, <2>3, <2>5, <3>2, <3>3 DEF Rest
  <2> QED BY <2>4, <2>5
<1>7. \A k \in 0 .. Len(u) : k \in T
  <2>1. Len(u) \in Nat
    BY <1>5
  <2> HIDE DEF T
  <2> QED BY <1>6, <2>1, Downwards
<1>8. raw(u)[0] = raw(s)[e]
  <2>1. 0 \in 0 .. Len(u) /\ e + 0 = e
    BY <1>5
  <2> QED BY <1>7, <2>1
<1> QED BY <1>1, <1>4, <1>5, <1>8 DEF e, u

-----------------------------------------------------------------------------
(* White space in front.                                                   *)
LEMMA TrimOne ==
  ASSUME NEW s \in Seq(Tokens), s # <<>>, s[1] \in White
  PROVE  Trim(s) = Trim(After(s, 1)) /\ TrimStart(s) = TrimStart(After(s, 1))
<1> DEFINE u == After(s, 1)
           n == Len(s)
<1>1. n \in Nat \ {0} /\ 1 \in 0 .. n /\ DOMAIN s = 1 .. n
  OBVIOUS
<1>2. u \in Seq(Tokens) /\ Len(u) = n - 1 /\ \A i \in 1 .. n - 1 : u[i] = s[1 + i]
  BY <1>1, BeforeAfter
<1>3. DOMAIN u = 1 .. n - 1
  BY <1>2
<1> HIDE DEF u, n
<1>4. Inked(s) = {i + 1 : i \in Inked(u)}
  <2>1. ASSUME NEW i \in Inked(s) PROVE i - 1 \in Inked(u) /\ i = (i - 1) + 1
    <3>1. i \in 1 .. n /\ s[i] \notin White
      BY <1>1 DEF Inked
    <3>2. i # 1
      BY <3>1
    <3>3. i - 1 \in 1 .. n - 1 /\ 1 + (i - 1) = i
      BY <1>1, <3>1, <3>2
    <3>4. u[i - 1] = s[i]
      BY <1>2, <3>3
    <3> QED BY <1>3, <3>1, <3>3, <3>4 DEF Inked
  <2>2. ASSUME NEW i \in Inked(u) PROVE i + 1 \in Inked(s)
    <3>1. i \in 1 .. n - 1 /\ u[i] \notin White
      BY <1>3 DEF Inked
    <3>2. i + 1 \in 1 .. n /\ s[1 + i] = u[i] /\ 1 + i = i + 1
      BY <1>1, <1>2, <3>1
    <3> QED BY <1>1, <3>1, <3>2 DEF Inked
  <2> QED BY <2>1, <2>2
<1>5. CASE Inked(u) = {}
  <2>1. Inked(s) = {}
    BY <1>4, <1>5
  <2> QED BY <2>1, <1>5 DEF Trim, TrimStart, u
<1>6. CASE Inked(u) # {}
  <2> DEFINE a == Min(Inked(u))
             b == Max(Inked(u))
             c == Min(Inked(s))
             d == Max(Inked(s))
  <2>1. Inked(s) # {}
    BY <1>4, <1>6
  <2>2. /\ a \in Inked(u) /\ b \in Inked(u) /\ \A i \in Inked(u) : a <= i /\ i <= b
        /\ a \in 1 .. n - 1 /\ b \in a .. n - 1
    BY <1>2, <1>6, InkedEnds
  <2>3. /\ c \in Inked(s) /\ d \in Inked(s) /\ \A i \in Inked(s) : c <= i /\ i <= d
        /\ c \in 1 .. n /\ d \in c .. n
    BY <2>1, InkedEnds DEF n
  <2>4. /\ Trim(s) = SubSeq(s, c, d) /\ TrimStart(s) = SubSeq(s, c, n)
        /\ Trim(u) = SubSeq(u, a, b) /\ TrimStart(u) = SubSeq(u, a, n - 1)
    BY <1>2, <1>6, <2>1 DEF Trim, TrimStart, n
  <2> HIDE DEF a, b, c, d
  <2>5. c = a + 1 /\ d = b + 1
    <3>1. PICK i \in Inked(u) : c = i + 1
      BY <1>4, <2>3
    <3>2. PICK j \in Inked(u) : d = j + 1
      BY <1>4, <2>3
    <3>3. i \in 1 .. n - 1 /\ j \in 1 .. n - 1
      BY <1>3 DEF Inked
    <3>4. a <= i /\ j <= b /\ c <= a + 1 /\ b + 1 <= d
      BY <1>4, <2>2, <2>3
    <3> QED BY <1>1, <2>2, <3>1, <3>2, <3>3, <3>4
  <2>6. ASSUME NEW x \in 1 .. n - 1, NEW y \in x .. n - 1
        PROVE  SubSeq(s, x + 1, y + 1) = SubSeq(u, x, y)
    <3> DEFINE p == SubSeq(s, x + 1, y + 1)
               q == SubSeq(u, x, y)
    <3>1. /\ p \in Seq(Tokens) /\ Len(p) = y - x + 1 /\ \A i \in 1 .. y - x + 1 : p[i] = s[x + i]
      <4>1. /\ x + 1 \in Nat \ {0} /\ y + 1 \in 0 .. Len(s) /\ x + 1 <= y + 1
            /\ (y + 1) - (x + 1) + 1 = y - x + 1
            /\ \A i \in 1 .. y - x + 1 : (x + 1) + i - 1 = x + i
        BY <1>1 DEF n
      <4> QED BY <4>1, StretchType
    <3>2. /\ q \in Seq(Tokens) /\ Len(q) = y - x + 1 /\ \A i \in 1 .. y - x + 1 : q[i] = u[x + i - 1]
      <4>1. x \in Nat \ {0} /\ y \in 0 .. Len(u) /\ x <= y
        BY <1>1, <1>2
      <4> QED BY <4>1, <1>2, StretchType
    <3> HIDE DEF p, q
    <3>3. ASSUME NEW i \in 1 .. y - x + 1 PROVE p[i] = q[i]
      <4>1. x + i - 1 \in 1 .. n - 1 /\ 1 + (x + i - 1) = x + i
        BY <1>1
      <4>2. u[x + i - 1] = s[x + i]
        BY <4>1, <1>2
      <4> QED BY <3>1, <3>2, <4>2
    <3>4. p = q
      BY <3>1, <3>2, <3>3, SeqEqual
    <3> QED BY <3>4 DEF p, q
  <2>7. a \in 1 .. n - 1 /\ b \in a .. n - 1 /\ n - 1 \in a .. n - 1 /\ (n - 1) + 1 = n
    BY <1>1, <2>2
  <2> QED BY <2>4, <2>5, <2>6, <2>7 DEF u
<1> QED BY <1>5, <1>6 DEF u

(* A text from its second character on.                                    *)
LEMMA AtOne ==
  ASSUME NEW s \in Seq(Tokens), s # <<>>
  PROVE  LET u == After(s, 1) IN
         /\ u \in Seq(Tokens) /\ Len(s) \in Nat \ {0} /\ Len(u) = Len(s) - 1
         /\ DOMAIN s = 1 .. Len(s) /\ DOMAIN u = 1 .. Len(s) - 1
         /\ \A i \in 1 .. Len(s) - 1 : u[i] = s[i + 1]
         /\ \A i \in Nat \ {0} : At(u, i) = At(s, i + 1)
<1> DEFINE u == After(s, 1)
<1>1. Len(s) \in Nat \ {0} /\ 1 \in 0 .. Len(s) /\ DOMAIN s = 1 .. Len(s)
  OBVIOUS
<1>2. u \in Seq(Tokens) /\ Len(u) = Len(s) - 1 /\ \A i \in 1 .. Len(s) - 1 : u[i] = s[1 + i]
  BY <1>1, BeforeAfter
<1> HIDE DEF u
<1>3. DOMAIN u = 1 .. Len(s) - 1
  BY <1>2
<1>4. \A i \in 1 .. Len(s) - 1 : u[i] = s[i + 1]
  <2>1. \A i \in 1 .. Len(s) - 1 : 1 + i = i + 1
    BY <1>1
  <2> QED BY <1>2, <2>1
<1>5. ASSUME NEW i \in Nat \ {0} PROVE At(u, i) = At(s, i + 1)
  <2>1. i \in DOMAIN u <=> i + 1 \in DOMAIN s
    BY <1>1, <1>3
  <2>2. i \in DOMAIN u => u[i] = s[i + 1]
    BY <1>3, <1>4
  <2> QED BY <2>1, <2>2 DEF At
<1> QED BY <1>1, <1>2, <1>3, <1>4, <1>5 DEF u

(* A blank in front makes no abbreviation.                                 *)
LEMMA AbbreviationOne ==
  ASSUME NEW s \in Seq(Tokens), s # <<>>, s[1] = Blank, NEW i \in 1 .. Len(s) - 1
  PROVE  Abbreviation(s, i + 1) <=> Abbreviation(After(s, 1), i)
<1> DEFINE u == After(s, 1)
           n == Len(s)
<1>1. n \in Nat \ {0} /\ \A j \in 1 .. n - 1 : u[j] = s[j + 1]
  BY AtOne
<1> HIDE DEF u, n
<1>0. i \in 1 .. n - 1
  BY DEF n
<1>2. ASSUME Abbreviation(s, i + 1) PROVE Abbreviation(u, i)
  <2>1. PICK k \in 1 .. i + 1 :
               /\ s[k] = Abbr
               /\ \A j \in k + 1 .. i + 1 : s[j] = Dot
               /\ \A m \in 1 .. k - 1 : (\A j \in m .. k - 1 : s[j] \notin White) => s[m] \in {Quote, Dot}
    BY <1>2 DEF Abbreviation
  <2>2. k # 1
    BY <2>1 DEF Abbr, Blank
  <2>3. k - 1 \in 1 .. i /\ k - 1 \in 1 .. n - 1 /\ (k - 1) + 1 = k
    BY <1>0, <1>1, <2>2
  <2>4. u[k - 1] = Abbr
    BY <1>1, <2>1, <2>3
  <2>5. ASSUME NEW j \in (k - 1) + 1 .. i PROVE u[j] = Dot
    <3>1. j \in 1 .. n - 1 /\ j + 1 \in k + 1 .. i + 1
      BY <1>0, <1>1, <2>3
    <3> QED BY <1>1, <2>1, <3>1
  <2>6. ASSUME NEW m \in 1 .. (k - 1) - 1, \A j \in m .. (k - 1) - 1 : u[j] \notin White
        PROVE  u[m] \in {Quote, Dot}
    <3>1. m + 1 \in 1 .. k - 1 /\ m \in 1 .. n - 1
      BY <1>0, <1>1, <2>3
    <3>2. ASSUME NEW j \in m + 1 .. k - 1 PROVE s[j] \notin White
      <4>1. j - 1 \in m .. (k - 1) - 1 /\ j - 1 \in 1 .. n - 1 /\ (j - 1) + 1 = j
        BY <1>0, <1>1, <2>3, <3>1
      <4>2. u[j - 1] \notin White /\ u[j - 1] = s[j]
        BY <1>1, <2>6, <4>1
      <4> QED BY <4>2
    <3> QED BY <1>1, <2>1, <3>1, <3>2
  <2> QED BY <2>3, <2>4, <2>5, <2>6 DEF Abbreviation
<1>3. ASSUME Abbreviation(u, i) PROVE Abbreviation(s, i + 1)
  <2>1. PICK k \in 1 .. i :
               /\ u[k] = Abbr
               /\ \A j \in k + 1 .. i : u[j] = Dot
               /\ \A m \in 1 .. k - 1 : (\A j \in m .. k - 1 : u[j] \notin White) => u[m] \in {Quote, Dot}
    BY <1>3 DEF Abbreviation
  <2>2. k + 1 \in 1 .. i + 1 /\ k \in 1 .. n - 1 /\ (k + 1) - 1 = k
    BY <1>0, <1>1
  <2>3. s[k + 1] = Abbr
    BY <1>1, <2>1, <2>2
  <2>4. ASSUME NEW j \in (k + 1) + 1 .. i + 1 PROVE s[j] = Dot
    <3>1. j - 1 \in 1 .. n - 1 /\ j - 1 \in k + 1 .. i /\ (j - 1) + 1 = j
      BY <1>0, <1>1, <2>2
    <3>2. u[j - 1] = Dot /\ u[j - 1] = s[j]
      BY <1>1, <2>1, <3>1
    <3> QED BY <3>2
  <2>5. ASSUME NEW m \in 1 .. (k + 1) - 1, \A j \in m .. (k + 1) - 1 : s[j] \notin White
        PROVE  s[m] \in {Quote, Dot}
    <3>1. m # 1
      <4>1. m \in m .. (k + 1) - 1
        OBVIOUS
      <4> QED BY <2>5, <4>1 DEF White
    <3>2. m - 1 \in 1 .. k - 1 /\ m - 1 \in 1 .. n - 1 /\ (m - 1) + 1 = m
      BY <1>0, <1>1, <2>2, <3>1
    <3>3. ASSUME NEW j \in m - 1 .. k - 1 PROVE u[j] \notin White
      <4>1. j + 1 \in m .. (k + 1) - 1 /\ j \in 1 .. n - 1
        BY <1>0, <1>1, <2>2, <3>2
      <4>2. s[j + 1] \notin White /\ u[j] = s[j + 1]
        BY <1>1, <2>5, <4>1
      <4> QED BY <4>2
    <3>4. u[m - 1] \in {Quote, Dot} /\ u[m - 1] = s[m]
      BY <1>1, <2>1, <3>2, <3>3
    <3> QED BY <3>4
  <2> QED BY <2>2, <2>3, <2>4, <2>5 DEF Abbreviation
<1> QED BY <1>2, <1>3 DEF u

(* Behind it the sentence ends move by one.                                *)
LEMMA EndsOne ==
  ASSUME NEW s \in Seq(Tokens), s # <<>>, s[1] = Blank
  PROVE  Ends(s) = {i + 1 : i \in Ends(After(s, 1))}
<1> DEFINE u == After(s, 1)
           n == Len(s)
<1>1. /\ n \in Nat \ {0} /\ DOMAIN s = 1 .. n /\ DOMAIN u = 1 .. n - 1
      /\ \A i \in 1 .. n - 1 : u[i] = s[i + 1]
      /\ \A i \in Nat \ {0} : At(u, i) = At(s, i + 1)
  BY AtOne
<1>2. \A i \in 1 .. n - 1 : Abbreviation(s, i + 1) <=> Abbreviation(u, i)
  BY AbbreviationOne
<1> HIDE DEF u, n
<1>3. ASSUME NEW i \in 1 .. n - 1 PROVE EndsSentence(s, i + 1) <=> EndsSentence(u, i)
  <2>1. u[i] = s[i + 1] /\ At(u, i + 1) = At(s, (i + 1) + 1)
    BY <1>1
  <2>2. At(u, i - 1) = At(s, (i + 1) - 1)
    <3>1. CASE i = 1
      <4>1. i - 1 \notin DOMAIN u /\ (i + 1) - 1 = 1 /\ 1 \in DOMAIN s
        BY <1>1, <3>1
      <4> QED BY <4>1 DEF At
    <3>2. CASE i # 1
      <4>1. i - 1 \in Nat \ {0} /\ (i - 1) + 1 = (i + 1) - 1
        BY <1>1, <3>2
      <4> QED BY <1>1, <4>1
    <3> QED BY <3>1, <3>2
  <2> QED BY <1>2, <2>1, <2>2 DEF EndsSentence, Decimal
<1>4. ~EndsSentence(s, 1)
  BY DEF EndsSentence, Bang, Newline, Dot, Blank
<1>5. ASSUME NEW i \in Ends(s) PROVE i - 1 \in Ends(u) /\ i = (i - 1) + 1
  <2>1. i \in 1 .. n /\ i # 1 /\ EndsSentence(s, i)
    BY <1>1, <1>4 DEF Ends
  <2>2. i - 1 \in 1 .. n - 1 /\ i = (i - 1) + 1
    BY <1>1, <2>1
  <2> QED BY <1>1, <1>3, <2>1, <2>2 DEF Ends
<1>6. ASSUME NEW i \in Ends(u) PROVE i + 1 \in Ends(s)
  <2>1. i \in 1 .. n - 1 /\ EndsSentence(u, i) /\ i + 1 \in 1 .. n
    BY <1>1 DEF Ends
  <2> QED BY <1>1, <1>3, <2>1 DEF Ends
<1> QED BY <1>5, <1>6 DEF u

(* So does the end of the first sentence, with its quotes.                 *)
LEMMA FirstEndOne ==
  ASSUME NEW s \in Seq(Tokens), s # <<>>, s[1] = Blank,
         NEW u, u = After(s, 1), NEW e, e = FirstEnd(u, Ends(u)), e # 0
  PROVE  /\ FirstEnd(s, Ends(s)) = e + 1 /\ e \in 1 .. Len(u)
         /\ Ends(u) # {}
<1> DEFINE n == Len(s)
<1>1. /\ n \in Nat \ {0} /\ DOMAIN s = 1 .. n /\ DOMAIN u = 1 .. n - 1 /\ u \in Seq(Tokens) /\ Len(u) = n - 1
      /\ \A i \in 1 .. n - 1 : u[i] = s[i + 1]
      /\ \A i \in Nat \ {0} : At(u, i) = At(s, i + 1)
  BY AtOne
<1> HIDE DEF n
<1>2. Ends(u) \in SUBSET (DOMAIN u) /\ Ends(s) \in SUBSET (DOMAIN s)
  BY DEF Ends
<1>3. Ends(u) # {} /\ e \in 1 .. n - 1 /\ Ended(u, e, Ends(u))
  BY <1>1, <1>2, FirstEndType
<1>4. PICK i \in Ends(u) : /\ i <= e /\ \A k \in Ends(u) : i <= k
                           /\ \A j \in i + 1 .. e : u[j] = Quote
  BY <1>3 DEF Ended
<1>5. At(u, e + 1) # Quote
  BY <1>3 DEF Ended
<1>6. i \in 1 .. n - 1
  BY <1>1, <1>2
<1>7. e + 1 \in DOMAIN s /\ At(s, (e + 1) + 1) # Quote
  <2>1. e + 1 \in 1 .. n /\ e + 1 \in Nat \ {0}
    <3>1. n \in Nat /\ e \in 1 .. n - 1
      BY <1>1, <1>3
    <3> QED BY <3>1
  <2> QED BY <1>1, <1>5, <2>1
<1>8. Ends(s) = {k + 1 : k \in Ends(u)}
  BY EndsOne
<1>9. /\ i + 1 \in Ends(s) /\ i + 1 <= e + 1 /\ \A k \in Ends(s) : i + 1 <= k
      /\ \A j \in (i + 1) + 1 .. e + 1 : s[j] = Quote
  <2>1. ASSUME NEW k \in Ends(s) PROVE i + 1 <= k
    <3>1. PICK l \in Ends(u) : k = l + 1
      BY <1>8
    <3>2. l \in 1 .. n - 1 /\ i <= l
      BY <1>1, <1>2, <1>4
    <3> QED BY <1>6, <3>1, <3>2
  <2>2. ASSUME NEW j \in (i + 1) + 1 .. e + 1 PROVE s[j] = Quote
    <3>1. j - 1 \in i + 1 .. e /\ j - 1 \in 1 .. n - 1 /\ (j - 1) + 1 = j
      BY <1>1, <1>3, <1>6
    <3>2. u[j - 1] = Quote /\ u[j - 1] = s[j]
      BY <1>1, <1>4, <3>1
    <3> QED BY <3>2
  <2>3. i + 1 <= e + 1
    BY <1>3, <1>4, <1>6
  <2> QED BY <1>8, <2>1, <2>2, <2>3
<1>10. Ended(s, e + 1, Ends(s))
  BY <1>7, <1>9 DEF Ended
<1>11. FirstEnd(s, Ends(s)) = e + 1
  BY <1>2, <1>7, <1>10, OneEnd
<1> QED BY <1>1, <1>3, <1>11

(* A line break in front of a quote.                                       *)
Breaks(s) == \E i \in 1 .. Len(s) - 1 : s[i] = Newline /\ s[i + 1] = Quote

(* A part of a text has no other line breaks than the text.                *)
LEMMA BreaksAfter ==
  ASSUME NEW s \in Seq(Tokens), NEW k \in 0 .. Len(s), Breaks(After(s, k))
  PROVE  Breaks(s)
<1> DEFINE u == After(s, k)
<1>1. Len(u) = Len(s) - k /\ \A i \in 1 .. Len(s) - k : u[i] = s[k + i]
  BY BeforeAfter
<1> HIDE DEF u
<1>2. PICK i \in 1 .. Len(u) - 1 : u[i] = Newline /\ u[i + 1] = Quote
  BY DEF Breaks, u
<1>3. i \in 1 .. Len(s) - k /\ i + 1 \in 1 .. Len(s) - k /\ k + i \in 1 .. Len(s) - 1 /\ k + (i + 1) = (k + i) + 1
  BY <1>1
<1>4. s[k + i] = Newline /\ s[(k + i) + 1] = Quote
  BY <1>1, <1>2, <1>3
<1> QED BY <1>3, <1>4 DEF Breaks

(* The first sentence without the blank.                                   *)
LEMMA BeforeOne ==
  ASSUME NEW s \in Seq(Tokens), s # <<>>, NEW u, u = After(s, 1), NEW e \in 1 .. Len(u)
  PROVE  /\ After(Before(s, e + 1), 1) = Before(u, e) /\ After(s, e + 1) = After(u, e)
         /\ Before(s, e + 1) \in Seq(Tokens) /\ Before(s, e + 1) # <<>> /\ Before(s, e + 1)[1] = s[1]
<1> DEFINE n == Len(s)
           b == Before(s, e + 1)
           c == Before(u, e)
           d == After(b, 1)
<1>1. n \in Nat \ {0} /\ u \in Seq(Tokens) /\ Len(u) = n - 1 /\ \A i \in 1 .. n - 1 : u[i] = s[i + 1]
  BY AtOne
<1>2. e + 1 \in 0 .. Len(s) /\ e \in 0 .. Len(u) /\ 1 \in 0 .. Len(s) /\ e \in 0 .. Len(s) - 1 /\ 1 + e = e + 1
  BY <1>1
<1>3. b \in Seq(Tokens) /\ Len(b) = e + 1 /\ \A i \in 1 .. e + 1 : b[i] = s[i]
  BY <1>2, BeforeAfter
<1>4. c \in Seq(Tokens) /\ Len(c) = e /\ \A i \in 1 .. e : c[i] = u[i]
  <2>1. u \in Seq(Tokens) /\ e \in 0 .. Len(u)
    BY <1>1, <1>2
  <2> HIDE DEF c
  <2>2. /\ Before(u, e) \in Seq(Tokens) /\ Len(Before(u, e)) = e
        /\ \A i \in 1 .. e : Before(u, e)[i] = u[i]
    BY <2>1, BeforeAfter
  <2> QED BY <2>2 DEF c
<1>5. After(s, e + 1) = After(u, e)
  BY <1>2, AfterAfter
<1> HIDE DEF n, b, c
<1>6. b # <<>> /\ b[1] = s[1]
  <2>1. 1 \in 1 .. e + 1 /\ Len(b) # 0
    BY <1>2, <1>3
  <2> QED BY <1>3, <2>1
<1>7. d \in Seq(Tokens) /\ Len(d) = e /\ \A i \in 1 .. e : d[i] = b[i + 1]
  <2>1. /\ d \in Seq(Tokens) /\ Len(d) = Len(b) - 1 /\ \A i \in 1 .. Len(b) - 1 : d[i] = b[i + 1]
    BY <1>3, <1>6, AtOne
  <2>2. Len(b) - 1 = e
    BY <1>2, <1>3
  <2> QED BY <2>1, <2>2
<1> HIDE DEF d
<1>8. ASSUME NEW i \in 1 .. e PROVE d[i] = c[i]
  <2>1. i + 1 \in 1 .. e + 1 /\ i \in 1 .. n - 1
    BY <1>1, <1>2
  <2>2. d[i] = b[i + 1] /\ b[i + 1] = s[i + 1] /\ u[i] = s[i + 1] /\ c[i] = u[i]
    BY <1>1, <1>3, <1>4, <1>7, <2>1
  <2> QED BY <2>2
<1>9. d = c
  BY <1>4, <1>7, <1>8, SeqEqual
<1> QED BY <1>3, <1>5, <1>6, <1>9 DEF b, c, d

(* White space in front is not spoken, except that a line break in front   *)
(* of a quote takes the quote with it.                                     *)
LEMMA DropOne ==
  ASSUME NEW s \in Seq(Tokens), s # <<>>, s[1] \in White, ~Breaks(s)
  PROVE  RawSentences(s) = RawSentences(After(s, 1))
<1> DEFINE u == After(s, 1)
<1>1. u \in Seq(Tokens) /\ Len(s) \in Nat \ {0} /\ Len(u) = Len(s) - 1 /\ DOMAIN s = 1 .. Len(s)
  BY AtOne
<1> HIDE DEF u
<1>2. CASE s[1] = Newline
  <2>1. 1 \in Ends(s) /\ Ends(s) \in SUBSET (DOMAIN s) /\ 1 \in DOMAIN s
    BY <1>1, <1>2 DEF Ends, EndsSentence
  <2>2. At(s, 1 + 1) # Quote
    <3> SUFFICES ASSUME At(s, 1 + 1) = Quote PROVE FALSE
      OBVIOUS
    <3>1. 1 + 1 \in DOMAIN s /\ s[1 + 1] = Quote
      BY DEF At, Quote, Blank
    <3>2. 1 \in 1 .. Len(s) - 1
      BY <1>1, <3>1
    <3> QED BY <1>2, <3>1, <3>2 DEF Breaks
  <2>3. Ended(s, 1, Ends(s))
    <3>1. \A k \in Ends(s) : 1 <= k
      BY <1>1, <2>1
    <3>2. \A j \in 1 + 1 .. 1 : s[j] = Quote
      OBVIOUS
    <3> QED BY <2>1, <2>2, <3>1, <3>2 DEF Ended
  <2>4. FirstEnd(s, Ends(s)) = 1
    BY <2>1, <2>3, OneEnd
  <2>5. RawSentences(s) = Spoken(Before(s, 1)) \o RawSentences(u)
    <3> DEFINE e == FirstEnd(s, Ends(s))
    <3>1. RawSentences(s) = IF e = 0 THEN Spoken(s) ELSE Spoken(Before(s, e)) \o RawSentences(After(s, e))
      BY RawNext
    <3>2. e = 1
      BY <2>4
    <3> HIDE DEF e
    <3> QED BY <3>1, <3>2 DEF u
  <2>6. Spoken(Before(s, 1)) = <<>>
    <3> DEFINE b == Before(s, 1)
    <3>1. b \in Seq(Tokens) /\ Len(b) = 1 /\ b[1] = s[1]
      <4>1. 1 \in 0 .. Len(s) /\ 1 \in 1 .. 1
        BY <1>1
      <4> QED BY <4>1, BeforeAfter
    <3> HIDE DEF b
    <3>2. DOMAIN b = {1}
      BY <3>1
    <3>3. Inked(b) = {}
      BY <3>1, <3>2 DEF Inked
    <3> QED BY <3>3 DEF Spoken, Trim, b
  <2>7. RawSentences(u) \in Seq(Neat) /\ \A x \in Seq(Neat) : <<>> \o x = x
    BY <1>1, RawSentencesNeat
  <2> QED BY <2>5, <2>6, <2>7 DEF u
<1>3. CASE s[1] = Blank
  <2> DEFINE e == FirstEnd(u, Ends(u))
  <2>1. RawSentences(u) = IF e = 0 THEN Spoken(u) ELSE Spoken(Before(u, e)) \o RawSentences(After(u, e))
    BY <1>1, RawNext
  <2>2. CASE e = 0
    <3>1. Ends(u) \in SUBSET (DOMAIN u) /\ Ends(s) \in SUBSET (DOMAIN s)
      BY DEF Ends
    <3>2. Ends(u) = {}
      <4>1. Ends(u) # {} => e \in 1 .. Len(u)
        BY <1>1, <3>1, FirstEndType
      <4> HIDE DEF e
      <4> QED BY <1>1, <2>2, <4>1
    <3>3. Ends(s) = {}
      BY <1>3, <3>2, EndsOne DEF u
    <3>4. FirstEnd(s, Ends(s)) = 0
      BY <3>3 DEF FirstEnd
    <3>5. RawSentences(s) = Spoken(s)
      BY <3>4, RawNext
    <3>6. Spoken(s) = Spoken(u)
      BY TrimOne DEF Spoken, u
    <3> QED BY <2>1, <2>2, <3>5, <3>6 DEF u
  <2>3. CASE e # 0
    <3>1. FirstEnd(s, Ends(s)) = e + 1 /\ e \in 1 .. Len(u)
      BY <1>3, <2>3, FirstEndOne DEF u
    <3> HIDE DEF e
    <3> DEFINE b == Before(s, e + 1)
    <3>2. /\ After(b, 1) = Before(u, e) /\ After(s, e + 1) = After(u, e)
          /\ b \in Seq(Tokens) /\ b # <<>> /\ b[1] = s[1]
      BY <3>1, BeforeOne DEF u
    <3>3. e + 1 # 0
      BY <1>1, <3>1
    <3>4. RawSentences(s) = Spoken(b) \o RawSentences(After(s, e + 1))
      BY <3>1, <3>3, RawNext
    <3> HIDE DEF b
    <3>5. Trim(b) = Trim(Before(u, e))
      BY <3>2, TrimOne
    <3>6. Spoken(b) = Spoken(Before(u, e))
      BY <3>5 DEF Spoken
    <3> QED BY <2>1, <2>3, <3>2, <3>4, <3>6 DEF u
  <2> QED BY <2>2, <2>3
<1> QED BY <1>2, <1>3 DEF White

(* Trimming the remainder is taking it up further on, and loses none of    *)
(* its sentences.                                                          *)
Resumes(s, k, j) == TrimStart(After(s, k)) = After(s, j) /\ RawSentences(After(s, j)) = RawSentences(After(s, k))

LEMMA RawTrim ==
  ASSUME NEW s \in Seq(Tokens), ~Breaks(s)
  PROVE  \A k \in 0 .. Len(s) : \E j \in 0 .. Len(s) : Resumes(s, k, j)
<1> DEFINE n == Len(s)
           T == {k \in 0 .. n : \E j \in 0 .. n : Resumes(s, k, j)}
<1>1. ASSUME NEW k \in 0 .. n, \A j \in k + 1 .. n : j \in T PROVE k \in T
  <2> DEFINE x == After(s, k)
  <2>1. x \in Seq(Tokens) /\ Len(x) = n - k /\ ~Breaks(x)
    BY BeforeAfter, BreaksAfter
  <2>2. CASE Inked(x) = {} /\ x = <<>>
    <3>1. TrimStart(x) = x
      BY <2>2 DEF TrimStart
    <3> QED BY <3>1 DEF Resumes
  <2>3. CASE x # <<>> /\ x[1] \notin White
    <3> HIDE DEF x
    <3>1. 1 \in DOMAIN x /\ Len(x) \in Nat
      BY <2>1, <2>3
    <3>2. 1 \in Inked(x)
      BY <2>3, <3>1 DEF Inked
    <3>3. Inked(x) # {} /\ Min(Inked(x)) <= 1 /\ Min(Inked(x)) \in 1 .. Len(x)
      BY <2>1, <3>2, InkedEnds
    <3>4. Min(Inked(x)) = 1
      BY <3>1, <3>3
    <3>5. TrimStart(x) = x
      BY <2>1, <3>3, <3>4, SubSeqFull DEF TrimStart
    <3> QED BY <3>5 DEF Resumes, x
  <2>4. CASE x # <<>> /\ x[1] \in White
    <3>1. k + 1 \in k + 1 .. n /\ 1 \in 0 .. n - k
      BY <2>1, <2>4
    <3>2. After(x, 1) = After(s, k + 1)
      BY <3>1, AfterAfter
    <3>3. PICK j \in 0 .. n : Resumes(s, k + 1, j)
      BY <1>1, <3>1
    <3>4. TrimStart(x) = TrimStart(After(x, 1)) /\ RawSentences(x) = RawSentences(After(x, 1))
      BY <2>1, <2>4, TrimOne, DropOne
    <3>5. Resumes(s, k, j)
      <4>1. TrimStart(After(s, k + 1)) = After(s, j) /\ RawSentences(After(s, j)) = RawSentences(After(s, k + 1))
        BY <3>3 DEF Resumes
      <4> QED BY <3>2, <3>4, <4>1 DEF Resumes
    <3> QED BY <3>5
  <2>5. x = <<>> => Inked(x) = {}
    BY DEF Inked
  <2> QED BY <2>2, <2>3, <2>4, <2>5
<1>2. \A k \in 0 .. n : k \in T
  <2>1. n \in Nat
    OBVIOUS
  <2> HIDE DEF T, n
  <2> QED BY <1>1, <2>1, Downwards
<1> QED BY <1>2

(* Trimming in front takes a text up further on.                           *)
LEMMA TrimAfter ==
  ASSUME NEW s \in Seq(Tokens), NEW k \in 0 .. Len(s)
  PROVE  \E j \in 0 .. Len(s) : TrimStart(After(s, k)) = After(s, j)
<1> DEFINE x == After(s, k)
           a == Min(Inked(x))
           n == Len(s)
<1>1. x \in Seq(Tokens) /\ Len(x) = n - k /\ n \in Nat
  BY BeforeAfter
<1>2. CASE Inked(x) = {}
  <2>1. TrimStart(x) = <<>>
    BY <1>2 DEF TrimStart
  <2>2. After(s, n) = <<>> /\ n \in 0 .. n
    BY <1>1 DEF After
  <2> QED BY <2>1, <2>2
<1>3. CASE Inked(x) # {}
  <2>1. TrimStart(x) = SubSeq(x, a, n - k) /\ a \in 1 .. n - k
    BY <1>1, <1>3, InkedEnds DEF TrimStart
  <2> HIDE DEF a, x
  <2>2. SubSeq(x, a, n - k) = After(x, a - 1)
    <3>1. (a - 1) + 1 = a
      BY <1>1, <2>1
    <3> QED BY <1>1, <3>1 DEF After
  <2>3. a - 1 \in 0 .. n - k /\ k + (a - 1) \in 0 .. n
    BY <1>1, <2>1
  <2>4. After(x, a - 1) = After(s, k + (a - 1))
    BY <2>3, AfterAfter DEF x
  <2> QED BY <2>1, <2>2, <2>3, <2>4 DEF x
<1> QED BY <1>2, <1>3

(* The scans agree but for a dot in front.                                 *)
LEMMA ScansAgree ==
  ASSUME NEW s \in Seq(Tokens), NEW i \in DOMAIN s
  PROVE  EndsPopped(s, i) <=> EndsSentence(s, i) /\ ~(i = 1 /\ s[1] = Dot)
<1>1. i \in Nat \ {0} /\ DOMAIN s = 1 .. Len(s) /\ Len(s) \in Nat
  OBVIOUS
<1>2. CASE s[i] \in {Bang, Newline}
  BY <1>2 DEF EndsPopped, EndsSentence, Bang, Newline, Dot
<1>3. CASE s[i] \notin {Bang, Newline, Dot}
  BY <1>3 DEF EndsPopped, EndsSentence
<1>4. CASE s[i] = Dot /\ i = 1
  BY <1>4 DEF EndsPopped, Bang, Newline, Dot
<1>5. CASE s[i] = Dot /\ i # 1
  <2>1. i > 1 /\ i - 1 \in Nat
    BY <1>1, <1>5
  <2>2. ASSUME NEW k \in Nat, s[k] = Abbr
        PROVE  /\ k \in 1 .. i <=> k \in 1 .. i - 1
               /\ (\A n \in k + 1 .. i : s[n] = Dot) <=> (\A n \in k + 1 .. i - 1 : s[n] = Dot)
    <3>1. k # i
      BY <1>5, <2>2 DEF Abbr, Dot
    <3>2. k \in 1 .. i <=> k \in 1 .. i - 1
      BY <1>1, <3>1
    <3>3. \A n \in k + 1 .. i : n = i \/ n \in k + 1 .. i - 1
      BY <1>1
    <3>4. \A n \in k + 1 .. i - 1 : n \in k + 1 .. i
      BY <1>1
    <3> QED BY <1>5, <3>2, <3>3, <3>4
  <2>3. Abbreviation(s, i) <=> Abbreviation(s, i - 1)
    <3>1. \A k : k \in 1 .. i => k \in Nat
      BY <1>1
    <3>2. \A k : k \in 1 .. i - 1 => k \in Nat
      BY <1>1
    <3> QED BY <2>2, <3>1, <3>2 DEF Abbreviation
  <2> QED BY <1>5, <2>1, <2>3 DEF EndsPopped, EndsSentence, Bang, Newline, Dot
<1> QED BY <1>2, <1>3, <1>4, <1>5

(* A text with a dot in front makes a message with one.                    *)
LEMMA DotFirst ==
  ASSUME NEW s \in Seq(Tokens), s # <<>>, s[1] = Dot
  PROVE  \E t \in Seq(Tokens) : Spoken(s) = <<t>> /\ Head(t) = Dot
<1> DEFINE a == Min(Inked(s))
           b == Max(Inked(s))
           t == Trim(s)
<1>1. Len(s) \in Nat /\ 1 \in DOMAIN s
  OBVIOUS
<1>2. 1 \in Inked(s)
  BY <1>1 DEF Inked, White, Dot, Blank, Newline
<1>3. Inked(s) # {} /\ a <= 1 /\ a \in 1 .. Len(s) /\ b \in a .. Len(s)
  BY <1>2, InkedEnds
<1>4. t = SubSeq(s, a, b)
  BY <1>3 DEF Trim
<1> HIDE DEF a, b, t
<1>5. a = 1 /\ b \in 1 .. Len(s) /\ b \in 0 .. Len(s) /\ 1 <= b
  BY <1>1, <1>3
<1>6. t \in Seq(Tokens) /\ Len(t) = b - 1 + 1 /\ \A i \in 1 .. b - 1 + 1 : t[i] = s[1 + i - 1]
  BY <1>4, <1>5, StretchType
<1>7. t # <<>> /\ t[1] = s[1]
  <2>1. 1 \in 1 .. b - 1 + 1 /\ 1 + 1 - 1 = 1 /\ Len(t) # 0
    BY <1>5, <1>6
  <2> QED BY <1>6, <2>1
<1>8. Head(t) = Dot
  BY <1>6, <1>7
<1> QED BY <1>6, <1>7, <1>8 DEF Spoken, t

-----------------------------------------------------------------------------
(* A translation that came whole: what is in the buffer is the end of it,  *)
(* and its sentences are still to be sent.                                 *)
DotSent == \E i \in DOMAIN sent : Head(sent[i]) = Dot
Excused == DotSent \/ Breaks(told)
Undivided == result = "answer" /\ mode # "analysis"

CutInv ==
  /\ SpeechInv
  /\ result = "answer" => phase \in {"over", "closed"}
  /\ Undivided /\ phase = "over" =>
       /\ \E k \in 0 .. Len(told) : buf = After(told, k)
       /\ Excused \/ sent \o RawSentences(buf) = RawSentences(told)
  /\ Undivided /\ phase = "closed" => Excused \/ sent = RawSentences(told)

LEMMA CutStarts == Init => CutInv
BY SpeechStarts DEF CutInv, Init, Undivided

(* A whole text arrives.                                                   *)
LEMMA DeliverCuts ==
  ASSUME CutInv, SpeechInv', NEW d \in Seq(Tokens), Deliver(d), phase = "ask"
  PROVE  CutInv'
<1>1. phase' = "over" /\ told' = d /\ buf' = d /\ sent' = sent
  BY DEF Deliver
<1>2. sent = <<>>
  BY DEF CutInv, SpeechInv
<1>3. d = After(d, 0) /\ 0 \in 0 .. Len(d)
  BY SubSeqFull DEF After
<1>4. <<>> \o RawSentences(d) = RawSentences(d)
  <2>1. RawSentences(d) \in Seq(Neat) /\ \A x \in Seq(Neat) : <<>> \o x = x
    BY RawSentencesNeat
  <2> QED BY <2>1
<1>5. \E k \in 0 .. Len(told') : buf' = After(told', k)
  BY <1>1, <1>3
<1>6. sent' \o RawSentences(buf') = RawSentences(told')
  BY <1>1, <1>2, <1>4
<1> QED BY <1>1, <1>5, <1>6 DEF CutInv

(* Messages stay sent.                                                     *)
LEMMA SentGrows ==
  ASSUME CutInv, NEW x \in Seq(Tokens), sent' = sent \o Spoken(x)
  PROVE  /\ DotSent => DotSent'
         /\ x # <<>> /\ x[1] = Dot => DotSent'
<1>1. sent \in Seq(Neat) /\ Spoken(x) \in Seq(Neat)
  BY SpokenNeat DEF CutInv, SpeechInv
<1>2. /\ Len(sent') = Len(sent) + Len(Spoken(x)) /\ sent' \in Seq(Neat)
      /\ \A i \in 1 .. Len(sent) + Len(Spoken(x)) :
            sent'[i] = IF i <= Len(sent) THEN sent[i] ELSE Spoken(x)[i - Len(sent)]
  BY <1>1, ConcatProperties
<1>3. /\ DOMAIN sent = 1 .. Len(sent) /\ Len(sent) \in Nat /\ Len(Spoken(x)) \in Nat
      /\ DOMAIN sent' = 1 .. Len(sent) + Len(Spoken(x))
  BY <1>1, <1>2
<1>4. ASSUME DotSent PROVE DotSent'
  <2>1. PICK i \in 1 .. Len(sent) : Head(sent[i]) = Dot
    BY <1>3, <1>4 DEF DotSent
  <2>2. i \in DOMAIN sent' /\ sent'[i] = sent[i]
    BY <1>2, <1>3
  <2> QED BY <2>1, <2>2 DEF DotSent
<1>5. ASSUME x # <<>>, x[1] = Dot PROVE DotSent'
  <2>1. PICK t \in Seq(Tokens) : Spoken(x) = <<t>> /\ Head(t) = Dot
    BY <1>5, DotFirst
  <2>2. Len(Spoken(x)) = 1 /\ Spoken(x)[1] = t
    BY <2>1
  <2>3. Len(sent) + 1 \in DOMAIN sent' /\ sent'[Len(sent) + 1] = t
    <3>1. /\ Len(sent) + 1 \in 1 .. Len(sent) + Len(Spoken(x)) /\ ~(Len(sent) + 1 <= Len(sent))
          /\ (Len(sent) + 1) - Len(sent) = 1
      BY <1>3, <2>2
    <3> QED BY <1>2, <1>3, <2>2, <3>1
  <2> QED BY <2>1, <2>3 DEF DotSent
<1> QED BY <1>4, <1>5

(* Where the buffer does not start with a dot, the loop of on_chunk takes  *)
(* the first sentence of split_sentences.                                  *)
LEMMA SameEnds ==
  ASSUME buf \in Seq(Tokens), ~(buf # <<>> /\ buf[1] = Dot)
  PROVE  PoppedEnds = Ends(buf)
<1>1. ASSUME NEW i \in DOMAIN buf PROVE EndsPopped(buf, i) <=> EndsSentence(buf, i)
  BY <1>1, ScansAgree
<1> QED BY <1>1 DEF PoppedEnds, Ends

(* A sentence moves from the buffer to the messages.                       *)
LEMMA PopCuts == ASSUME CutInv, SpeechInv', Pop PROVE CutInv'
<1>1. PICK n \in DOMAIN buf : /\ Ended(buf, n, PoppedEnds)
                              /\ sent' = sent \o Spoken(Before(buf, n)) /\ buf' = Remainder(n)
  BY DEF Pop
<1>2. UNCHANGED <<mode, phase, told, result>> /\ buf # <<>>
  BY <1>1 DEF Pop
<1>3. /\ told \in Seq(Tokens) /\ buf \in Seq(Tokens) /\ sent \in Seq(Neat)
  BY SpeechTypes DEF CutInv
<1> SUFFICES ASSUME Undivided PROVE CutInv'
  BY <1>2 DEF CutInv, Undivided
<1>4. phase = "over"
  BY <1>2 DEF CutInv, SpeechInv, Undivided
<1>5. PICK k \in 0 .. Len(told) : buf = After(told, k)
  BY <1>4 DEF CutInv
<1> DEFINE b == Before(buf, n)
           a == After(buf, n)
<1>6. n \in 1 .. Len(buf) /\ b \in Seq(Tokens) /\ Len(b) = n /\ b # <<>> /\ b[1] = buf[1] /\ a = After(told, k + n)
      /\ k + n \in 0 .. Len(told)
  <2>1. n \in 1 .. Len(buf) /\ n \in 0 .. Len(buf) /\ Len(buf) = Len(told) - k /\ n \in 0 .. Len(told) - k
    <3>1. Len(buf) = Len(told) - k
      BY <1>3, <1>5, BeforeAfter
    <3>2. n \in 1 .. Len(buf) /\ Len(buf) \in Nat
      BY <1>3
    <3> QED BY <3>1, <3>2
  <2>2. b \in Seq(Tokens) /\ Len(b) = n /\ \A i \in 1 .. n : b[i] = buf[i]
    BY <1>3, <2>1, BeforeAfter
  <2>3. b # <<>> /\ 1 \in 1 .. n
    BY <2>1, <2>2
  <2>4. a = After(told, k + n) /\ k + n \in 0 .. Len(told)
    BY <1>3, <1>5, <2>1, AfterAfter
  <2> QED BY <2>1, <2>2, <2>3, <2>4
<1>7. buf' = TrimStart(a)
  BY <1>1 DEF Remainder
<1>8. sent' = sent \o Spoken(b)
  BY <1>1
<1> HIDE DEF a, b
<1>9. \E j \in 0 .. Len(told) : buf' = After(told, j)
  BY <1>3, <1>6, <1>7, TrimAfter
<1>10. CASE Excused
  BY <1>2, <1>4, <1>6, <1>8, <1>9, <1>10, SentGrows DEF CutInv, Excused
<1>11. CASE buf[1] = Dot
  <2>1. DotSent'
    BY <1>6, <1>8, <1>11, SentGrows
  <2> QED BY <1>2, <1>4, <1>9, <2>1 DEF CutInv, Excused
<1>12. CASE ~Excused /\ buf[1] # Dot
  <2>1. sent \o RawSentences(buf) = RawSentences(told)
    BY <1>4, <1>12 DEF CutInv
  <2>2. FirstEnd(buf, Ends(buf)) = n
    <3>1. PoppedEnds = Ends(buf) /\ PoppedEnds \in SUBSET (DOMAIN buf)
      BY <1>3, <1>12, SameEnds DEF PoppedEnds
    <3> QED BY <1>1, <1>3, <3>1, OneEnd
  <2>3. RawSentences(buf) = Spoken(b) \o RawSentences(a)
    <3> DEFINE e == FirstEnd(buf, Ends(buf))
    <3>1. RawSentences(buf) = IF e = 0 THEN Spoken(buf) ELSE Spoken(Before(buf, e)) \o RawSentences(After(buf, e))
      BY <1>3, RawNext
    <3>2. e = n /\ n # 0
      BY <1>6, <2>2
    <3> HIDE DEF e
    <3> QED BY <3>1, <3>2 DEF a, b
  <2>4. RawSentences(buf') = RawSentences(a)
    <3>1. PICK j \in 0 .. Len(told) : Resumes(told, k + n, j)
      BY <1>3, <1>6, <1>12, RawTrim DEF Excused
    <3> QED BY <1>6, <1>7, <3>1 DEF Resumes
  <2>5. (sent \o Spoken(b)) \o RawSentences(a) = sent \o (Spoken(b) \o RawSentences(a))
    <3>1. a \in Seq(Tokens)
      BY <1>3, <1>6, BeforeAfter
    <3>2. Spoken(b) \in Seq(Neat) /\ RawSentences(a) \in Seq(Neat)
      BY <1>6, <3>1, SpokenNeat, RawSentencesNeat
    <3> QED BY <1>3, <3>2
  <2>6. sent' \o RawSentences(buf') = RawSentences(told')
    BY <1>2, <1>8, <2>1, <2>3, <2>4, <2>5
  <2> QED BY <1>2, <1>4, <1>9, <2>6 DEF CutInv
<1> QED BY <1>10, <1>11, <1>12

(* The rest is the last sentence.                                          *)
LEMMA CloseCuts == ASSUME CutInv, SpeechInv', Close PROVE CutInv'
<1>1. /\ sent' = sent \o Spoken(buf) /\ phase = "over" /\ phase' = "closed" /\ PoppedEnds = {}
      /\ UNCHANGED <<mode, told, result>>
  BY DEF Close, Popping
<1>2. /\ buf \in Seq(Tokens) /\ sent \in Seq(Neat)
  BY SpeechTypes DEF CutInv
<1> SUFFICES ASSUME Undivided PROVE CutInv'
  BY <1>1 DEF CutInv, Undivided
<1>3. CASE Excused
  BY <1>1, <1>2, <1>3, SentGrows DEF CutInv, Excused
<1>4. CASE buf # <<>> /\ buf[1] = Dot
  <2>1. DotSent'
    BY <1>1, <1>2, <1>4, SentGrows
  <2> QED BY <1>1, <2>1 DEF CutInv, Excused
<1>5. CASE ~Excused /\ ~(buf # <<>> /\ buf[1] = Dot)
  <2>1. FirstEnd(buf, Ends(buf)) = 0
    BY <1>1, <1>2, <1>5, SameEnds DEF FirstEnd
  <2>2. RawSentences(buf) = Spoken(buf)
    <3> DEFINE e == FirstEnd(buf, Ends(buf))
    <3>1. RawSentences(buf) = IF e = 0 THEN Spoken(buf) ELSE Spoken(Before(buf, e)) \o RawSentences(After(buf, e))
      BY <1>2, RawNext
    <3>2. e = 0
      BY <2>1
    <3> HIDE DEF e
    <3> QED BY <3>1, <3>2
  <2>3. sent \o RawSentences(buf) = RawSentences(told)
    BY <1>1, <1>5 DEF CutInv
  <2>4. sent' = RawSentences(told')
    BY <1>1, <2>2, <2>3
  <2> QED BY <1>1, <2>4 DEF CutInv
<1> QED BY <1>3, <1>4, <1>5

(* Every step.                                                             *)
LEMMA CutStep == CutInv /\ [Next]_vars => CutInv'
<1> SUFFICES ASSUME CutInv, [Next]_vars PROVE CutInv'
  OBVIOUS
<1>0. SpeechInv'
  BY SpeechStep DEF CutInv
<1>1. CASE UNCHANGED vars
  BY <1>0, <1>1 DEF vars, CutInv, Undivided, Excused, DotSent
<1>2. CASE PlainBody
  <2>1. PICK d \in Answers : Deliver(d)
    BY <1>2 DEF PlainBody
  <2>2. d \in Seq(Tokens) /\ phase = "ask"
    BY <1>2, TextAssumption DEF PlainBody
  <2> QED BY <1>0, <2>1, <2>2, DeliverCuts
<1>3. CASE Translated \/ TranslatedNmt
  <2>1. PICK d \in Answers : Deliver(Trim(d))
    BY <1>3 DEF Translated, TranslatedNmt
  <2>2. Trim(d) \in Seq(Tokens) /\ phase = "ask"
    BY <1>3, TextAssumption, TrimType DEF Translated, TranslatedNmt
  <2> QED BY <1>0, <2>1, <2>2, DeliverCuts
<1>4. CASE Analyzed
  <2>1. PICK d \in Translations : Deliver(d)
    BY <1>4 DEF Analyzed
  <2>2. d \in Seq(Tokens) /\ phase = "ask"
    BY <1>4, TextAssumption DEF Analyzed
  <2> QED BY <1>0, <2>1, <2>2, DeliverCuts
<1>5. ASSUME phase \in {"ask", "reading"}, result' \in {result, "done", "eof"} PROVE CutInv'
  <2>1. result' # "answer"
    BY <1>5 DEF CutInv
  <2> QED BY <1>0, <2>1 DEF CutInv, Undivided
<1>6. CASE OpenSse \/ AskFails \/ Timeout \/ Eof \/ Break \/ Event
  BY <1>5, <1>6 DEF OpenSse, AskFails, Timeout, TimesOut, Eof, Break, Awaits, Event
<1>7. ASSUME NEW e \in Payloads, Write(e) PROVE CutInv'
  BY <1>5, <1>7 DEF Write
<1>8. ASSUME NEW n \in 1 .. MaxWire, Piece(n) PROVE CutInv'
  BY <1>5, <1>8 DEF Piece, Awaits
<1>9. CASE Pop
  BY <1>0, <1>9, PopCuts
<1>10. CASE Close
  BY <1>0, <1>10, CloseCuts
<1>11. CASE CloseBulk
  <2>1. mode' = "analysis" /\ phase' = "closed"
    BY <1>11 DEF CloseBulk
  <2> QED BY <1>0, <2>1 DEF CutInv, Undivided
<1> QED BY <1>1, <1>2, <1>3, <1>4, <1>6, <1>7, <1>8, <1>9, <1>10, <1>11 DEF Next

(* The invariant of the cuts.                                              *)
THEOREM CutInvariance == Spec => []CutInv
BY CutStarts, CutStep, PTL DEF Spec

(* A translation that comes whole is cut by pop_first_sentence where       *)
(* split_sentences would cut it, unless one of its sentences starts with a *)
(* dot or one of its lines with a quote.                                   *)
THEOREM CutsCorrect == Spec => []CutsAsBulk
<1>1. CutInv => CutsAsBulk
  <2> SUFFICES ASSUME CutInv, phase = "closed", mode # "analysis", result = "answer"
               PROVE  sent = RawSentences(told) \/ Quirky(told)
    BY DEF CutsAsBulk
  <2>1. Excused \/ sent = RawSentences(told)
    BY DEF CutInv, Undivided
  <2>2. Excused => Quirky(told)
    BY DEF Excused, DotSent, Breaks, Quirky
  <2> QED BY <2>1, <2>2
<1> QED BY <1>1, CutInvariance, PTL
==============================================================================
