------------------------- MODULE PulseCollector_proofs -------------------------
(***************************************************************************)
(* Only a pass whose answer is out of date, or that got none, stores a URL *)
(* again, for any collectors, feeds, entries and number of concurrent      *)
(* passes, and whatever fails, is dropped with an insert under way, or is  *)
(* restarted.                                                              *)
(***************************************************************************)
EXTENDS PulseCollector, WellFoundedInduction, TLAPS

Shape ==
  /\ items \in [Urls -> 0 .. MaxCopies]
  /\ pc \in [Tasks -> Steps] /\ DOMAIN known = Tasks /\ DOMAIN todo = Tasks

(* A pass about to insert a URL, or gone while it was, has seen no row of  *)
(* it, or could not ask.                                                   *)
Asked(t) ==
  pc[t] \in Inserting =>
    /\ todo[t] # <<>>
    /\ Head(todo[t]) \in Urls => known[t] \in {0, Unasked}

IInv == Shape /\ \A t \in Tasks : Asked(t)

(* No pass has begun.                                                      *)
LEMMA InitInv == Init => IInv
<1> SUFFICES ASSUME Init PROVE IInv
  OBVIOUS
<1>1. items \in [Urls -> 0 .. MaxCopies]
  BY PulseAssumption DEF Init
<1>2. pc \in [Tasks -> Steps] /\ \A t \in Tasks : pc[t] \notin Inserting
  BY DEF Init, AtStart, Steps, Inserting
<1>3. DOMAIN known = Tasks /\ DOMAIN todo = Tasks
  BY DEF Init
<1> QED BY <1>1, <1>2, <1>3 DEF IInv, Shape, Asked

(* A step of t that leaves items alone and does not end before an insert.  *)
LEMMA Elsewhere ==
  ASSUME IInv, NEW t \in Tasks, items' = items,
         NEW l \in Steps \ Inserting, pc' = [pc EXCEPT ![t] = l],
         DOMAIN known' = Tasks, DOMAIN todo' = Tasks,
         \A s \in Tasks \ {t} : known'[s] = known[s] /\ todo'[s] = todo[s]
  PROVE  IInv'
BY DEF IInv, Shape, Asked, Unasked

(* Passes that are over.                                                   *)
LEMMA Leaving ==
  ASSUME IInv, items' = items, NEW S \in SUBSET Tasks, pc' \in [Tasks -> Steps],
         \A s \in S : pc'[s] \notin Inserting,
         DOMAIN known' = Tasks, DOMAIN todo' = Tasks,
         \A s \in Tasks \ S : pc'[s] = pc[s] /\ known'[s] = known[s] /\ todo'[s] = todo[s]
  PROVE  IInv'
BY DEF IInv, Shape, Asked, Unasked

(* A task never starts at an insert.                                       *)
LEMMA AfterPassStep == \A t \in Tasks : AfterPass(t) \in Steps \ Inserting /\ AtStart(t) \in Steps \ Inserting
BY DEF AfterPass, AtStart, Steps, Inserting

(* A pass is asked for, writes its row, or fails to fetch.                 *)
LEMMA StartInv ==
  ASSUME IInv, NEW t \in Tasks, Trigger(t) \/ StartRun(t) \/ CollectFails(t)
  PROVE  IInv'
<1>1. items' = items /\ known' = known /\ todo' = todo
  BY DEF Trigger, StartRun, CollectFails, tables
<1>2. PICK l \in {"due", "collect", "error"} : pc' = [pc EXCEPT ![t] = l]
  BY DEF Trigger, StartRun, CollectFails, Goto
<1>3. l \in Steps \ Inserting
  BY <1>2 DEF Steps, Inserting
<1> QED BY <1>1, <1>2, <1>3, Elsewhere DEF IInv, Shape

(* A pass ends.                                                            *)
LEMMA LeaveInv ==
  ASSUME IInv, NEW t \in Tasks, StartFails(t) \/ FinishRun(t) \/ FinishFails(t)
  PROVE  IInv'
<1>1. items' = items
  BY DEF StartFails, FinishRun, FinishFails, tables
<1>2. /\ pc' = [s \in Tasks |-> IF s \in {t} THEN AfterPass(s) ELSE pc[s]]
      /\ todo' = [s \in Tasks |-> IF s \in {t} THEN <<>> ELSE todo[s]]
      /\ known' = [s \in Tasks |-> IF s \in {t} THEN 0 ELSE known[s]]
  BY DEF StartFails, FinishRun, FinishFails, Left
<1>3. pc' \in [Tasks -> Steps] /\ \A s \in {t} : pc'[s] \notin Inserting
  BY <1>2, AfterPassStep DEF IInv, Shape
<1> QED BY <1>1, <1>2, <1>3, Leaving

(* A request is dropped, and its insert left behind with what it knew.     *)
LEMMA AbandonInv == ASSUME IInv, NEW t \in Tasks, Abandon(t) PROVE IInv'
<1>1. items' = items
  BY DEF Abandon, tables
<1>2. CASE Left({t}, [x \in {t} |-> "idle"])
  <2>1. /\ pc' = [s \in Tasks |-> IF s \in {t} THEN "idle" ELSE pc[s]]
        /\ todo' = [s \in Tasks |-> IF s \in {t} THEN <<>> ELSE todo[s]]
        /\ known' = [s \in Tasks |-> IF s \in {t} THEN 0 ELSE known[s]]
    BY <1>2 DEF Left
  <2>2. pc' \in [Tasks -> Steps] /\ \A s \in {t} : pc'[s] \notin Inserting
    BY <2>1 DEF IInv, Shape, Steps, Inserting
  <2> QED BY <1>1, <2>1, <2>2, Leaving
<1>3. CASE pc[t] = "insert" /\ Goto(t, "late") /\ todo' = [todo EXCEPT ![t] = <<Head(@)>>] /\ known' = known
  <2>1. todo'[t] # <<>> /\ Head(todo'[t]) = Head(todo[t])
    BY <1>3 DEF IInv, Shape
  <2> QED BY <1>1, <1>3, <2>1 DEF Goto, IInv, Shape, Asked, Unasked, Steps, Inserting
<1> QED BY <1>2, <1>3 DEF Abandon

(* A restart ends every pass; the rows stay.                               *)
LEMMA RestartInv == ASSUME IInv, Restart PROVE IInv'
<1>1. items' = items
  BY DEF Restart, tables
<1>2. /\ pc' = [s \in Tasks |-> IF s \in Tasks THEN AtStart(s) ELSE pc[s]]
      /\ DOMAIN todo' = Tasks /\ DOMAIN known' = Tasks
  BY DEF Restart, Left
<1>3. pc' \in [Tasks -> Steps] /\ \A s \in Tasks : pc'[s] \notin Inserting
  BY <1>2, AfterPassStep
<1> QED BY <1>1, <1>2, <1>3, Leaving

(* What is fetched goes to todo.                                           *)
LEMMA FetchInv ==
  ASSUME IInv, NEW t \in Tasks,
         CollectRss(t) \/ CollectVideos(t) \/ CollectGithub(t) \/ CollectHackerNews(t)
  PROVE  IInv'
<1>1. items' = items /\ known' = known /\ pc' = [pc EXCEPT ![t] = "check"]
  BY DEF CollectRss, CollectVideos, CollectGithub, CollectHackerNews, FetchEach, tables, Goto
<1>2. \E x : todo' = [todo EXCEPT ![t] = x]
  BY DEF CollectRss, CollectVideos, CollectGithub, CollectHackerNews, FetchEach
<1>3. "check" \in Steps \ Inserting
  BY DEF Steps, Inserting
<1> QED BY <1>1, <1>2, <1>3, Elsewhere DEF IInv, Shape

(* The question.                                                           *)
LEMMA SkipInv == ASSUME IInv, NEW t \in Tasks, SkipKnown(t) PROVE IInv'
BY DEF SkipKnown, Next1, tables, IInv, Shape, Asked, Unasked, Inserting

(* The pass asks for the first URL of its list.                            *)
LEMMA FindInv == ASSUME IInv, NEW t \in Tasks, FindNew(t) PROVE IInv'
<1>1. /\ items' = items /\ todo' = todo /\ pc' = [pc EXCEPT ![t] = "insert"] /\ todo[t] # <<>>
      /\ known' = [known EXCEPT ![t] = items[Head(todo[t])]]
  BY DEF FindNew, tables, Goto
<1>2. Head(todo[t]) \in Urls => items[Head(todo[t])] = 0
  BY DEF FindNew, Exists, IInv, Shape
<1> QED BY <1>1, <1>2 DEF IInv, Shape, Asked, Unasked, Steps, Inserting

(* The question failed: the pass inserts without knowing.                  *)
LEMMA CannotAskInv == ASSUME IInv, NEW t \in Tasks, CannotAsk(t) PROVE IInv'
<1>1. /\ items' = items /\ todo' = todo /\ pc' = [pc EXCEPT ![t] = "insert"] /\ todo[t] # <<>>
      /\ known' = [known EXCEPT ![t] = Unasked]
  BY DEF CannotAsk, tables, Goto
<1> QED BY <1>1 DEF IInv, Shape, Asked, Unasked, Steps, Inserting

(* One more row.                                                           *)
LEMMA OneMore ==
  ASSUME IInv, NEW x, items' = [items EXCEPT ![x] = @ + 1], items[x] < MaxCopies
  PROVE  items' \in [Urls -> 0 .. MaxCopies]
<1>1. items \in [Urls -> 0 .. MaxCopies] /\ MaxCopies \in Nat
  BY PulseAssumption DEF IInv, Shape
<1>2. CASE x \in Urls
  <2>1. items[x] + 1 \in 0 .. MaxCopies
    BY <1>1, <1>2
  <2> QED BY <1>1, <2>1
<1>3. CASE x \notin Urls
  BY <1>1, <1>3
<1> QED BY <1>2, <1>3

(* The insert left behind by a dropped request.                            *)
LEMMA LateInv == ASSUME IInv, NEW t \in Tasks, InsertLate(t) PROVE IInv'
<1>1. items' \in [Urls -> 0 .. MaxCopies]
  BY OneMore DEF InsertLate, IInv, Shape
<1>2. /\ pc' = [s \in Tasks |-> IF s \in {t} THEN "idle" ELSE pc[s]]
      /\ todo' = [s \in Tasks |-> IF s \in {t} THEN <<>> ELSE todo[s]]
      /\ known' = [s \in Tasks |-> IF s \in {t} THEN 0 ELSE known[s]]
  BY DEF InsertLate, Left
<1> QED BY <1>1, <1>2 DEF IInv, Shape, Asked, Unasked, Steps, Inserting

(* The answer is used.                                                     *)
LEMMA InsertInv == ASSUME IInv, NEW t \in Tasks, Insert(t) \/ InsertFails(t) PROVE IInv'
<1>1. /\ pc' = [pc EXCEPT ![t] = "check"] /\ known' = [known EXCEPT ![t] = 0]
      /\ todo' = [todo EXCEPT ![t] = Tail(@)]
  BY DEF Insert, InsertFails, Next1, Goto
<1>2. items' \in [Urls -> 0 .. MaxCopies]
  <2>1. CASE Insert(t)
    BY <2>1, OneMore DEF Insert
  <2>2. CASE InsertFails(t)
    BY <2>2 DEF InsertFails, tables, IInv, Shape
  <2> QED BY <2>1, <2>2
<1> QED BY <1>1, <1>2 DEF IInv, Shape, Asked, Unasked, Steps, Inserting

(* Every step keeps the invariant.                                         *)
LEMMA NextInv == IInv /\ [Next]_vars => IInv'
<1> SUFFICES ASSUME IInv, [Next]_vars PROVE IInv'
  OBVIOUS
<1>1. CASE UNCHANGED <<items, pc, known, todo>>
  BY <1>1 DEF IInv, Shape, Asked, Unasked
<1>2. CASE UNCHANGED vars
  BY <1>1, <1>2 DEF vars, tables, pass
<1>3. ASSUME NEW t \in Tasks, Pass(t) \/ Trigger(t) \/ Abandon(t) \/ InsertLate(t) PROVE IInv'
  BY <1>3, StartInv, LeaveInv, AbandonInv, LateInv, FetchInv, SkipInv, FindInv, CannotAskInv, InsertInv DEF Pass
<1>4. ASSUME NEW c \in Tables, NEW f \in UserFeeds[c], AddFeed(c, f) \/ RemoveFeed(c, f) PROVE IInv'
  BY <1>1, <1>4 DEF AddFeed, RemoveFeed, pass
<1> QED BY <1>2, <1>3, <1>4, RestartInv DEF Next

(* Rows are only added by an insert, or by one left behind.                *)
LEMMA OnlyInsert ==
  ASSUME [Next]_vars, items' # items
  PROVE  \E t \in Tasks : Insert(t) \/ InsertLate(t)
<1>1. ~(UNCHANGED vars) /\ ~Restart
  BY DEF vars, tables, Restart
<1>2. ASSUME NEW c \in Tables, NEW f \in UserFeeds[c], AddFeed(c, f) \/ RemoveFeed(c, f) PROVE FALSE
  BY <1>2 DEF AddFeed, RemoveFeed
<1>3. ASSUME NEW t \in Tasks, Pass(t) \/ Trigger(t) \/ Abandon(t) \/ InsertLate(t)
      PROVE  Insert(t) \/ InsertLate(t)
  <2>1. CASE Trigger(t) \/ Abandon(t)
    BY <2>1 DEF Trigger, Abandon, tables
  <2>2. CASE Pass(t)
    BY <2>2 DEF Pass, StartRun, StartFails, CollectRss, CollectVideos, CollectGithub, FetchEach,
                CollectHackerNews, CollectFails, SkipKnown, FindNew, CannotAsk, InsertFails,
                FinishRun, FinishFails, tables
  <2> QED BY <1>3, <2>1, <2>2
<1> QED BY <1>1, <1>2, <1>3 DEF Next

(* Another row of a URL comes from a pass whose answer is out of date.     *)
LEMMA StaleAnswer ==
  ASSUME IInv, [Next]_vars, NEW u \in Urls \ {NoLink}, items'[u] > items[u], items[u] > 0
  PROVE  \E t \in Tasks : pc[t] \in Inserting /\ Head(todo[t]) = u /\ known[t] # items[u]
<1>1. items[u] \in 1 .. MaxCopies
  BY DEF IInv, Shape
<1>2. items' # items
  BY <1>1
<1>3. PICK t \in Tasks : Insert(t) \/ InsertLate(t)
  BY <1>2, OnlyInsert
<1>4. pc[t] \in Inserting
  BY <1>3 DEF Insert, InsertLate, Inserting
<1>5. Head(todo[t]) = u
  BY <1>1, <1>2, <1>3 DEF Insert, InsertLate, IInv, Shape
<1>6. known[t] \in {0, Unasked}
  BY <1>4, <1>5 DEF IInv, Asked
<1>7. known[t] # items[u]
  BY <1>1, <1>6, PulseAssumption DEF Unasked
<1> QED BY <1>4, <1>5, <1>7

-----------------------------------------------------------------------------
(* A set of natural numbers that is not empty has a least element.         *)
LEMMA Least ==
  ASSUME NEW T \in SUBSET Nat, T # {}
  PROVE  \E x \in T : \A y \in T : x <= y
<1> DEFINE R == OpToRel(<, Nat)
<1>1. IsWellFoundedOn(R, Nat)
  BY NatLessThanWellFounded
<1>2. \A x, y \in T : y < x => <<y, x>> \in R
  BY DEF OpToRel
<1> HIDE DEF R
<1>3. \E x \in T : \A y \in T : ~(<<y, x>> \in R)
  BY <1>1, WFMin
<1>4. PICK x \in T : \A y \in T : ~(<<y, x>> \in R)
  BY <1>3
<1>5. ASSUME NEW y \in T PROVE x <= y
  <2>1. ~(y < x)
    BY <1>2, <1>4
  <2> QED BY <2>1
<1> QED BY <1>5

(* Whatever is fetched, the list is one of URLs.                           *)
LEMMA ListedType == ASSUME NEW S PROVE Listed(S) \in Seq(Urls)
<1> DEFINE n == Len(Feeds)
           part(i) == IF Feeds[i] \in S THEN Entries[Feeds[i]] ELSE <<>>
           Sum(g, k) == g = [i \in 0 .. k |-> IF i = 0 THEN <<>> ELSE g[i - 1] \o part(i)]
<1>0. n \in Nat
  BY PulseAssumption
<1>p. \A i \in 1 .. n : part(i) \in Seq(Urls)
  <2> TAKE i \in 1 .. n
  <2>1. Feeds[i] \in DOMAIN Entries
    BY PulseAssumption
  <2> QED BY <2>1, PulseAssumption
<1>d. Listed(S) = (CHOOSE g : Sum(g, n))[n]
  BY DEF Listed
<1> HIDE DEF n, part
<1>1. \E g : Sum(g, n)
  <2> DEFINE T == {k \in 0 .. n : ~\E g : Sum(g, k)}
  <2>1. ASSUME T # {} PROVE FALSE
    <3> HIDE DEF Sum
    <3>1. T \in SUBSET Nat
      BY <1>0
    <3>2. PICK k \in T : \A y \in T : k <= y
      BY <2>1, <3>1, Least
    <3>3. k \in 0 .. n /\ ~\E g : Sum(g, k)
      OBVIOUS
    <3> USE DEF Sum
    <3>4. k # 0
      <4>1. Sum([i \in 0 .. 0 |-> <<>>], 0)
        OBVIOUS
      <4> HIDE DEF Sum
      <4> QED BY <3>3, <4>1
    <3>5. k - 1 \in 0 .. n /\ k - 1 \notin T
      <4> HIDE DEF Sum, T
      <4> QED BY <3>1, <3>2, <3>3, <3>4, <1>0
    <3>6. PICK h : Sum(h, k - 1)
      <4> HIDE DEF Sum
      <4> QED BY <3>5
    <3> DEFINE g == [i \in 0 .. k |-> IF i = k THEN h[k - 1] \o part(k) ELSE h[i]]
    <3>7. \A i \in 0 .. k : g[i] = IF i = 0 THEN <<>> ELSE g[i - 1] \o part(i)
      <4> TAKE i \in 0 .. k
      <4>1. k \in Nat /\ k > 0 /\ i \in Nat
        BY <1>0, <3>3, <3>4
      <4>2. CASE i = k
        <5>1. g[k] = h[k - 1] \o part(k) /\ g[k - 1] = h[k - 1]
          BY <4>1
        <5> HIDE DEF g
        <5>2. g[k] = IF k = 0 THEN <<>> ELSE g[k - 1] \o part(k)
          BY <5>1, <4>1
        <5> QED BY <5>2, <4>2
      <4>3. CASE i # k
        <5>1. i \in 0 .. k - 1 /\ (i # 0 => i - 1 \in 0 .. k /\ i - 1 # k)
          BY <4>1, <4>3
        <5>2. g[i] = h[i] /\ (i # 0 => g[i - 1] = h[i - 1])
          BY <5>1, <4>3
        <5> HIDE DEF g
        <5> QED BY <5>1, <5>2, <3>6
      <4> QED BY <4>2, <4>3
    <3>8. Sum(g, k)
      <4>1. g = [i \in 0 .. k |-> g[i]]
        OBVIOUS
      <4> HIDE DEF g
      <4> QED BY <3>7, <4>1
    <3> HIDE DEF Sum, g
    <3> QED BY <3>3, <3>8
  <2> HIDE DEF Sum
  <2> QED BY <2>1, <1>0
<1> DEFINE f == CHOOSE g : Sum(g, n)
<1>2. Sum(f, n)
  <2> HIDE DEF Sum
  <2> QED BY <1>1
<1> HIDE DEF f
<1>3. \A i \in 0 .. n : f[i] = IF i = 0 THEN <<>> ELSE f[i - 1] \o part(i)
  BY <1>2
<1>4. f[n] \in Seq(Urls)
  <2> HIDE DEF Sum
  <2> DEFINE T == {k \in 0 .. n : f[k] \notin Seq(Urls)}
  <2>1. ASSUME T # {} PROVE FALSE
    <3>1. T \in SUBSET Nat
      BY <1>0
    <3>2. PICK k \in T : \A y \in T : k <= y
      BY <2>1, <3>1, Least
    <3>3. k \in 0 .. n /\ f[k] \notin Seq(Urls)
      OBVIOUS
    <3>a. k # 0
      <4>1. f[0] = <<>>
        BY <1>0, <1>3
      <4>2. f[0] \in Seq(Urls)
        BY <4>1
      <4> QED BY <3>3, <4>2
    <3>4. k - 1 \in 0 .. n /\ k - 1 \notin T /\ k \in 1 .. n
      <4> HIDE DEF T
      <4> QED BY <3>1, <3>2, <3>3, <3>a, <1>0
    <3>5. f[k - 1] \in Seq(Urls)
      BY <3>4
    <3>6. part(k) \in Seq(Urls)
      BY <3>4, <1>p
    <3>7. f[k] = f[k - 1] \o part(k)
      BY <3>3, <3>a, <1>3
    <3> HIDE DEF T
    <3> QED BY <3>3, <3>5, <3>6, <3>7
  <2> QED BY <2>1, <1>0
<1> HIDE DEF Sum
<1> QED BY <1>d, <1>4 DEF f

(* The part of the type invariant that IInv leaves open.                   *)
Holding ==
  /\ feeds \in [Tables -> SUBSET ToSet(Feeds)]
  /\ run \in [Tasks -> [status : Statuses, count : Nat]]
  /\ of \in [Tasks -> Collectors \cup {Nobody}]
  /\ todo \in [Tasks -> Seq(Urls)]
  /\ known \in [Tasks -> 0 .. Unasked]
  /\ inserted \in [Tasks -> Nat]
  /\ faults \in 0 .. MaxFaults

(* No more faults than there may be.                                       *)
LEMMA FaultType == ASSUME Holding, Fault \/ UNCHANGED faults PROVE faults' \in 0 .. MaxFaults
BY PulseAssumption DEF Holding, Fault

(* Passes that are over hold nothing.                                      *)
LEMMA LeftType ==
  ASSUME Holding, NEW S \in SUBSET Tasks, NEW next, Left(S, next)
  PROVE  /\ of' \in [Tasks -> Collectors \cup {Nobody}] /\ todo' \in [Tasks -> Seq(Urls)]
         /\ known' \in [Tasks -> 0 .. Unasked] /\ inserted' \in [Tasks -> Nat]
<1>1. Unasked \in Nat
  BY PulseAssumption DEF Unasked
<1> QED BY <1>1 DEF Holding, Left

(* What is asked for, noted or put on the list.                            *)
LEMMA StartType ==
  ASSUME Holding, NEW t \in Tasks,
         Trigger(t) \/ StartRun(t) \/ CollectFails(t)
  PROVE  Holding'
<1>1. CASE Trigger(t)
  BY <1>1 DEF Trigger, tables, Holding
<1>2. CASE StartRun(t)
  <2>1. [status |-> "running", count |-> 0] \in [status : Statuses, count : Nat]
    BY DEF Statuses
  <2> QED BY <1>2, <2>1 DEF StartRun, Holding
<1>3. CASE CollectFails(t)
  <2>1. faults' \in 0 .. MaxFaults
    BY <1>3, FaultType DEF CollectFails
  <2> QED BY <1>3, <2>1 DEF CollectFails, tables, Holding
<1> QED BY <1>1, <1>2, <1>3

(* The end of a pass.                                                      *)
LEMMA LeaveType ==
  ASSUME IInv, Holding, NEW t \in Tasks,
         StartFails(t) \/ FinishRun(t) \/ FinishFails(t) \/ Abandon(t) \/ InsertLate(t)
  PROVE  Holding'
<1>1. \/ \E next : Left({t}, next)
      \/ /\ pc[t] = "insert" /\ known' = known
         /\ of' = [of EXCEPT ![t] = Nobody] /\ inserted' = [inserted EXCEPT ![t] = 0]
         /\ todo' = [todo EXCEPT ![t] = <<Head(@)>>]
  BY DEF StartFails, FinishRun, FinishFails, Abandon, InsertLate
<1>e. pc[t] = "insert" => <<Head(todo[t])>> \in Seq(Urls)
  BY DEF Holding, IInv, Asked, Inserting
<1>2. /\ of' \in [Tasks -> Collectors \cup {Nobody}] /\ todo' \in [Tasks -> Seq(Urls)]
      /\ known' \in [Tasks -> 0 .. Unasked] /\ inserted' \in [Tasks -> Nat]
  <2>1. CASE \E next : Left({t}, next)
    BY <2>1, LeftType
  <2>2. CASE /\ pc[t] = "insert" /\ known' = known
             /\ of' = [of EXCEPT ![t] = Nobody] /\ inserted' = [inserted EXCEPT ![t] = 0]
             /\ todo' = [todo EXCEPT ![t] = <<Head(@)>>]
    BY <2>2, <1>e DEF Holding
  <2> QED BY <1>1, <2>1, <2>2
<1>3. Fault \/ UNCHANGED faults
  BY DEF StartFails, FinishRun, FinishFails, Abandon, InsertLate
<1>4. feeds' = feeds /\ run' \in [Tasks -> [status : Statuses, count : Nat]]
  <2>1. CASE FinishRun(t)
    <3>1. /\ [status |-> Outcome(TRUE), count |-> inserted[t]] \in [status : Statuses, count : Nat]
          /\ [status |-> Outcome(FALSE), count |-> 0] \in [status : Statuses, count : Nat]
      BY DEF Outcome, Statuses, Holding
    <3> QED BY <2>1, <3>1 DEF FinishRun, Holding
  <2>2. CASE StartFails(t) \/ FinishFails(t) \/ Abandon(t) \/ InsertLate(t)
    BY <2>2 DEF StartFails, FinishFails, Abandon, InsertLate, tables, Holding
  <2> QED BY <2>1, <2>2
<1>5. faults' \in 0 .. MaxFaults
  BY <1>3, FaultType
<1> QED BY <1>2, <1>4, <1>5 DEF Holding

(* A fetch.                                                                *)
LEMMA FetchType ==
  ASSUME Holding, NEW t \in Tasks,
         CollectRss(t) \/ CollectVideos(t) \/ CollectGithub(t) \/ CollectHackerNews(t)
  PROVE  Holding'
<1>1. CASE CollectRss(t) \/ CollectVideos(t) \/ CollectGithub(t)
  <2>1. PICK S : FetchEach(t, S)
    BY <1>1 DEF CollectRss, CollectVideos, CollectGithub
  <2>2. \E R : todo' = [todo EXCEPT ![t] = Listed(R)]
    BY <2>1 DEF FetchEach
  <2>3. todo' \in [Tasks -> Seq(Urls)]
    BY <2>2, ListedType DEF Holding
  <2>4. faults' \in 0 .. MaxFaults
    BY <2>1, FaultType DEF FetchEach
  <2> QED BY <2>1, <2>3, <2>4 DEF FetchEach, tables, Holding
<1>2. CASE CollectHackerNews(t)
  <2> DEFINE e == Entries[HackerNews]
  <2>1. e \in Seq(Urls)
    BY PulseAssumption
  <2>2. \A i \in DOMAIN e : RemoveAt(e, i) \in Seq(Urls)
    <3> HIDE DEF e
    <3> TAKE i \in DOMAIN e
    <3>1. i \in 1 .. Len(e) /\ Len(e) \in Nat
      BY <2>1
    <3>2. SubSeq(e, 1, i - 1) \in Seq(Urls) /\ SubSeq(e, i + 1, Len(e)) \in Seq(Urls)
      BY <2>1, <3>1
    <3> QED BY <3>2 DEF RemoveAt
  <2>3. \E x \in Seq(Urls) : todo' = [todo EXCEPT ![t] = x]
    BY <1>2, <2>1, <2>2 DEF CollectHackerNews
  <2>4. faults' \in 0 .. MaxFaults
    BY <1>2, FaultType DEF CollectHackerNews
  <2>5. todo' \in [Tasks -> Seq(Urls)]
    BY <2>3 DEF Holding
  <2> QED BY <1>2, <2>4, <2>5 DEF CollectHackerNews, tables, Holding
<1> QED BY <1>1, <1>2

(* The question and the insert.                                            *)
LEMMA EntryType ==
  ASSUME IInv, Holding, NEW t \in Tasks,
         SkipKnown(t) \/ FindNew(t) \/ CannotAsk(t) \/ Insert(t) \/ InsertFails(t)
  PROVE  Holding'
<1>1. Unasked \in Nat /\ MaxCopies \in Nat /\ Unasked = MaxCopies + 1
  BY PulseAssumption DEF Unasked
<1>t. Tail(todo[t]) \in Seq(Urls) \/ todo[t] = <<>>
  BY DEF Holding
<1>2. CASE SkipKnown(t)
  BY <1>2, <1>t DEF SkipKnown, Next1, tables, Holding
<1>3. CASE FindNew(t)
  <2>1. Head(todo[t]) \in Urls
    BY <1>3 DEF FindNew, Holding
  <2>2. items[Head(todo[t])] \in 0 .. Unasked
    BY <2>1, <1>1 DEF IInv, Shape
  <2> QED BY <1>3, <2>2 DEF FindNew, tables, Holding
<1>4. CASE CannotAsk(t)
  <2>1. faults' \in 0 .. MaxFaults
    BY <1>4, FaultType DEF CannotAsk
  <2> QED BY <1>1, <1>4, <2>1 DEF CannotAsk, tables, Holding
<1>5. CASE Insert(t) \/ InsertFails(t)
  <2>1. faults' \in 0 .. MaxFaults
    BY <1>5, FaultType DEF Insert, InsertFails
  <2>2. todo[t] # <<>>
    BY <1>5 DEF Insert, InsertFails, IInv, Asked, Inserting
  <2>3. todo' \in [Tasks -> Seq(Urls)]
    BY <1>5, <1>t, <2>2 DEF Insert, InsertFails, Next1, Holding
  <2>4. known' \in [Tasks -> 0 .. Unasked] /\ inserted' \in [Tasks -> Nat]
    <3>1. known' = [known EXCEPT ![t] = 0]
      BY <1>5 DEF Insert, InsertFails
    <3>2. inserted' = inserted \/ inserted' = [inserted EXCEPT ![t] = @ + 1]
      BY <1>5 DEF Insert, InsertFails
    <3>3. known' \in [Tasks -> 0 .. Unasked]
      <4>1. 0 \in 0 .. Unasked
        BY <1>1
      <4> QED BY <3>1, <4>1 DEF Holding
    <3>4. inserted \in [Tasks -> Nat]
      BY DEF Holding
    <3> QED BY <3>2, <3>3, <3>4
  <2>5. UNCHANGED <<feeds, run, of>>
    BY <1>5 DEF Insert, InsertFails, tables
  <2> QED BY <2>1, <2>3, <2>4, <2>5 DEF Holding
<1> QED BY <1>2, <1>3, <1>4, <1>5

(* Every step keeps what the passes hold.                                  *)
LEMMA NextHolding == IInv /\ Holding /\ [Next]_vars => Holding'
<1> SUFFICES ASSUME IInv, Holding, [Next]_vars PROVE Holding'
  OBVIOUS
<1>1. CASE UNCHANGED vars
  BY <1>1 DEF vars, tables, pass, Holding
<1>2. ASSUME NEW t \in Tasks, Pass(t) \/ Trigger(t) \/ Abandon(t) \/ InsertLate(t) PROVE Holding'
  BY <1>2, StartType, LeaveType, FetchType, EntryType DEF Pass
<1>3. ASSUME NEW c \in Tables, NEW f \in UserFeeds[c], AddFeed(c, f) \/ RemoveFeed(c, f)
      PROVE  Holding'
  <2>1. f \in ToSet(Feeds)
    BY PulseAssumption
  <2>2. feeds' \in [Tables -> SUBSET ToSet(Feeds)]
    BY <1>3, <2>1 DEF AddFeed, RemoveFeed, Holding
  <2> QED BY <1>3, <2>2 DEF AddFeed, RemoveFeed, pass, Holding
<1>4. CASE Restart
  <2>1. \E next : Left(Tasks, next)
    BY <1>4 DEF Restart
  <2>2. /\ of' \in [Tasks -> Collectors \cup {Nobody}] /\ todo' \in [Tasks -> Seq(Urls)]
        /\ known' \in [Tasks -> 0 .. Unasked] /\ inserted' \in [Tasks -> Nat]
    BY <2>1, LeftType
  <2>3. faults' \in 0 .. MaxFaults
    BY <1>4, FaultType DEF Restart
  <2> QED BY <1>4, <2>2, <2>3 DEF Restart, tables, Holding
<1> QED BY <1>1, <1>2, <1>3, <1>4 DEF Next

(* The first state.                                                        *)
LEMMA InitHolding == Init => Holding
<1> SUFFICES ASSUME Init PROVE Holding
  OBVIOUS
<1>1. Unasked \in Nat /\ MaxFaults \in Nat
  BY PulseAssumption DEF Unasked
<1>2. feeds \in [Tables -> SUBSET ToSet(Feeds)]
  BY PulseAssumption DEF Init
<1>3. run \in [Tasks -> [status : Statuses, count : Nat]]
  BY DEF Init, Statuses
<1>4. /\ of \in [Tasks -> Collectors \cup {Nobody}]
      /\ todo \in [Tasks -> Seq(Urls)] /\ inserted \in [Tasks -> Nat]
  BY DEF Init
<1>5. known \in [Tasks -> 0 .. Unasked] /\ faults \in 0 .. MaxFaults
  BY <1>1 DEF Init
<1> QED BY <1>2, <1>3, <1>4, <1>5 DEF Holding

-----------------------------------------------------------------------------
(* The invariant is one of the specification.                              *)
THEOREM Invariance == Spec => []IInv
BY InitInv, NextInv, PTL DEF Spec

(* Rows, passes and feeds have their types; what a collector lists, a      *)
(* recursive function, is one of URLs by the lemma ListedType.             *)
THEOREM TypeCorrect == Spec => []TypeOK
<1>1. IInv /\ Holding => TypeOK
  BY DEF IInv, Shape, Holding, TypeOK
<1> QED BY <1>1, InitHolding, NextHolding, Invariance, PTL DEF Spec

(* A row is only added to another of its URL by a pass, perhaps gone, that *)
(* asked before that one was there, or whose question failed.              *)
THEOREM DuplicatesCorrect == Spec => DuplicatesOverlapped
<1>1. IInv /\ [Next]_vars =>
        [\A u \in Urls \ {NoLink} : items'[u] > items[u] /\ items[u] > 0 =>
           \E t \in Tasks : pc[t] \in Inserting /\ Head(todo[t]) = u /\ known[t] # items[u]]_vars
  BY StaleAnswer
<1> QED BY <1>1, Invariance, PTL DEF Spec, DuplicatesOverlapped
=============================================================================
