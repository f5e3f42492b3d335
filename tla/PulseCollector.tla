--------------------------- MODULE PulseCollector ---------------------------
(***************************************************************************)
(* Pulse: the collectors that fetch news and the database they share       *)
(* (companion-pulse's scheduler.rs, storage.rs, lib.rs and collectors).    *)
(*                                                                         *)
(* Each enabled collector runs in a task of its own, at once and then at   *)
(* its interval; POST /api/pulse/trigger/{id} runs one inside its request. *)
(* A pass notes its start, fetches a list, and for each entry asks the     *)
(* database whether the URL is known before it inserts it.  Every          *)
(* statement has a connection of its own: statements are atomic, passes    *)
(* are not.  It runs in a blocking thread, which does not end with the     *)
(* request that waits for it.  Of the table of runs the model keeps each   *)
(* task's latest row.                                                      *)
(***************************************************************************)
EXTENDS Naturals, FiniteSets, Sequences, SequencesExt

CONSTANTS
  Collectors,  \* PulseSubsystem.collectors
  Rss, Videos, Github, HackerNews,
  Enabled,     \* collectors the scheduler runs
  Instant,     \* collectors whose interval parses to zero
  Triggers,    \* requests that may be served, or have an insert left, at the same time
  Feeds,       \* the feeds, channels and repositories there are, in the order they are fetched
  Toml,        \* those companion.toml lists for a collector
  Subscribed,  \* those its table holds when the server starts
  Entries,     \* the URLs each of them, and Hacker News, lists
  NoLink,      \* an entry without a URL
  MaxFaults,   \* how often a statement or a fetch may fail, or the server restart
  UserFeeds,   \* the feeds the user may add and remove
  MaxCopies    \* how many rows of one URL the model stores

Tasks  == Collectors \cup Triggers
Tables == {Rss, Videos}    \* whose feeds are in a table: user_feeds, video_channels
Urls   == UNION {{Entries[x][i] : i \in DOMAIN Entries[x]} : x \in DOMAIN Entries}

ASSUME PulseAssumption ==
  /\ Collectors \subseteq {Rss, Videos, Github, HackerNews}
  /\ Enabled \subseteq Collectors /\ Instant \subseteq Collectors \ {Videos}
  /\ Triggers \cap Collectors = {}
  /\ Toml \in [{Rss, Github} -> SUBSET ToSet(Feeds)]
  /\ Subscribed \in [Tables -> SUBSET ToSet(Feeds)]
  /\ UserFeeds \in [Tables -> SUBSET ToSet(Feeds)]
  /\ Feeds \in Seq(ToSet(Feeds)) /\ DOMAIN Entries = ToSet(Feeds) \cup {HackerNews}
  /\ \A x \in DOMAIN Entries : Entries[x] \in Seq(Urls)
  /\ MaxFaults \in Nat /\ MaxCopies \in Nat

VARIABLES
  items,    \* the table items: how many rows have the URL
  feeds,    \* the tables user_feeds and video_channels
  run,      \* the latest row of collector_runs of each task, its status and items_count
  pc,       \* where each task is
  of,       \* the collector it runs
  todo,     \* the entries it has fetched and not yet handled
  known,    \* history: how many rows of the first of them there were when it asked
  inserted, \* how many it has inserted
  faults    \* failures so far

tables  == <<items, feeds, run>>
pass    == <<pc, of, todo, known, inserted>>
vars    == <<tables, pass, faults>>

Steps     == {"idle", "due", "collect", "check", "insert", "late", "error", "dead"}
Inserting == {"insert", "late"}
Statuses  == {"none", "running", "success", "error"}
Nobody    == "nobody"
Unasked   == MaxCopies + 1    \* the question failed, or was not asked

TypeOK ==
  /\ items \in [Urls -> 0 .. MaxCopies]
  /\ feeds \in [Tables -> SUBSET ToSet(Feeds)]
  /\ run \in [Tasks -> [status : Statuses, count : Nat]]
  /\ pc \in [Tasks -> Steps]
  /\ of \in [Tasks -> Collectors \cup {Nobody}]
  /\ todo \in [Tasks -> Seq(Urls)]
  /\ known \in [Tasks -> 0 .. Unasked]
  /\ inserted \in [Tasks -> Nat]
  /\ faults \in 0 .. MaxFaults

(* PulseSubsystem::start: every enabled collector is due at once.           *)
AtStart(t) == IF t \in Enabled THEN "due" ELSE "idle"

Init ==
  /\ items = [u \in Urls |-> 0] /\ feeds = Subscribed
  /\ run   = [t \in Tasks |-> [status |-> "none", count |-> 0]]
  /\ pc    = [t \in Tasks |-> AtStart(t)]
  /\ of    = [t \in Tasks |-> IF t \in Collectors THEN t ELSE Nobody]
  /\ todo  = [t \in Tasks |-> <<>>]
  /\ known = [t \in Tasks |-> 0]
  /\ inserted = [t \in Tasks |-> 0]
  /\ faults = 0

-----------------------------------------------------------------------------
Goto(t, l) == pc' = [pc EXCEPT ![t] = l]
Fault      == faults < MaxFaults /\ faults' = faults + 1

(* run_collector returns, or is dropped, and what it held is gone.          *)
Left(S, next) ==
  /\ pc'       = [t \in Tasks |-> IF t \in S THEN next[t] ELSE pc[t]]
  /\ of'       = [t \in Tasks |-> IF t \in S \cap Triggers THEN Nobody ELSE of[t]]
  /\ todo'     = [t \in Tasks |-> IF t \in S THEN <<>> ELSE todo[t]]
  /\ known'    = [t \in Tasks |-> IF t \in S THEN 0 ELSE known[t]]
  /\ inserted' = [t \in Tasks |-> IF t \in S THEN 0 ELSE inserted[t]]

(* A request is answered.  A scheduled task is due again at its next tick;  *)
(* with a period of zero, tokio's interval panics instead.                  *)
AfterPass(t) ==
  IF t \in Triggers THEN "idle" ELSE IF t \in Instant THEN "dead" ELSE "due"

(* POST /api/pulse/trigger/{id}, for a disabled collector too.              *)
Trigger(t) ==
  /\ pc[t] = "idle" /\ t \in Triggers
  /\ \E c \in Collectors : of' = [of EXCEPT ![t] = c]
  /\ Goto(t, "due")
  /\ UNCHANGED <<tables, todo, known, inserted, faults>>

(* The row of the run is inserted.                                          *)
StartRun(t) ==
  /\ pc[t] = "due"
  /\ run'  = [run EXCEPT ![t] = [status |-> "running", count |-> 0]]
  /\ Goto(t, "collect")
  /\ UNCHANGED <<items, feeds, of, todo, known, inserted, faults>>

(* It cannot be: the pass is over.                                          *)
StartFails(t) ==
  /\ pc[t] = "due" /\ Fault
  /\ Left({t}, [x \in {t} |-> AfterPass(x)])
  /\ UNCHANGED tables

(* What a fetch of the feeds S returns, in the order of Feeds.              *)
Listed(S) ==
  LET upTo[i \in 0 .. Len(Feeds)] ==
        IF i = 0 THEN <<>>
        ELSE upTo[i - 1] \o (IF Feeds[i] \in S THEN Entries[Feeds[i]] ELSE <<>>)
  IN upTo[Len(Feeds)]

(* A feed that cannot be fetched is left out, and so are all of a table     *)
(* that cannot be read.                                                     *)
FetchEach(t, S) ==
  /\ pc[t] = "collect"
  /\ \/ todo' = [todo EXCEPT ![t] = Listed(S)] /\ UNCHANGED faults
     \/ Fault /\ \E R \in SUBSET S : R # S /\ todo' = [todo EXCEPT ![t] = Listed(R)]
  /\ Goto(t, "check")
  /\ UNCHANGED <<tables, of, known, inserted>>

(* Seeded fault: only the feeds of companion.toml are read.                 *)
RssFeeds_TomlOnly == Toml[Rss]

(* get_user_feeds, get_video_channels.                                      *)
UserRows  == feeds[Rss]
VideoRows == feeds[Videos]

(* The feeds of companion.toml and of the table, each once.                 *)
RssFeeds == Toml[Rss] \cup UserRows

CollectRss(t)    == of[t] = Rss /\ FetchEach(t, RssFeeds)
CollectVideos(t) == of[t] = Videos /\ FetchEach(t, VideoRows)
CollectGithub(t) == of[t] = Github /\ FetchEach(t, Toml[Github])

(* Hacker News: the list, without the stories that cannot be fetched.       *)
CollectHackerNews(t) ==
  /\ pc[t] = "collect" /\ of[t] = HackerNews
  /\ \/ todo' = [todo EXCEPT ![t] = Entries[HackerNews]] /\ UNCHANGED faults
     \/ Fault /\ \E i \in DOMAIN Entries[HackerNews] :
                  todo' = [todo EXCEPT ![t] = RemoveAt(Entries[HackerNews], i)]
  /\ Goto(t, "check")
  /\ UNCHANGED <<tables, of, known, inserted>>

(* The list itself cannot be fetched: the one error a collector reports.    *)
CollectFails(t) ==
  /\ pc[t] = "collect" /\ of[t] = HackerNews /\ Fault
  /\ Goto(t, "error")
  /\ UNCHANGED <<tables, of, todo, known, inserted>>

-----------------------------------------------------------------------------
(* item_exists_by_url.                                                      *)
(* Seeded fault: off by one.                                                *)
Exists_Twice(u) == items[u] > 1

Exists(u) == items[u] > 0

Next1(t) == todo' = [todo EXCEPT ![t] = Tail(@)]

(* The URL is known: the entry is passed over.                              *)
SkipKnown(t) ==
  /\ pc[t] = "check" /\ todo[t] # <<>> /\ Head(todo[t]) # NoLink
  /\ Exists(Head(todo[t]))
  /\ Next1(t)
  /\ UNCHANGED <<tables, pc, of, known, inserted, faults>>

(* It is not.                                                               *)
FindNew(t) ==
  /\ pc[t] = "check" /\ todo[t] # <<>> /\ Head(todo[t]) # NoLink
  /\ ~Exists(Head(todo[t]))
  /\ known' = [known EXCEPT ![t] = items[Head(todo[t])]]
  /\ Goto(t, "insert")
  /\ UNCHANGED <<tables, of, todo, inserted, faults>>

(* The question fails, or the entry has no URL to ask for.                  *)
CannotAsk(t) ==
  /\ pc[t] = "check" /\ todo[t] # <<>>
  /\ \/ Head(todo[t]) = NoLink /\ UNCHANGED faults
     \/ Head(todo[t]) # NoLink /\ Fault
  /\ known' = [known EXCEPT ![t] = Unasked]
  /\ Goto(t, "insert")
  /\ UNCHANGED <<tables, of, todo, inserted>>

(* insert_item.                                                             *)
Insert(t) ==
  /\ pc[t] = "insert" /\ items[Head(todo[t])] < MaxCopies
  /\ items' = [items EXCEPT ![Head(todo[t])] = @ + 1]
  /\ inserted' = [inserted EXCEPT ![t] = @ + 1]
  /\ known' = [known EXCEPT ![t] = 0]
  /\ Next1(t) /\ Goto(t, "check")
  /\ UNCHANGED <<feeds, run, of, faults>>

InsertFails(t) ==
  /\ pc[t] = "insert" /\ Fault
  /\ known' = [known EXCEPT ![t] = 0]
  /\ Next1(t) /\ Goto(t, "check")
  /\ UNCHANGED <<tables, of, inserted>>

(* Seeded fault: a status the readers of the table do not know.             *)
Outcome_Failed(ok) == IF ok THEN "success" ELSE "failed"

Outcome(ok) == IF ok THEN "success" ELSE "error"

(* The row of the run is completed.                                         *)
FinishRun(t) ==
  /\ \/ /\ pc[t] = "check" /\ todo[t] = <<>>
        /\ run' = [run EXCEPT ![t] = [status |-> Outcome(TRUE), count |-> inserted[t]]]
     \/ /\ pc[t] = "error"
        /\ run' = [run EXCEPT ![t] = [status |-> Outcome(FALSE), count |-> 0]]
  /\ Left({t}, [x \in {t} |-> AfterPass(x)])
  /\ UNCHANGED <<items, feeds, faults>>

(* It cannot be, and stays "running".                                       *)
FinishFails(t) ==
  /\ pc[t] = "error" \/ (pc[t] = "check" /\ todo[t] = <<>>)
  /\ Fault
  /\ Left({t}, [x \in {t} |-> AfterPass(x)])
  /\ UNCHANGED tables

(* Whoever triggered a collector goes away: the request is dropped where    *)
(* it awaits, and the pass with it.  The statement it waits for may still   *)
(* be carried out: an insert is left behind; a statement about the row of   *)
(* the run, which nobody else touches, is as one before the drop.           *)
Abandon(t) ==
  /\ t \in Triggers /\ pc[t] \notin {"idle", "late"}
  /\ \/ Left({t}, [x \in {t} |-> "idle"])
     \/ /\ pc[t] = "insert" /\ Goto(t, "late")
        /\ of'       = [of EXCEPT ![t] = Nobody]
        /\ todo'     = [todo EXCEPT ![t] = <<Head(@)>>]
        /\ inserted' = [inserted EXCEPT ![t] = 0]
        /\ UNCHANGED known
  /\ UNCHANGED <<tables, faults>>

(* The insert left behind is carried out, or fails.                         *)
InsertLate(t) ==
  /\ pc[t] = "late"
  /\ \/ /\ items[Head(todo[t])] < MaxCopies
        /\ items' = [items EXCEPT ![Head(todo[t])] = @ + 1] /\ UNCHANGED faults
     \/ Fault /\ UNCHANGED items
  /\ Left({t}, [x \in {t} |-> "idle"])
  /\ UNCHANGED <<feeds, run>>

(* POST and DELETE /api/pulse/feeds, and /api/pulse/videos.                 *)
AddFeed(c, f) ==
  /\ f \notin feeds[c] /\ feeds' = [feeds EXCEPT ![c] = @ \cup {f}]
  /\ UNCHANGED <<items, run, pass, faults>>

RemoveFeed(c, f) ==
  /\ f \in feeds[c] /\ feeds' = [feeds EXCEPT ![c] = @ \ {f}]
  /\ UNCHANGED <<items, run, pass, faults>>

(* The server is killed and started again: the tables stay.                 *)
Restart ==
  /\ Fault
  /\ Left(Tasks, [x \in Tasks |-> AtStart(x)])
  /\ UNCHANGED tables

Pass(t) ==
  \/ StartRun(t) \/ StartFails(t)
  \/ CollectRss(t) \/ CollectVideos(t) \/ CollectGithub(t)
  \/ CollectHackerNews(t) \/ CollectFails(t)
  \/ SkipKnown(t) \/ FindNew(t) \/ CannotAsk(t) \/ Insert(t) \/ InsertFails(t)
  \/ FinishRun(t) \/ FinishFails(t)

Next ==
  \/ \E t \in Tasks : Pass(t) \/ Trigger(t) \/ Abandon(t) \/ InsertLate(t)
  \/ \E c \in Tables : \E f \in UserFeeds[c] : AddFeed(c, f) \/ RemoveFeed(c, f)
  \/ Restart

Spec == Init /\ [][Next]_vars

(* The runtime polls every task that can go on, and time passes.            *)
FairSpec == Spec /\ \A t \in Enabled : WF_vars(Pass(t))

-----------------------------------------------------------------------------
(* collectors/mod.rs:5-6 leaves it to the storage to keep URLs apart, which *)
(* has no constraint for it.  What holds is that a row is only added to     *)
(* another of its URL by a pass that asked before that one was there, or    *)
(* whose question failed, and which may be gone while its insert is still   *)
(* under way.  So a URL is repeated only if two passes overlap, a pass with *)
(* the insert of a dropped request, or a question fails: not by one pass    *)
(* after another, whoever lists it how often, and not across restarts.      *)
DuplicatesOverlapped ==
  [][\A u \in Urls \ {NoLink} : items'[u] > items[u] /\ items[u] > 0 =>
       \E t \in Tasks : pc[t] \in Inserting /\ Head(todo[t]) = u /\ known[t] # items[u]]_vars

(* A feed the user adds is picked up without a restart: once failures stop, *)
(* what it lists is stored, unless it is removed first.                     *)
FeedIsCollected ==
  \A f \in UserFeeds[Rss] :
    f \in feeds[Rss] ~>
      (f \notin feeds[Rss] \/ \A i \in DOMAIN Entries[f] : Exists(Entries[f][i]))
=============================================================================
