------------------------------ MODULE PulseFeed ------------------------------
(***************************************************************************)
(* The feed page (web/src/pages/Pulse.tsx, FeedTab and its drawer) over    *)
(* the cache, and the server it reads (pulse_api.rs, storage.rs and        *)
(* summarizer.rs of companion-pulse).                                      *)
(*                                                                         *)
(* fetchAll waits for the feed and two counters before it replaces the     *)
(* list, every 30 s and when the filter changes; marking an item and       *)
(* summarising it patch the list when the server has answered.  The        *)
(* counters are left out, and so are new items (PulseCollector).           *)
(***************************************************************************)
EXTENDS FetchCache

CONSTANTS
  Items,      \* the stored items
  AllUrl,     \* /api/pulse/feed with the filter off
  UnreadUrl,  \* the same with unread=1
  Loads,      \* fetchAll calls under way at a time
  Drawers,    \* summarize requests under way at a time
  AllItems,   \* "Mark all read" was clicked
  NoItem,
  MaxClicks   \* what the user clicks, filter changes included

FeedUrls == {AllUrl, UnreadUrl}

ASSUME FeedAssumption == MaxClicks \in Nat /\ MaxFails \in Nat /\ FeedUrls \subseteq Keys

VARIABLES
  read,     \* items.read_at is set
  summary,  \* items.summary: none, or the number of the request that made it
  list,     \* FeedTab's items
  filter,   \* the URL its filter stands for
  load,     \* its fetchAll calls
  mark,     \* the item being marked, how far the request is, and the filter at the click
  job,      \* the summaries being made
  clicks,
  cause     \* history: the job that wrote a summary last

db   == <<read, summary, cause>>
page == <<list, filter, load, mark, job, clicks>>
feed == <<cache, fails, db, page>>

None == 0
Rows == [read : BOOLEAN, summary : 0 .. MaxClicks]
Lists == UNION {[I -> Rows] : I \in SUBSET Items}

IdleLoad == [phase |-> "idle", url |-> AllUrl, got |-> [i \in {} |-> 0]]
IdleMark == [phase |-> "idle", item |-> NoItem, read |-> TRUE, url |-> AllUrl]
IdleJob  == [phase |-> "idle", item |-> NoItem, force |-> FALSE, saw |-> None, made |-> None]

FeedTypeOK ==
  /\ CacheTypeOK(FeedUrls, Lists)
  /\ read \in SUBSET Items /\ summary \in [Items -> 0 .. MaxClicks]
  /\ list \in Lists /\ filter \in FeedUrls
  /\ load \in [Loads -> [phase : {"idle", "waiting", "ready"}, url : FeedUrls, got : Lists]]
  /\ mark \in [phase : {"idle", "sent", "done"}, item : Items \cup {AllItems, NoItem}, read : BOOLEAN,
               url : FeedUrls]
  /\ job \in [Drawers -> [phase : {"idle", "sent", "asking", "done"}, item : Items \cup {NoItem},
                          force : BOOLEAN, saw : 0 .. MaxClicks, made : 0 .. MaxClicks]]
  /\ clicks \in 0 .. MaxClicks
  /\ cause \in [force : BOOLEAN, saw : 0 .. MaxClicks]

FeedInit ==
  /\ CacheInit
  /\ read = {} /\ summary = [i \in Items |-> None]
  /\ list = [i \in {} |-> 0] /\ filter = AllUrl
  /\ load = [n \in Loads |-> IdleLoad] /\ mark = IdleMark /\ job = [d \in Drawers |-> IdleJob]
  /\ clicks = 0 /\ cause = [force |-> FALSE, saw |-> None]

-----------------------------------------------------------------------------
(* The server.                                                              *)

(* get_feed: the rows of one URL.                                           *)
Feed(url) ==
  [i \in {j \in Items : url = AllUrl \/ j \notin read} |-> [read |-> i \in read, summary |-> summary[i]]]

GetFeed(url) == Answer(url, Feed(url)) /\ UNCHANGED <<db, page>>

(* mark_item_read and mark_all_read.                                        *)
ServeMark ==
  /\ mark.phase = "sent" /\ mark' = [mark EXCEPT !.phase = "done"]
  /\ read' = IF mark.item = AllItems THEN Items
             ELSE IF mark.read THEN read \cup {mark.item} ELSE read \ {mark.item}
  /\ UNCHANGED <<cache, fails, summary, cause, list, filter, load, job, clicks>>

(* Seeded fault: the stored summary is not looked at.                       *)
Cached_Never(j) == FALSE

(* handle_summarize answers with the stored summary unless it is forced.    *)
Cached(j) == ~job[j].force /\ summary[job[j].item] # None

GetItem(j) ==
  /\ job[j].phase = "sent"
  /\ job' = [job EXCEPT ![j].phase = IF Cached(j) THEN "done" ELSE "asking",
                        ![j].saw   = summary[job[j].item],
                        ![j].made  = IF Cached(j) THEN summary[job[j].item] ELSE @]
  /\ UNCHANGED <<cache, fails, db, list, filter, load, mark, clicks>>

(* set_item_summary, whatever the row holds.                                *)
Stored(i, text) == [summary EXCEPT ![i] = text]

(* The summary is made, stored and sent back.                               *)
Store(j) ==
  /\ job[j].phase = "asking" /\ job' = [job EXCEPT ![j].phase = "done"]
  /\ summary' = Stored(job[j].item, job[j].made)
  /\ cause' = [force |-> job[j].force, saw |-> job[j].saw]
  /\ UNCHANGED <<cache, fails, read, list, filter, load, mark, clicks>>

-----------------------------------------------------------------------------
(* The page.                                                                *)

(* fetchAll: at once when the entry is fresh, else when its request is over.*)
FetchAll(n, url) ==
  /\ load[n].phase = "idle" /\ Ask(url)
  /\ load' = [load EXCEPT ![n] = IF Hit(url) THEN [phase |-> "ready", url |-> url, got |-> data[url]]
                                 ELSE [IdleLoad EXCEPT !.phase = "waiting", !.url = url]]

Poll(n) ==
  /\ FetchAll(n, filter)
  /\ UNCHANGED <<data, fresh, reply, fails, db, list, filter, mark, job, clicks>>

Click == clicks < MaxClicks /\ clicks' = clicks + 1

(* The effect runs again: the old calls go on, the new one starts.          *)
SetFilter(n, url) ==
  /\ Click /\ url # filter /\ filter' = url /\ FetchAll(n, url)
  /\ UNCHANGED <<data, fresh, reply, fails, db, list, mark, job>>

Waiting(url) == {n \in Loads : load[n].phase = "waiting" /\ load[n].url = url}

ArriveFeed(url) ==
  /\ Arrive(url)
  /\ load' = [n \in Loads |-> IF n \in Waiting(url) THEN [phase |-> "ready", url |-> url, got |-> reply[url]]
                              ELSE load[n]]
  /\ UNCHANGED <<db, list, filter, mark, job, clicks>>

FailFeed(url) ==
  /\ Fail(url)
  /\ load' = [n \in Loads |-> IF n \in Waiting(url) THEN IdleLoad ELSE load[n]]
  /\ UNCHANGED <<db, list, filter, mark, job, clicks>>

(* The counters are there as well: the list is replaced.                    *)
Show(n) ==
  /\ load[n].phase = "ready"
  /\ list' = load[n].got /\ load' = [load EXCEPT ![n] = IdleLoad]
  /\ UNCHANGED <<cache, fails, db, filter, mark, job, clicks>>

ClickMark(i, r) ==
  /\ Click /\ mark.phase = "idle" /\ (i = AllItems => r) /\ (i # AllItems => i \in DOMAIN list)
  /\ mark' = [phase |-> "sent", item |-> i, read |-> r, url |-> filter]
  /\ UNCHANGED <<cache, fails, db, list, filter, load, job>>

(* setRead patches the list and invalidates, also after an error status;    *)
Marked ==
  /\ mark.phase = "done" /\ mark.item # AllItems /\ mark' = IdleMark
  /\ list' = [i \in DOMAIN list |->
       IF i = mark.item THEN [list[i] EXCEPT !.read = mark.read] ELSE list[i]]
  /\ Invalidate(FeedUrls)
  /\ UNCHANGED <<db, filter, load, job, clicks>>

(* markAllRead invalidates and then reads the feed again, with the fetchAll *)
(* and so the filter of the click, which joins the request invalidateCache  *)
(* started, or the one that was under way.                                  *)
MarkedAll(n) ==
  /\ mark.phase = "done" /\ mark.item = AllItems /\ mark' = IdleMark
  /\ load[n].phase = "idle"
  /\ load' = [load EXCEPT ![n] = [IdleLoad EXCEPT !.phase = "waiting", !.url = mark.url]]
  /\ fresh' = [k \in Keys |-> fresh[k] /\ k \notin FeedUrls]
  /\ known' = known \cup {mark.url}
  /\ request' = [k \in Keys |-> IF k \in (FeedUrls \cap known) \cup {mark.url} /\ request[k] = "none"
                                THEN "sent" ELSE request[k]]
  /\ UNCHANGED <<data, reply, fails, db, list, filter, job, clicks>>

(* The server refuses it (an error status): setRead does not look.          *)
RefuseMark ==
  /\ mark.phase = "sent" /\ fails < MaxFails /\ fails' = fails + 1
  /\ mark' = IF mark.item = AllItems THEN IdleMark ELSE [mark EXCEPT !.phase = "done"]
  /\ UNCHANGED <<cache, db, list, filter, load, job, clicks>>

ClickSummarize(j, i, f) ==
  /\ Click /\ job[j].phase = "idle" /\ i \in DOMAIN list
  /\ job' = [job EXCEPT ![j] = [phase |-> "sent", item |-> i, force |-> f, saw |-> None, made |-> clicks']]
  /\ UNCHANGED <<cache, fails, db, list, filter, load, mark>>

(* 404, 502, 503 or no answer: the drawer shows the error.                  *)
RefuseJob(j) ==
  /\ job[j].phase \in {"sent", "asking"} /\ fails < MaxFails /\ fails' = fails + 1
  /\ job' = [job EXCEPT ![j] = IdleJob]
  /\ UNCHANGED <<cache, db, list, filter, load, mark, clicks>>

Summarized(j) ==
  /\ job[j].phase = "done" /\ job' = [job EXCEPT ![j] = IdleJob]
  /\ list' = [i \in DOMAIN list |->
       IF i = job[j].item THEN [list[i] EXCEPT !.summary = job[j].made] ELSE list[i]]
  /\ UNCHANGED <<cache, fails, db, filter, load, mark, clicks>>

ExpireFeed(url) == Expire(url) /\ UNCHANGED <<db, page>>

FeedNext ==
  \/ ServeMark \/ Marked \/ RefuseMark
  \/ \E url \in FeedUrls : GetFeed(url) \/ ArriveFeed(url) \/ FailFeed(url) \/ ExpireFeed(url)
  \/ \E n \in Loads : Poll(n) \/ Show(n) \/ MarkedAll(n) \/ \E url \in FeedUrls : SetFilter(n, url)
  \/ \E i \in Items \cup {AllItems}, r \in BOOLEAN : ClickMark(i, r)
  \/ \E j \in Drawers : \/ GetItem(j) \/ Store(j) \/ RefuseJob(j) \/ Summarized(j)
                        \/ \E i \in Items, f \in BOOLEAN : ClickSummarize(j, i, f)

FeedSpec == FeedInit /\ [][FeedNext]_feed

(* The server answers, the page handles what arrives, time passes and the   *)
(* 30 s timer of the page fires.                                            *)
FeedFairness ==
  /\ \A url \in FeedUrls : WF_feed(GetFeed(url)) /\ WF_feed(ArriveFeed(url)) /\ WF_feed(ExpireFeed(url))
  /\ \A n \in Loads : WF_feed(Show(n))
  /\ WF_feed(\E n \in Loads : Poll(n))
  /\ WF_feed(ServeMark) /\ WF_feed(Marked) /\ WF_feed(\E n \in Loads : MarkedAll(n))
  /\ \A j \in Drawers : WF_feed(GetItem(j)) /\ WF_feed(Store(j)) /\ WF_feed(Summarized(j))

-----------------------------------------------------------------------------
(* When the user leaves the page alone it comes to show what the server     *)
(* has, whatever patches, late answers of another filter and joined older   *)
(* requests have put in the list (FeedTab's fetchAll and its timer).        *)
FeedConverges == <>[](list = Feed(filter))

(* A summary is replaced only by a forced request or by one that read the   *)
(* item before that summary was stored (handle_summarize).                  *)
SummaryKept ==
  [][\A i \in Items :
       (summary[i] # None /\ summary'[i] # summary[i]) => (cause'.force \/ cause'.saw # summary[i])]_feed
=============================================================================
