----------------------------- MODULE MCWebPages -----------------------------
(* The two pages for TLC, each with the cache to itself: the first state    *)
(* says which one is open, and the other's variables stay as they are.      *)
EXTENDS Roster, PulseFeed

ASSUME PagesAssumption == RosterUrl \notin FeedUrls

VARIABLE open

pages == <<open, cache, fails, file, call, edits, restarts, overlap, clash, torn, db, page>>

Home == "home"
Pulse == "pulse"

PagesInit == open \in {Home, Pulse} /\ RosterInit /\ FeedInit
PagesNext ==
  \/ open = Home  /\ RosterNext /\ UNCHANGED <<open, db, page>>
  \/ open = Pulse /\ FeedNext   /\ UNCHANGED <<open, server>>

PagesSpec == PagesInit /\ [][PagesNext]_pages /\ (open = Pulse => FeedFairness)

(* The variables of the two pages and of their cache keep their types.     *)
PagesTypeOK == RosterTypeOK /\ FeedTypeOK

(* The feed page, where it is open, comes to show what the server has.      *)
PulseConverges == (open = Pulse) => FeedConverges
=============================================================================
