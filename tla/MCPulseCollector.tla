------------------------- MODULE MCPulseCollector --------------------------
(* PulseCollector for TLC: an RSS feed of companion.toml and one the user   *)
(* adds and removes; a video channel and Hacker News, which only a request  *)
(* runs, list an entry of the first again; GitHub has no repositories.      *)
EXTENDS PulseCollector

CONSTANTS F1, F2, V, U1, U2

MCFeeds      == <<F1, F2, V>>
MCToml       == [c \in {Rss, Github} |-> IF c = Rss THEN {F1} ELSE {}]
MCSubscribed == [c \in {Rss, Videos} |-> IF c = Videos THEN {V} ELSE {}]
MCUserFeeds  == [c \in {Rss, Videos} |-> IF c = Rss THEN {F2} ELSE {}]
MCEntries    == F1 :> <<U1>> @@ F2 :> <<U2>> @@ V :> <<U1>> @@ HackerNews :> <<U1, U1>>
=============================================================================
