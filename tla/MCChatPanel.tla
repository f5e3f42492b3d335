---------------------------- MODULE MCChatPanel ----------------------------
(* ChatPanel for TLC: two turns, two texts.  All its properties but one    *)
(* hold trivially once turns have crossed, so the runs that check those do *)
(* not go on from there.                                                   *)
EXTENDS ChatPanel

TwoTurns   == 1 .. 2
NotCrossed == ~crossed
=============================================================================
