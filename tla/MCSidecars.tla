----------------------------- MODULE MCSidecars -----------------------------
(* Sidecars for TLC.                                                        *)
EXTENDS Sidecars
=============================================================================
