---------------------------- MODULE MCTtsSidecar ----------------------------
(* TtsSidecar for TLC: the boot manager and a save's.  The warm engine     *)
(* listens where the boot manager expects one, and the save keeps that     *)
(* api_url or moves to another.                                            *)
EXTENDS TtsSidecar

CONSTANT Saved

MCManagers == {Boot, Saved}
MCSetups ==
  {[url   |-> [e \in {Boot, Saved, Warm} |-> IF e = Saved THEN u ELSE 1],
    wraps |-> b] : u \in {1, 2}, b \in BOOLEAN}

(* All of them but a shell in front of engines at two URLs.                *)
SomeSetups == {s \in MCSetups : s.wraps => s.url[Saved] = 1}
=============================================================================
