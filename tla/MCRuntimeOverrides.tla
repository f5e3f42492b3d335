------------------------ MODULE MCRuntimeOverrides -------------------------
(* RuntimeOverrides for TLC: two values of everything a save may change,    *)
(* one request for each way a handler treats a field.                       *)
EXTENDS RuntimeOverrides, TLC

CONSTANTS U1, U2, L1, L2, A1, A2

MCToml    == [enabled |-> TRUE, tts |-> U1, on |-> FALSE, hook |-> FALSE,
              llm |-> L1, backend |-> "llm", agent |-> A1]
MCDefault == [enabled |-> FALSE, tts |-> U1, on |-> FALSE, hook |-> FALSE,
              llm |-> L1, backend |-> "llm"]
MCFiles   == {[Blank EXCEPT !.legacy = TRUE]}
MCBodies  ==
  [subagent |-> {"hook" :> TRUE @@ "backend" :> Unset, "backend" :> "odd"},
   avatar   |-> {"on" :> TRUE, "on" :> FALSE},
   agent    |-> {"agent" :> A2}]
Symmetry  == Permutations(Saves)
=============================================================================
