----------------------------- MODULE MCSpeakTurn -----------------------------
(* Instances of SpeakTurn for TLC.                                         *)
EXTENDS SpeakTurn

(* Every combination of the four flags.                                    *)
AllConfigs == ConfigType

(* The three configs that take different paths with the same subagent:     *)
(* streaming, cross-language bulk, same-language bulk.                     *)
FewConfigs ==
  {[translate |-> TRUE,  stream |-> TRUE,  onlyTranslate |-> TRUE,  chunked |-> TRUE],
   [translate |-> TRUE,  stream |-> FALSE, onlyTranslate |-> TRUE,  chunked |-> TRUE],
   [translate |-> FALSE, stream |-> TRUE,  onlyTranslate |-> FALSE, chunked |-> FALSE]}
=============================================================================
