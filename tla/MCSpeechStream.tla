--------------------------- MODULE MCSpeechStream ---------------------------
EXTENDS SpeechStream

UpTo(S, n) == BoundedSeq(S, n)

(* One-token deltas, and a few that end and begin a sentence at once.       *)
SomeDeltas ==
  {<<t>> : t \in {Word, Abbr, Digit, Dot, Bang, Newline}}
    \cup {<<Bang, Word>>, <<Dot, Blank>>, <<Quote, Blank>>}

AllAnswers == UpTo(Tokens, 4)

(* Texts of words and "!" whose sentences fit the cap.                      *)
ShortTranslations ==
  {s \in UpTo({Word, Bang}, 8) : \A i \in DOMAIN RawSentences(s) : Len(RawSentences(s)[i]) <= HardCap}
=============================================================================
