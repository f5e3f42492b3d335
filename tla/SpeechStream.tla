----------------------------- MODULE SpeechStream -----------------------------
(***************************************************************************)
(* How a translated reply becomes the messages the synthesis reads:        *)
(* the SSE client (companion-core's llm.rs), the translators over it and   *)
(* their retries (translator.rs, subagent.rs), and the two ways of cutting *)
(* text at sentence ends, one delta at a time (pop_first_sentence in       *)
(* ws/mod.rs) or all at once (split_sentences in config.rs).  SpeakTurn    *)
(* takes the messages from here on.                                        *)
(*                                                                         *)
(* A text is a sequence of character classes.  Left out: full-width        *)
(* punctuation, which ends sentences as "!" does; code fences; sentences   *)
(* longer than the hard cap (soft_wrap_long).                              *)
(***************************************************************************)
EXTENDS Integers, SequencesExt

CONSTANTS
  Deltas,        \* what one event of the server may add
  MaxText,       \* how much it streams in all
  MaxWire,       \* bytes on their way at a time
  Answers,       \* whole translations
  Translations,  \* translated_text of an analysis
  Target,        \* TTS_SENT_TARGET
  HardCap        \* twice that

(* A word, a known abbreviation, a digit, "." , "!", a closing quote, a     *)
(* space and a line break.                                                  *)
Word == "word" Abbr == "abbr" Digit == "digit" Dot == "." Bang == "!"
Quote == "quote" Blank == " " Newline == "nl"
Tokens == {Word, Abbr, Digit, Dot, Bang, Quote, Blank, Newline}
White  == {Blank, Newline}

ASSUME TextAssumption ==
  /\ Deltas \subseteq Seq(Tokens) /\ Answers \subseteq Seq(Tokens) /\ Translations \subseteq Seq(Tokens)
  /\ MaxText \in Nat /\ MaxWire \in Nat /\ Target \in Nat /\ HardCap \in Nat /\ Target <= HardCap

(* Where a text has anything but white space.                               *)
Inked(s) == {i \in DOMAIN s : s[i] \notin White}

(* What a listener can tell apart.                                          *)
Visible(s) ==
  LET upto[n \in 0 .. Len(s)] ==
        IF n = 0 THEN <<>> ELSE IF n \in Inked(s) THEN Append(upto[n - 1], s[n]) ELSE upto[n - 1]
  IN upto[Len(s)]

TrimStart(s) == IF Inked(s) = {} THEN <<>> ELSE SubSeq(s, Min(Inked(s)), Len(s))
Trim(s)      == IF Inked(s) = {} THEN <<>> ELSE SubSeq(s, Min(Inked(s)), Max(Inked(s)))

(* Seeded fault: blank texts are sent, too.                                 *)
Spoken_Blank(s) == <<Trim(s)>>

(* No message is sent for a blank text.                                     *)
Spoken(s) == IF Trim(s) = <<>> THEN <<>> ELSE <<Trim(s)>>

-----------------------------------------------------------------------------
(* Sentence ends.                                                           *)

At(s, i) == IF i \in DOMAIN s THEN s[i] ELSE Blank

(* is_abbreviation: the run of non-blanks that ends at i, stripped of what  *)
(* is not alphanumeric on its left and of dots on its right.                *)
Abbreviation(s, i) ==
  \E k \in 1 .. i : /\ s[k] = Abbr
                    /\ \A n \in k + 1 .. i : s[n] = Dot
                    /\ \A m \in 1 .. k - 1 :
                         (\A n \in m .. k - 1 : s[n] \notin White) => s[m] \in {Quote, Dot}

Decimal(s, i) == At(s, i - 1) = Digit /\ At(s, i + 1) = Digit

(* raw_sentences.                                                           *)
EndsSentence(s, i) ==
  \/ s[i] \in {Bang, Newline}
  \/ s[i] = Dot /\ ~Decimal(s, i) /\ Dot \notin {At(s, i - 1), At(s, i + 1)} /\ ~Abbreviation(s, i)

(* Seeded fault: the buffer's text is cut at abbreviations.                 *)
EndsPopped_NoAbbreviation(s, i) ==
  \/ s[i] \in {Bang, Newline}
  \/ /\ s[i] = Dot /\ i > 1 /\ Dot \notin {At(s, i + 1), At(s, i - 1)} /\ ~Decimal(s, i)

(* pop_first_sentence: i.saturating_sub(1) makes a dot that is the first    *)
(* character its own predecessor, so it counts as part of an ellipsis.      *)
EndsPopped(s, i) ==
  \/ s[i] \in {Bang, Newline}
  \/ /\ s[i] = Dot /\ i > 1 /\ Dot \notin {At(s, i + 1), At(s, i - 1)}
     /\ ~Abbreviation(s, i - 1) /\ ~Decimal(s, i)

Before(s, n) == SubSeq(s, 1, n)
After(s, n)  == SubSeq(s, n + 1, Len(s))

(* The first of the sentence ends of s closes its sentence at index j, with *)
(* the quotes that follow; 0 if there is none.                              *)
Ended(s, j, ends) ==
  /\ At(s, j + 1) # Quote
  /\ \E i \in ends : /\ i <= j /\ \A k \in ends : i <= k
                    /\ \A n \in i + 1 .. j : s[n] = Quote

FirstEnd(s, ends) ==
  IF ends = {} THEN 0 ELSE CHOOSE j \in DOMAIN s : Ended(s, j, ends)

RawSentences(s) ==
  LET raw[k \in 0 .. Len(s)] ==
        LET r == After(s, k)
            n == FirstEnd(r, {i \in DOMAIN r : EndsSentence(r, i)})
        IN IF n = 0 THEN Spoken(r) ELSE Spoken(Before(r, n)) \o raw[k + n]
  IN raw[0]

(* Sentences i to j of r as one chunk, and its length without the joining   *)
(* blanks.                                                                  *)
Joined(r, i, j) == FlattenSeq([k \in 1 .. j - i + 1 |-> IF k = 1 THEN r[i] ELSE <<Blank>> \o r[i + k - 1]])
Size(r, i, j)   == Len(FlattenSeq(SubSeq(r, i, j)))

(* A chunk takes sentences until it has reached the target or the next one  *)
(* would exceed the cap.                                                    *)
Takes(r, i, j) == \A k \in i + 1 .. j : Size(r, i, k - 1) < Target /\ Size(r, i, k) <= HardCap

(* The last sentence of each chunk, from sentence i on.                     *)
Stops(r) ==
  LET from[i \in 1 .. Len(r) + 1] ==
        IF i > Len(r) THEN <<>>
        ELSE LET j == Max({k \in i .. Len(r) : Takes(r, i, k)}) IN <<j>> \o from[j + 1]
  IN from[1]

(* A short last chunk joins the one before it if that still fits.           *)
TailJoins(r, e) ==
  LET k == Len(e) IN
  /\ k > 1 /\ Size(r, e[k - 1] + 1, e[k]) < Target \div 3
  /\ Len(Joined(r, (IF k = 2 THEN 0 ELSE e[k - 2]) + 1, e[k - 1])) + Size(r, e[k - 1] + 1, e[k]) <= HardCap

SplitSentences(s) ==
  LET r == RawSentences(s)
      e == IF TailJoins(r, Stops(r)) THEN RemoveAt(Stops(r), Len(Stops(r)) - 1) ELSE Stops(r)
  IN [m \in DOMAIN e |-> Joined(r, (IF m = 1 THEN 0 ELSE e[m - 1]) + 1, e[m])]

Chunked == [s \in Translations \cup {<<>>} |-> SplitSentences(Trim(s))]

(* compute_tts_chunks: the whole text with streaming off.  A blank text is  *)
(* not spoken at all.                                                       *)
TtsChunks(s, streaming) == IF streaming THEN Chunked[s] ELSE Spoken(s)

-----------------------------------------------------------------------------
VARIABLES
  mode,      \* which way the reply takes
  attempt,   \* of the request
  phase,     \* where the call is
  written,   \* history: the text the server has sent in deltas, in order
  wire,      \* bytes under way
  bytes,     \* chat_stream's buf
  told,      \* chat_stream's full: what on_chunk got
  result,    \* how the call ended
  buf,       \* translation_buf
  sent,      \* the messages of the synthesis queue that have a text
  shown      \* spoken_text of the last Debug frame

vars == <<mode, attempt, phase, written, wire, bytes, told, result, buf, sent, shown>>

(* build_translator and process_speak: an LLM that streams, the agent's     *)
(* webhook behind the LLM translator, the NMT sidecar, and the analysis.    *)
Modes == {"stream", "webhook", "http", "analysis"}

Attempts == [stream |-> 1, webhook |-> 3, http |-> 1, analysis |-> 2]

Nl == [kind |-> "nl", text |-> <<>>]
Beat == [kind |-> "beat", text |-> <<>>]
Done == [kind |-> "done", text |-> <<>>]
Delta(d) == [kind |-> "delta", text |-> d]
Payloads == {Beat, Done} \cup {Delta(d) : d \in Deltas}

(* An SSE event: a data line and an empty line.                             *)
SseEvent(e) == <<e, Nl, Nl>>

TypeOK ==
  /\ mode \in Modes /\ attempt \in 1 .. Attempts[mode]
  /\ phase \in {"ask", "reading", "over", "closed"}
  /\ written \in Seq(Tokens) /\ told \in Seq(Tokens) /\ buf \in Seq(Tokens) /\ shown \in Seq(Tokens)
  /\ wire \in Seq(Payloads \cup {Nl}) /\ Len(wire) <= MaxWire
  /\ bytes \in Seq(Payloads \cup {Nl}) /\ Len(bytes) <= MaxWire + 2
  /\ result \in {"none", "done", "eof", "answer"}
  /\ \A i \in DOMAIN sent : sent[i] \in Seq(Tokens) /\ sent[i] = Trim(sent[i]) /\ sent[i] # <<>>

Init ==
  /\ mode \in Modes /\ attempt = 1 /\ phase = "ask"
  /\ written = <<>> /\ wire = <<>> /\ bytes = <<>>
  /\ told = <<>> /\ result = "none" /\ buf = <<>> /\ sent = <<>> /\ shown = <<>>

-----------------------------------------------------------------------------
(* The request.                                                             *)

(* chat_stream got an event stream.                                         *)
OpenSse ==
  /\ mode = "stream" /\ phase = "ask" /\ phase' = "reading"
  /\ UNCHANGED <<mode, attempt, written, wire, bytes, told, result, buf, sent, shown>>

(* A whole text: on_chunk is called once.                                   *)
Deliver(d) ==
  /\ phase' = "over" /\ result' = "answer"
  /\ told' = d /\ buf' = d /\ written' = d
  /\ UNCHANGED <<mode, attempt, wire, bytes, sent, shown>>

(* chat_stream got a JSON body instead.                                     *)
PlainBody == phase = "ask" /\ mode = "stream" /\ \E d \in Answers : Deliver(d)

(* The LLM translator over a backend without a stream: trimmed, and a blank *)
(* text is a failed attempt.                                                *)
Translated ==
  phase = "ask" /\ mode = "webhook" /\ \E d \in Answers : Inked(d) # {} /\ Deliver(Trim(d))

(* The NMT sidecar: the same, with one attempt.                             *)
TranslatedNmt ==
  phase = "ask" /\ mode = "http" /\ \E d \in Answers : Inked(d) # {} /\ Deliver(Trim(d))

(* An analysis that parses; its translation may be missing.                 *)
Analyzed == phase = "ask" /\ mode = "analysis" /\ \E d \in Translations : Deliver(d)

(* for attempt in 1..=n: the last failure returns None.                     *)
NextAttempt ==
  IF attempt < Attempts[mode] THEN attempt' = attempt + 1 /\ UNCHANGED phase
  ELSE phase' = "over" /\ UNCHANGED attempt

(* An error, an error status, an empty or an unparsable answer.             *)
AskFails ==
  /\ phase = "ask" /\ NextAttempt
  /\ UNCHANGED <<mode, written, wire, bytes, told, result, buf, sent, shown>>

-----------------------------------------------------------------------------
(* The stream.                                                              *)

NewlinePairs(e) == {n \in 1 .. Len(e) - 1 : e[n] = Nl /\ e[n + 1] = Nl}

(* find_double_newline.                                                     *)
Whole == NewlinePairs(bytes) # {}

PoppedEnds == {i \in DOMAIN buf : EndsPopped(buf, i)}

(* The loop of on_chunk still has sentences to take.                        *)
Popping == mode # "analysis" /\ PoppedEnds # {}

(* chat_stream waits for the next piece.                                    *)
Awaits == phase = "reading" /\ ~Whole /\ ~Popping

(* The server sends an event.                                               *)
Write(e) ==
  /\ phase = "reading" /\ Len(wire) + 3 <= MaxWire
  /\ Done \notin {wire[n] : n \in DOMAIN wire} \cup {bytes[n] : n \in DOMAIN bytes}
  /\ wire' = wire \o SseEvent(e) /\ written' = written \o e.text
  /\ UNCHANGED <<mode, attempt, phase, bytes, told, result, buf, sent, shown>>

(* Seeded fault: a piece takes the place of the buffer.                     *)
Received_Replaced(n) == Before(wire, n)

(* buf.extend_from_slice.                                                   *)
Received(n) == bytes \o Before(wire, n)

(* The network hands over any first part of what is under way.              *)
Piece(n) ==
  /\ Awaits /\ n <= Len(wire)
  /\ bytes' = Received(n) /\ wire' = After(wire, n)
  /\ UNCHANGED <<mode, attempt, phase, written, told, result, buf, sent, shown>>

(* One whole event: [DONE] ends the call, a heartbeat adds nothing.         *)
Event ==
  LET n == Min(NewlinePairs(bytes))
      e == bytes[1]
  IN
  /\ phase = "reading" /\ Whole /\ ~Popping
  /\ bytes' = After(bytes, n + 1)
  /\ \/ /\ e = Done /\ phase' = "over" /\ result' = "done" /\ UNCHANGED <<told, buf>>
     \/ /\ e # Done /\ UNCHANGED <<phase, result>>
        /\ told' = told \o e.text
        /\ buf' = buf \o e.text
  /\ UNCHANGED <<mode, attempt, written, wire, sent, shown>>

(* The body ends without [DONE]; what was said stands.                      *)
Eof ==
  /\ Awaits /\ phase' = "over" /\ result' = "eof"
  /\ UNCHANGED <<mode, attempt, written, wire, bytes, told, buf, sent, shown>>

(* The connection breaks.                                                   *)
Break ==
  /\ Awaits /\ phase' = "over"
  /\ UNCHANGED <<mode, attempt, written, wire, bytes, told, result, buf, sent, shown>>

(* Seeded fault: the timer covers the request and not the body.             *)
TimesOut_RequestOnly == phase = "ask" /\ NextAttempt

(* tokio::time::timeout, of an attempt or of the whole stream: it fires     *)
(* only where the call waits.                                               *)
TimesOut ==
  \/ phase = "ask" /\ NextAttempt
  \/ Awaits /\ phase' = "over" /\ UNCHANGED attempt

Timeout ==
  /\ TimesOut
  /\ UNCHANGED <<mode, written, wire, bytes, told, result, buf, sent, shown>>

-----------------------------------------------------------------------------
(* The sentences.                                                           *)

(* Seeded fault: the remainder starts one character late.                   *)
Remainder_Short(n) == After(buf, n + 1)

(* s[end..].trim_start().                                                   *)
Remainder(n) == TrimStart(After(buf, n))

(* One turn of the loop in on_chunk; pop_first_sentence passes over a       *)
(* blank sentence.                                                          *)
Pop ==
  /\ Popping
  /\ \E n \in DOMAIN buf : /\ Ended(buf, n, PoppedEnds)
                          /\ sent' = sent \o Spoken(Before(buf, n)) /\ buf' = Remainder(n)
  /\ UNCHANGED <<mode, attempt, phase, written, wire, bytes, told, result, shown>>

(* run_streaming_speak after the call: the rest is the final message, and   *)
(* the Debug frame shows the text unless the call failed.                   *)
Close ==
  /\ phase = "over" /\ mode # "analysis" /\ ~Popping
  /\ sent' = sent \o Spoken(buf)
  /\ shown' = IF result = "none" THEN <<>> ELSE Trim(told)
  /\ phase' = "closed" /\ buf' = <<>>
  /\ UNCHANGED <<mode, attempt, written, wire, bytes, told, result>>

(* process_speak after an analysis: chunks at once, unless there is nothing *)
(* to speak.                                                                *)
CloseBulk ==
  /\ phase = "over" /\ mode = "analysis"
  /\ \E streaming \in BOOLEAN : sent' = TtsChunks(told, streaming)
  /\ shown' = Trim(told)
  /\ phase' = "closed" /\ buf' = <<>>
  /\ UNCHANGED <<mode, attempt, written, wire, bytes, told, result>>

Next ==
  \/ OpenSse \/ PlainBody \/ Translated \/ TranslatedNmt \/ Analyzed \/ AskFails \/ Timeout
  \/ \E e \in Payloads : (e.kind = "delta" => Len(written) < MaxText) /\ Write(e)
  \/ \E n \in 1 .. MaxWire : Piece(n)
  \/ Event \/ Eof \/ Break \/ Pop \/ Close \/ CloseBulk

Spec == Init /\ [][Next]_vars

(* The task runs on.  A timer that has expired fires at the next await,     *)
(* however often the call is busy in between.  Nothing is assumed of the    *)
(* server.                                                                  *)
Fairness == WF_vars(Event \/ Pop \/ Close \/ CloseBulk) /\ SF_vars(Timeout)

FairSpec == Spec /\ Fairness

-----------------------------------------------------------------------------
(* Whatever is streamed or translated is spoken, or still in the buffer, in *)
(* its order: only white space goes.  The Debug frame shows the same text   *)
(* or none (run_streaming_speak, pop_first_sentence, split_sentences).      *)
NothingLost ==
  /\ Visible(FlattenSeq(sent) \o buf) = Visible(told)
  /\ phase = "closed" /\ shown # <<>> => Visible(shown) = Visible(FlattenSeq(sent))

(* However the network cuts the events up, on_chunk gets the server's       *)
(* deltas in order and without gaps, and all of them when [DONE] was seen   *)
(* (chat_stream's buffer).                                                  *)
DeltasInOrder == IsPrefix(told, written) /\ (result = "done" => told = written)

(* The two scans differ on a sentence that starts with a dot, which         *)
(* pop_first_sentence joins to the next one, and on a quote that opens a    *)
(* line, which raw_sentences can leave as a sentence of its own.            *)
Quirky(text) ==
  \/ \E i \in DOMAIN sent : Head(sent[i]) = Dot
  \/ \E i \in 1 .. Len(text) - 1 : text[i] = Newline /\ text[i + 1] = Quote

(* Any other translation that comes whole is cut by pop_first_sentence      *)
(* where split_sentences would cut it, though the two are written apart.    *)
CutsAsBulk ==
  phase = "closed" /\ mode # "analysis" /\ result = "answer" =>
    sent = RawSentences(told) \/ Quirky(told)

(* Every translation ends, though the server may stall or keep sending      *)
(* heartbeats (the timeouts of translate, translate_stream and analyze).    *)
TranslationEnds == <>(phase = "closed")
=============================================================================
