# A formal model of waifu-companion

TLA+ modules, TLC runs and TLAPS proofs for this repository: what one chat message
sets in motion, from the HTTP request to the last sample in the speaker; the life
of the engines underneath it; what a settings save does to file and process; the
news collectors; and the pages that show the roster and the feed.
`PROJECT.json` maps every definition to the lines it models. File names below
are relative to `src/`; `ws/mod.rs` is `crates/companion-avatar/src/ws/mod.rs`,
`config.rs` is `apps/companion-server/src/handlers/config.rs`, `Avatar.tsx` is
`web/src/pages/Avatar.tsx`, the Tauri `lib.rs` is
`apps/companion-tauri/src/lib.rs`, `core/config.rs` is
`crates/companion-core/src/config.rs`.

## 1. Inventory

### The system

`companion-server` (Rust, axum, tokio) stands between an agent, a set of sidecar
processes (TTS, translator, speech recognition), and the windows that show a
Live2D avatar. A chat message is posted to `/api/chat`; the server asks the
agent, then a task of its own analyses or translates the reply, synthesises it
chunk by chunk and broadcasts what it makes of it as WebSocket frames. Every
window receives every frame. In the desktop app (`companion-tauri`) the windows
hand the audio to one native worker thread. Settings are changed while all that
runs, by replacing `ArcSwap` handles under the running tasks.

| Component | State it keeps | Operations | Interacts by |
|---|---|---|---|
| Speak pipeline (`ws/mod.rs`, `handlers/chat.rs`) | per turn: handles loaded, next seq, intro sent, queue to the dispatcher | chat request, analyse, synthesise, stream, dispatch, finish | loads the shared handles, broadcasts frames, awaits agent, subagent, TTS |
| Avatar WebSocket fan-out (`ws/mod.rs`) | a ring of 64 events, a position per client | upgrade, greet, subscribe, receive, lag, close | frames in, sockets out |
| Native audio worker (Tauri `lib.rs`) | current turn, seqs seen, jitter buffer, sink | Play, Stop, deadline | a channel fed by every window |
| Audio forwarding in the windows (`useAvatarSocket.ts`, `Avatar.tsx`) | the turn last seen, once per module and once per mounted page | frame, mount, unmount | `invoke` calls to the worker |
| Chat history panel (`Avatar.tsx`) | bubbles, two refs for the fallback, timers | send, response, three kinds of frame, timer | HTTP, WebSocket |
| TTS sidecar (`tts_server.rs`, `config.rs`, `main.rs`) | child handle behind a mutex, live manager, health flag | start, stop, swap, watchdog, shutdown | processes, `/healthz`, `/shutdown` |
| Host (`companion-tauri`) | server process, shutdown thread | close, poll, kill | HTTP, process |
| Settings handlers, runtime overrides (`config.rs`, `companion-core/src/config.rs`) | `companion.runtime.json`, configs and clients in memory | load, change, write, apply, swap | a file, `ArcSwap` handles |
| Translator and speech sidecars (`translator.rs`, `speech_server.rs`) | as the TTS sidecar | start, stop, swap | processes |
| Translator and LLM clients (`translator.rs`, `core/llm.rs`) | bytes of the event stream, text not yet cut | translate, stream, retry, time out | HTTP, a callback per delta |
| Characters (`characters.rs`, `CharacterRoster.tsx`) | a JSON roster | add, edit, remove, activate | a file, the web data cache |
| Pulse collectors (`scheduler.rs`, `collectors/`, `storage.rs`) | SQLite rows, run rows, feeds | collect, look up, insert, trigger | HTTP, database |
| Pulse feed (`Pulse.tsx`, `pulse_api.rs`) | read marks, summaries, the list on the page | read, mark, summarise, filter | the web data cache, database |
| Web data cache (`fetchCache.ts`) | entries with a time, fetches in flight | get, invalidate, refresh | HTTP |
| Agent event bridge, embedded assets, Live2D, voice input, scripts, Python engines | nothing another part reads | – | – |

### What is hard about it

* **Concurrency.** Two tasks of one streaming turn broadcast frames of the same reply;
  the frames of two replies alternate when they overlap; two windows, each with up to
  two handlers, send the same chunks to one worker; saves, boot, watchdog and shutdown
  all act on one engine.
* **Stale state.** Handles are loaded and used across awaits; the streaming path
  loads some of them twice; the page keeps a ref that a remount forgets.
* **Failure.** Any chunk may fail, the translator may time out, the producer may
  panic, an engine may hang on its way out or outlive being killed, a write may
  break off, a frame may be lost to lag.
* **Ordering.** The response, the frame and a timer race to show a reply; a
  chunk, a stop and a deadline race at the worker; the network cuts an event
  stream where it likes.
* **Files without locks.** Settings and roster are read, changed and written
  whole by handlers that nothing serialises, and a write empties the file first.
* **Crashes.** The server may be killed between any two steps of a write, with
  engines running that the next life finds at their ports.
* **Timeouts.** Every await has one, and each must leave a state the next step
  understands.

### What makes each part correct

* Speak pipeline: the text of a reply is shown once and before any sound; audio
  leaves in order; what sounded is closed before Idle; nothing follows Idle; a
  turn that begins ends, or dies in its analysis having shown nothing; hot-swaps
  do not change a bulk turn's voice.
* Fan-out: no event is lost silently, none is repeated or reordered, lag costs
  the oldest events only.
* Audio worker and windows: the latest reply reaches the sink complete from where
  it was last switched to, once, in order, whoever stops the worker, however often
  a chunk comes, and whatever other reply came in between.
* Chat panel: messages and replies appear once, in order, with the best text
  there is, and diagnostics on the right bubble.
* Sidecar: no launched engine outlives its manager unless it outlives being
  killed; a swap ends; the flag the
  user sees ends up true; the mutex protects the handle that is awaited. The same
  for the translator and speech engines, also over a second life of the server.
* Settings: saves one after the other add up; what runs is what a restart would
  run and what the settings page shows.
* Translation: nothing of a reply is lost or reordered between the network and
  the synthesis, both ways of cutting sentences agree, and every call ends.
* Pulse: a URL is stored once unless passes overlap, or a pass and the insert of a
  dropped request; an added feed is collected; a
  stored summary is not replaced unasked.
* Pages: the roster file stays readable unless two handlers have it open at once or a
  write breaks off, and consistent unless handlers overlap; what is shown becomes what
  the server has.

`PROJECT.json` lists 40 hazards at their lines, with the properties that watch
them or the reason why none does.

## 2. Modules

| Module | Models |
|---|---|
| `SpeakTurn` | `handle_chat`, `process_speak`, `run_streaming_speak`, `emit_intro_once` and the hot-swaps |
| `TurnProtocol` | what a viewer may rely on: the abstract specification that `SpeakTurn` implements |
| `AvatarFanout` | the broadcast ring and `handle_avatar_socket` |
| `AudioWorker` | `run_audio_worker` |
| `NativePlayback` | windows and pages composed with `AudioWorker` (EXTENDS it) |
| `SpeechStream` | the translators and their event stream, `pop_first_sentence` and `split_sentences` |
| `TtsSidecar` | `AnimeTtsManager`, the swap of a save, boot, shutdown, watchdog, host |
| `Sidecars` | `TranslatorManager` and `SpeechManager`, over saves and lives of the server |
| `RuntimeOverrides` | the settings handlers, `companion.runtime.json`, `RuntimeOverride::apply` |
| `PulseCollector` | scheduler, the four collectors, the tables they write |
| `FetchCache` | `fetchCache.ts` |
| `Roster` | the roster page over `FetchCache`, its handlers and file (EXTENDS it) |
| `PulseFeed` | the feed page over `FetchCache` and its part of the API (EXTENDS it) |
| `ChatPanel` | the history panel with both its sources of replies |
| `MC...` | constants for TLC; no definition of a module is replaced. `MCWebPages` puts `Roster` and `PulseFeed` over one cache, one page open at a time |
| `..._proofs` | theorems about `SpeakTurn`, `SpeechStream`, `NativePlayback` (with the worker), `TtsSidecar`, `Sidecars`, `RuntimeOverrides`, `PulseCollector` and, in `WebPages_proofs`, `Roster`, `PulseFeed`, both pages together, `ChatPanel` and the `AvatarFanout` that feeds them |

### How they correspond to the code

**SpeakTurn.** One turn is a record spread over functions of `Turns`: `pc` is where
its task is, `disp` where the dispatcher is, `queue` the unbounded channel between
them, `sent` everything it has broadcast. A step runs from one await to the next.
`BeginPlain`, `BeginAnalysis` and `BeginStreaming` are the branches of `process_speak`
after it has loaded the three handles; `SynthChunk` is one round of the synthesis loop
with its three outcomes; `OpenStream`, `Paragraph`, `EndTranslation` and
`FinishStream` are the producer; `SkipBlank`, `StartSynth`, `FinishSynth` and
`ChannelClosed` the dispatcher, the last being its safety net. `Analyze` has three
outcomes: an analysis, none, and the panic of a cut inside a character, which ends the
task. `SwapTts`, `SwapSubagent` and `SwapConfig` are the stores of the settings
handlers. How a text is cut into chunks is abstracted to how many there are
(`ChunkCounts`) and to whether a paragraph is speakable.

**TurnProtocol.** Five stages of a turn, whether its text is out, and a rising
mark. The text is shown by the time of the first frame that sounds or ends the
turn. `SpeakTurn` reads all three off the frames (`StageOf`, `TextOf`, `MarkOf`;
`TextOf` is "first" only if there is one Text frame and it is ahead of all that
sounds) and the run `speak` checks
`Protocol!Spec` as a property: a refinement.

**AvatarFanout.** Events are numbers. tokio's ring is `count` and `Capacity`; a
receiver is its position `next`. `Connect` and `Subscribe` are two steps because
the socket task greets the client before it subscribes. Events sent in between
are not promised to the client, and the properties do not claim them.

**AudioWorker.** The thread's locals are one record; `Play`, `Stop` and
`Deadline` are the three arms of its loop. `accepted` is history. Time is the
choice whether the deadline has passed. A chunk's length counts in units of which
`Prebuffer` make `PREBUFFER_SECS`.

**NativePlayback.** `Broadcast` is the server's stream: the next frame is of any reply
under way or the first of the next one, with any seq above those of the same reply, so
that replies overlap and chunks are missing as they may be in the code. `Deliver` is a
window's `onmessage` (module handler, then the page's if mounted), `Toggle` mounting
and unmounting, `Handle` the worker taking a window's oldest call. Calls of one window
stay in order, those of two windows do not. `aired`, `entered` are history.

**TtsSidecar.** A manager launches at most one engine, so an engine bears its
manager's name; `Warm` is one that was already there. A launcher is a shell, and
`wraps` says whether it stays in front of its engine, as `cmd /C` does: then
`ReapKilled` ends the shell and the engine is `spared`. A host that kills the server
(`Killed`) takes the health flag and the watchdog's probe with it. `StopStep` and
`StartStep` are `stop_server` and `start_server` cut at their awaits, with the mutex
around the child handle as `holder`. `Main` is the main task's shutdown. `raced` is
history: a save or shutdown began while a swap was under way.

**ChatPanel.** `history`, `pending` and `fired` are the React state and the two
refs; callbacks are atomic as they are in a browser. `AgentAnswers` to `SpeakEnds` are
the server as the page sees it, `Lose` a frame lost to lag or a broken
connection. `crossed` is history: turns overlapped, or a response came before the
echo or after the text.

**SpeechStream.** One translation on one of the four ways `build_translator` and
`process_speak` choose (`mode`). A text is a sequence of character classes: a
word, an abbreviation, a digit, a dot, a "!", a quote, a blank, a line break.
`Write` is the server putting an event on the wire, `Piece` the network handing
over any first part of it, `Event` `chat_stream` taking a whole event out of its
buffer, `Pop` one turn of the loop in `on_chunk`, `Timeout`, `Break` and `Eof` the
ways a stream ends early, `Close` what `run_streaming_speak` makes of the rest.
The two scans for sentence ends are written twice, as they are in the code
(`EndsSentence`, `EndsPopped`).

**Sidecars.** Both managers have the same code but for names, so a behaviour
follows one (`kind`). A save makes a manager and a task for it; unlike the TTS
swap it notes the manager to stop when the request is served. Engines outlive the
server that launched them and are adopted by the next life. `Reap` has an engine
that goes and one that outlives the kill of its shell, `KillFails` the error of the
kill, after which the manager keeps the handle and the task goes on. `ours` is
history: the engines of this life that have not outlived a kill. It is followed until
two swaps overlap (`raced`), after which no property speaks of it.

**RuntimeOverrides.** A save is five steps: read and merge (`Begin`), empty the
file (`Truncate`), fill it (`Fill`), load it again (`Reload`), publish. `file` is
an override or `Torn`. Fields the code treats alike are one field; the legacy
toggle in the avatar part, which the subagent part overrules, is kept. `want`,
`mixed`, `fresh` and `alone` are history: what the saves ask for one after the
other, whether two overlapped, which live parts no later save has outdated.

**PulseCollector.** A pass is a task: `due`, `collect`, then for each entry `check`
and `insert`. Each statement is atomic and the pass is not. A triggered pass runs
inside its request and is dropped with it (`Abandon`), but an insert under way is in a
blocking thread and may be left behind (`late`) for `InsertLate` to carry out; a
collector whose interval parses to zero dies after its first pass. `known`, what the
pass was told about the entry, is history.

**FetchCache, Roster, PulseFeed.** The cache is one record per URL, split into
functions; `Arrive` and `Refused` are its callbacks. In `Roster` a call goes `sent`,
`loaded`, `opened`, `done` through the handler, with the truncation of `fs::write` a
step of its own and `WriteFails` its errors, before or after it. `overlap`, `clash`
and `torn` are history: two handlers between read and answer, two with the file open,
a write that broke off. In `PulseFeed` `Poll`, `SetFilter` and `MarkedAll` start a
`fetchAll`, `Show` ends it, and the drawer's summary is `sent` until it has read the
item and `asking` until the LLM has answered. A closure's `filter` is that of its
click: `mark.url`.

Fields named history and the operators whose comment says "Seeded fault" are not
in the code. A seeded fault is the form a plausible bug would give to the
definition that follows it; no specification uses one. The project substitutes
each to see that the property it aims at then fails.

## 3. Runs

| Run | Question | Bounds |
|---|---|---|
| `speak` | Is what one turn broadcasts ordered, closed, shown, a behaviour of the protocol? Does each turn end? | 1 turn, 2 managers, all 16 configs and 3 subagents as start and as target, 3 chunks, 1 swap |
| `stream` | Is anything of a translation lost, reordered or cut in two ways? Does it end? | every whole answer of up to 4 characters, streams of up to 4 characters in 9 kinds of delta, 6 bytes under way, chunk target 6 and cap 7 |
| `playback` | Is what is held back right? Does the latest reply sound, in order, from where it was last switched to, with one window whose page comes and goes? | 2 turns that may overlap, 3 chunks of which any may be missing, 1 toggle |
| `playback_two` | Is it complete with two windows that both forward and both stop? | 2 interchangeable windows, 2 turns that may overlap, 2 chunks with or without audio, 1 toggle |
| `fanout` | Is every event delivered in order, pending or counted? Are the newest safe? | 1 viewer, capacity 2, 6 events, 2 connections |
| `tts` | Stray engines, the mutex, swaps that end, a flag that converges | boot and one save, a warm engine; the same or another URL, or the same with a shell in front of the engine |
| `sidecars` | Stray engines, what `close_with_companion` leaves, swaps that end | 2 saves, 2 lives, 2 engines, 1 port |
| `overrides` | Do saves add up? Does what runs agree with the files? | 2 handlers without end, 5 requests over the 3 endpoints, 2 values of each field, any number of failures and restarts |
| `pulse` | When is a URL stored twice? Is an added feed collected? | 2 scheduled collectors and 1 triggered pass of any of 4, 2 URLs and an entry listed twice, 1 fault |
| `pages` | When does the roster file break, when is a summary replaced, does the feed converge? | 2 calls at a time, 2 characters, 3 edits, 1 restart; 1 item, 2 loads, 2 summaries, 2 clicks; 1 failed request |
| `chat` | Are messages and replies shown once, in order, with the best text? | 2 turns, 2 texts, 2 lost frames |
| `roster_stale` (violated) | Does the page show the roster the server has once nothing is under way? | 1 character, 1 call at a time, 2 edits, no failure |

The types of `SpeakTurn`, `AvatarFanout` and `TtsSidecar`, and of `SpeakTurn` also
`IntroOnceBeforeAudio`, `IdleAfterLast` and `BulkKeepsSnapshot`, are proved for
every instance and so have no run; `PTypeOK` includes the worker's type.

### Why the bounds are enough

* `speak`: turns share nothing but the handles, which they only read
  (`Locality` in `SpeakTurn_proofs` proves that a step of one leaves the others'
  state as it is), so one turn says what any number would. Three chunks have a
  first, a middle and a last, in every pattern of success and failure. One swap
  suffices for each pair of loads of a handle to differ, and every pair of
  configs is tried. For the safety properties the theorems remove the bounds.
* `stream`: an abbreviation, a decimal, an ellipsis and a quote need two or three
  characters, four put one on either side of a cut; three bytes of an event (a
  line and two line breaks) under way twice let a piece end inside either.
* `playback`: two turns are what it takes to leave one and to come back to it;
  three chunks with a prebuffer of two let it fill by length, by the last chunk or
  by the deadline, and leave something to queue after it. The toggle enters or
  leaves a page at any point. With two windows a chunk less keeps the state space in
  reach; the interleavings of their calls come in its place. The theorems have none
  of these bounds.
* `fanout`: viewers share only the ring. Six events wrap a ring of two several
  times; two connections show that nothing survives from the first.
* `tts`: two managers are what it takes to swap; the protocol of a third is that
  of the second, and overlap is already possible between boot, save and shutdown.
* `sidecars`: two saves replace a manager that a save had made; a second life
  finds what the first left behind, and two engines are what contends for a port.
* `overrides`: the state is finite without a bound on the number of saves; two
  handlers are enough for every overlap of two, and the theorems remove the
  bound. The five requests set, clear and leave alone a field of each part, one
  with a value the avatar's own crate does not parse.
* `pulse`: every two of the passes that list the same URL may overlap; one fault
  separates a pass from what it was told. `MaxCopies` caps the rows of one URL.
* `pages`: two calls overlap, a third shows what they left; the item, loads and
  requests are what it takes for an older answer to arrive after a newer one.
* `chat`: two turns show a frame of one landing among bubbles of another. Two lost
  frames are the text of one turn, which leaves its fallback bubble, and the echo of
  the next, whose text may then take that bubble's place. The run stops at states with
  `crossed` (`CONSTRAINT NotCrossed`): its three properties hold there by their
  proviso.

The passing runs explore 158 008 (`speak`), 715 797 (`stream`), 719 060
(`playback`), 2 218 212 (`playback_two`, with its windows interchangeable), 1 082
(`fanout`), 375 230 (`tts`), 651 820 (`sidecars`), 2 728 883 (`overrides`, with its
handlers interchangeable), 268 032 (`pulse`), 698 396 (`pages`) and 352 737 (`chat`)
distinct states.

### Fairness

Only tasks of the system are assumed to go on, and only because the code never
waits without a limit: the agent's HTTP client, `analyze` and `translate_stream`
have timeouts, a TTS request 60 s, the health wait of a launched engine 240 s, a
graceful stop 8 s or 5 s, and tokio runs a task that is ready. So `FairSpec` of
`SpeakTurn` is weak fairness of each task of a turn, that of `TtsSidecar` of each
task's steps and of the watchdog, that of `AvatarFanout` of the socket task once it is
greeted, and the worker's deadline is fair because `recv_timeout` returns. In
`PFairSpec` frames that were broadcast are delivered and calls handled. Nothing
is assumed of the agent's answers, engines, users, the host's window, or of a server
that is to broadcast: `LatestReplySounds` holds also when it goes silent in the
middle of a reply.

`PulseCollector` assumes the same of the tasks of its collectors, whose waits have
deadlines and whose timer ticks for ever. `Sidecars` assumes less: that of the tasks
that can go on some one does, whichever it is.
`FeedFairness` says that the server answers, that the page handles what arrives
and that its 30 s timer fires. `SpeechStream` is weakly fair to the call and
strongly fair to its timer alone: a timeout whose time has come fires at the next
await, however often the call is busy in between. Of the server it assumes
nothing, heartbeats for ever included. Without a fair timer `TranslationEnds`
fails, as its mutant shows. `RuntimeOverrides` and `Roster` have no liveness
property and assume nothing.

### Deadlock

`overrides` and `pulse` check for deadlock: a server can always be restarted, a
scheduled collector always runs again. The other runs say `CHECK_DEADLOCK FALSE`:
turns end, frames, saves and clicks are bounded, and the system is at rest when
all is done. That nothing waits for ever is the subject of `TurnEnds`,
`TranslationEnds`, `SwapEnds`, `SwapsEnd`, `LatestReplySounds`, `ViewerCatchesUp`
and `PulseConverges`.

### What the violated run shows

`roster_stale` – fetchCache.ts:105-107 says that after `invalidateCache`
subscribers "re-render again when the refetch completes with fresh data". If a
request is under way there is no refetch (fetchCache.ts:116); its answer, computed
before the change, then counts as fresh (82-83), and the roster page has no timer
that would read again. The feed page has one, which is why `PulseConverges` holds
over the same cache.

### Divergences noted without a run

The models have the steps that lead to the first twelve; the rest follow from
reading a line, and a run would show no more than that line.

* `analyze()` cuts a reply at byte 2000, which panics inside a character
  (subagent.rs:343), where a long reply in Japanese mostly has one. The task ends with
  no text, no sound and no Idle; `ReplyIsShown` and `TurnEnds` name this outcome.
* "A different value means the user sent a new message and the queue should be
  flushed" (protocol.rs:72-74). Nothing serialises replies (chat.rs:169), so an
  older one that goes on sounding takes the sink back: of frames A0 B0 A1 B1 the
  worker ends with B1 alone. `LatestReplyComplete` and `LatestReplyInOrder` say
  what is left: the latest reply from where it was last switched to, so all of it
  if no other came in between.
* What a kill reaches is the launcher. Under `cmd /C` (tts_server.rs:184-187,
  translator.rs:661-664) that is a shell, and an engine that has not left within its
  time lives on; so it does when the kill fails, which ends `stop_server` with an
  error that a save only logs (translator.rs:763-765, config.rs:416-457). Nobody
  holds such an engine, and at the same port the next manager adopts it.
  `NoStrayEngine` names it (`spared`); `NoStraySidecar` and `ClosesWithCompanion` do
  not follow it further (`ours`).
* ws/mod.rs:1000-1003 expects a subagent, "process_speak gates this"; the gate
  looked at an older snapshot. A save that turns the subagent off in between
  (config.rs:389) panics the turn: the dispatcher still shows the reply and closes
  the audio, but Idle never comes. `TurnEnds` names this outcome.
* useAvatarSocket.ts:143-144 promises that "a tab-switch mid-reply doesn't kill
  TTS". Leaving the page does not; entering it does: the fresh page does not know
  the turn and stops the worker (Avatar.tsx:590, 761-765). `NotEntered`
  in `NativePlayback` excuses it.
* A save during the boot's or another save's swap stops the manager that is live
  then, not the one about to be (config.rs:684); what the earlier swap launches
  has no manager. `NoStrayEngine` and `NoStraySidecar` hold unless `raced`.
* The host takes a failing `/health` for "server is gone" and kills the server
  (Tauri lib.rs:426-441), whose listener closes before it stops its engine
  (main.rs:268-298).
* A reply frame that overtakes its response, or a second turn within the timer's
  five seconds, shows a reply twice (Avatar.tsx:966, 843-852), against the
  comments at 834-839. The properties of `ChatPanel` hold unless `crossed`.
* The comment at Avatar.tsx:837 has a fallback replaced by the frame "for THIS
  reply". If that frame is lost the ref stays set (Avatar.tsx:840), and the text of
  the next turn, if its own echo is lost too, replaces the earlier turn's bubble.
  `ShowsBestText` names this case: it was found when the proof of an earlier form,
  which a run with one lost frame did not refute, failed.
* Two overlapping saves undo one another although each reads the file "so we
  don't trample unrelated keys" (config.rs:242); a mistyped
  `translator_backend` is stored, and the avatar's configuration becomes the
  default while GET still shows the old one; the subagent is not rebuilt by a save
  of the avatar settings, though config.rs:659-660 says subagent changes are "now live
  for the next turn".
* Two overlapping writes, or one that a kill or a full disk breaks off, can leave the
  roster file broken for good: every handler refuses a file that does not parse
  (characters.rs:112-118).
* The sentence scans differ. A dot that is the first character of the buffer
  counts as part of an ellipsis in `pop_first_sentence` (`saturating_sub`), and a
  quote that opens a line goes to the line before in `raw_sentences`: `Quirky`.
  Decimals and ellipses that arrive in two deltas are cut between them. The
  search for a blank line in `pop_first_paragraph` never finds one, because a
  single line break has ended the sentence before.
* Event streams with CRLF never contain "\n\n" (core/llm.rs:249): no delta is
  seen. A stream that ends without `[DONE]` counts as complete. After a timeout
  what was spoken stays spoken and the panel shows no text for it.
* `split_sentences` adds the joining blank after it has checked the cap
  (companion-avatar/src/config.rs:389).
* An interval of "0s" ends a collector's task after its first pass
  (scheduler.rs:42); a run row of a pass that was cut off is "running" for ever.
* `setRead` in Pulse.tsx does not look at the status of the answer, and App.tsx
  prewarms `feed?limit=50` where the page reads `limit=100`.

* The streaming path loads the TTS manager (and the config) anew for every
  paragraph (ws/mod.rs:924-929); ws/mod.rs:190-193 says the in-flight turn keeps
  its snapshot. `BulkKeepsSnapshot` is about the other path. The config's reload
  is not modelled.
* useAvatarSocket.ts:22-24 wants one playback per chunk; module and page both
  invoke it (useAvatarSocket.ts:156, Avatar.tsx:761). The worker drops the second.
* protocol.rs:91-92 says all clients get the event; one that connects just then,
  or lags, does not (ws/mod.rs:138, 173).
* tts_server.rs:50-51 and main.rs:290-292 differ on whether an adopted engine is
  shut down; tts_server.rs:245-258 posts `/shutdown` to whoever answers.
* config.rs:538-540 says a failed swap keeps the previous handle; config.rs:684-698
  has stopped it and stored the new one.

## 4. Proofs

Theorems are of the form `Spec => []P`, or `Spec => [][A]_vars` for a property of
steps, for every value of the constants that satisfies the modules' `ASSUME`s.
Each proof states an inductive invariant (`IInv`; `WorkerInv` and `Playback` in
`NativePlayback_proofs`; `StreamInv`, `SpeechInv` and `CutInv` in
`SpeechStream_proofs`;
`RosterInv`, `FeedInv`, `PagesInv`, `ChatInv` and `FanoutInv` in
`WebPages_proofs`), shows that `Init` establishes it and that every step keeps it,
one lemma per action or group, and derives the properties.

| Module | Theorems | Assumes |
|---|---|---|
| `SpeakTurn_proofs` | `TypeCorrect`, `IntroCorrect`, `OrderCorrect`, `IdleCorrect`, `ClosingCorrect`, `SnapshotCorrect`, `ProtocolRefined` | `SpeakAssumption`: some manager, some configs, at least one chunk |
| `SpeechStream_proofs` | `TypeCorrect`, `DeltasCorrect`, `NothingLostCorrect`, `CutsCorrect` | `TextAssumption`: deltas and texts are sequences of the character classes, the limits natural numbers |
| `NativePlayback_proofs`, worker | `WorkerTypeCorrect`, `OrderCorrect`, `BufferCorrect`, `HoldingCorrect` | `WorkerAssumption`: a positive prebuffer, natural seqs and lengths |
| `NativePlayback_proofs`, windows and worker | `PlaybackTypeCorrect`, `PlaybackHeldCorrect`, `CompleteCorrect`, `InOrderCorrect` | also `PlaybackAssumption`: some window, an order of turns; `InOrderCorrect` is about one window |
| `TtsSidecar_proofs` | `TypeCorrect`, `MutexCorrect`, `StrayCorrect` | `SidecarAssumption`: the names of engines and tasks differ, a setup gives each engine a URL and says whether launchers wrap |
| `Sidecars_proofs` | `TypeCorrect`, `StrayCorrect`, `CloseCorrect` | `SidecarsAssumption`: some port, some life |
| `RuntimeOverrides_proofs` | `TypeCorrect`, `SavedCorrect`, `LiveCorrect` | `OverridesAssumption`: the toml is a configuration, each endpoint takes only its own fields, there is an agent request |
| `PulseCollector_proofs` | `TypeCorrect`, `DuplicatesCorrect` | `PulseAssumption`: what each constant is |
| `WebPages_proofs`, roster | `RosterCorrect` | `RosterAssumption`: the bounds are natural numbers, the roster's URL is one |
| `WebPages_proofs`, feed | `SummaryCorrect` | `FeedAssumption`: the same of the feed's |
| `WebPages_proofs`, both pages | `PagesTypeCorrect`, `PagesRosterCorrect`, `PagesSummaryCorrect` | `PagesAssumption`: the two pages' URLs differ |
| `WebPages_proofs`, chat | `ChatTypeCorrect`, `ChatOrderCorrect`, `ChatTextCorrect`, `ChatDebugCorrect` | `ChatAssumption`: turns are numbers, null and the error text are no texts |
| `WebPages_proofs`, fan-out | `FanoutTypeCorrect`, `FanoutOrderCorrect`, `FanoutLagCorrect` | `FanoutAssumption`: a capacity of at least one |

**SpeakTurn.** None of the properties is inductive. That the dispatcher closes
every turn needs to know that the channel cannot close on it while a final
message is owed: `StreamInv` says that a producer past `EndTranslation` leaves a
final message as the last one in the queue, in synthesis or already handled, and
that one that panicked sent nothing, so the safety net finds the intro unsent.
That audio is in order needs `Frames`: the history so far is well-formed up to
the next seq. `BulkInv` ties `seq = total` to the turn being closed. The first
part of the module says what appending a frame, or the intro and a frame, does
to such a history; the second goes through the actions. `Locality` and `SameInv`
reduce any number of turns to one.

*The refinement.* `ProtocolRefined` is `Spec => Protocol!Spec`. The mapping reads
stage, text and mark off a history, so the third part says of each frame a step can
append (`StepAdds`: none, or an intro and at most one that a viewer notices) how
stage and mark move: `SoundMoves` and `IdleMoves` are the two that need the
invariant, one because the mark must rise, the other because only what sounded
may go to Idle by way of being closed. `Echoed` is added to it: the user message
comes with a turn's first step. That the text is shown once and ahead of all
sound is part of `Frames` (`TextOnce`, `TextFirst`), and what sounds or ends a turn
is appended behind an intro. Every step of a turn is then a step of the
protocol for that turn, or a stutter.

**SpeechStream.** *The stream:* `Lies` says that buffer and wire together are whole
events, whose texts, one after the other, are what of `written` is not yet `told`,
and that nothing follows `[DONE]`. So the first two line feeds in a row are the
second and third byte, wherever the network cut, and what is taken is the next
delta (`FirstPair`); `DeltasCorrect` follows. *The sentences:* `SpeechInv` says
that what is visible of the messages, then of the buffer, is what is visible of
`told`. That a step keeps this is a matter of the operators: visible text of a
concatenation (`VisibleCat`), trimming (`VisibleTrim`), one sentence after the other
(`RawSentencesNeat`), sentences joined to chunks, a short tail included
(`SplitSentencesNeat`). They are recursive functions; `Upwards` and `Downwards` do the
inductions on sets of positions, and `Recursion` shows that a function that looks
further on in its argument exists. Nothing in it depends on where sentences end,
only that there is an end whenever the scan finds one (`FirstEndType`).
*The two scans:* `CutInv` says of a translation that came whole that the buffer is
the end of it and that the messages and the sentences still in the buffer, as
`raw_sentences` would cut it, are the sentences of the whole. The scans agree on every
character but a dot in front (`ScansAgree`), and then the message starts with it
(`DotFirst`). `pop_first_sentence` trims the remainder before it looks again and
`raw_sentences` does not: white space in front moves the sentence ends and makes
no sentence (`EndsOne`, `DropOne`, `RawTrim`), unless a line break comes before a
quote. These are the two quirks `CutsAsBulk` names.

**AvatarFanout.** `Accounted` is the equation got + missed = position − start,
`Kept` says that of the events before the position those still in the ring were
got; `FanoutLagCorrect` needs both because a lag moves the position to the oldest event.

**NativePlayback.** *The worker:* sink and jitter buffer are never both in use and
each is the end of what was accepted; `seen` holds every accepted seq, which is
why a repeat can not be accepted. *Windows and worker:* `WorkerOK` says that what
the worker noted of a turn it also accepted, `Covered` that a frame of the latest
run (`InRun`: no other turn's frame after it) is noted, or some window has yet to
take or to play it. A call that clears the worker would break that; `Resumes` is
why it does not: unless its page was entered meanwhile, a window that still has
such a call under way plays all it has taken of the run after it. The other half is
that nothing older is left, of the same turn neither: a window that has passed
frames of two turns has a stop between them (`Purges`), so while the worker holds a
frame from before the run (`HoldsOld`) some window has yet to reach the run or has a
stop or another turn's chunk under way that clears it (`WillStop`). When nothing is
under way the first half leaves that every frame of the run was noted, the second
that nothing else is: `LatestReplyComplete`. That they are
in order, too, holds for one window (`Lined`: its calls never step back behind what
was accepted); with two it does not, and neither theorem nor run claims it.

**TtsSidecar.** A task between `lock().await` and the end of `stop_server` is the
holder of the mutex of the manager it stops, and while it waits for a child there is
one. No other task can take the handle meanwhile. For `StrayCorrect` an engine that
lives has its handle in its manager or is spared (`Life`), and `Serial` says that
without a race one task is in a swap, stops the manager that is live, publishes the
next one when that has no child, and launches only as the live one; so at any time
only the live manager can have an engine that is not spared.

**Sidecars.** The same with engines that are processes with names of their own:
`Owned` says that one launched in this life has its handle in some manager, unless
it has outlived a kill; and a manager counts as `Handless` also if all it has is the
handle of a failed kill.
`CloseCorrect` needs that the shutdown's stop was of the manager in the slot,
hence of the only one that could own an engine.

**RuntimeOverrides.** The lemma `Granted` says of the data alone that merging a
request into an override and loading the result gives the configuration with the
request granted: for each endpoint, whatever the file held, legacy toggle and
cleared fields included. `InTurn` then says that without an overlap one handler
is in progress, the file is torn only while that one has it open, and what it is
about to write is the request granted to what the file stood for; `SavedCorrect`
follows. `LiveCorrect` needs `Current` besides: each live part that is `fresh` is
what a restart would build from the file, where a handler that runs `alone` takes
the parts it outdates out of `fresh` before it empties the file and returns its
own when it publishes. No bound on handlers, saves, failures or restarts is used.

**PulseCollector.** `Asked`: a pass about to insert a URL was told that there is
none, or could not ask. If there is a row when it inserts, the number it was told
is therefore not the number there is: another pass was in between, or an insert that
one left behind (`LateInv`: such an insert still knows what its pass was told).
Restarts only end passes. `TypeCorrect` is about data: what a pass lists
is a recursive function over the feeds, and that it is a sequence of entries
(`ListedType`) is shown by taking the least prefix for which it were not.

**The web pages.** *Roster:* two invariants, one for each half of `RosterSound`.
`OneFile`: while no two handlers had it open at once and no write broke off, the file
is empty while one has it open, so that writing from its start makes it whole, and
readable while none has. `OneWriter`: without an overlap one handler is past its read,
and the roster it holds is sound because editing keeps soundness (`EditedSound`): a
save adds its character, a delete clears the active one with it, an activation is
refused unless its character is there. *Feed:* `FoundNone`: a request that is not
forced and has got as far as asking the LLM read an item without a summary. A summary
it replaces was therefore stored after it had read. *Both:* the page that is open
moves the cache, and leaves the entries of the other's URLs as they are; so both
theorems hold of the composition.

**The chat history.** `Tidy` describes a panel while turns have not crossed: all
turns but the newest are through (`OneAtATime`), bubbles are in the order of
turns (`InOrder`), and for the newest turn, which of its frames are still
to come fixes what may already be shown of it (`Echo`, `Waits`, `Early`, `Fresh`,
`Shown`, `Fallen`, `Debugged`). `Stale` is the part that failed at first: the
fallback ref may be left over from a turn whose text was lost, and the next text
takes that bubble's place if nothing came in between.

**Only model-checked.** Liveness (`ReplyIsShown`, `TurnEnds`, `LatestReplySounds`,
`ViewerCatchesUp`, `SwapEnds`, `HealthConverges`, `SwapsEnd`, `FeedIsCollected`,
`PulseConverges`, `TranslationEnds`): the prover has no rules for fairness.
`RosterUpToDate`, which the run `roster_stale` refutes. Every other safety
property has a theorem. The library's induction theorems take an
operator and cannot be used; where induction is needed, in `SpeechStream_proofs`
and `PulseCollector_proofs`, the proof takes a least or greatest counterexample
instead.

## 5. Not modelled

* Texts beyond what `SpeechStream` says of them: cleaning, prompts, the JSON of an
  analysis, expression detection, lip sync. Of the cutting, `SpeechStream` leaves
  out full-width punctuation, which ends a sentence as "!" does, code fences,
  sentences longer than the cap (`soft_wrap_long`) and chunks cut in advance.
  `SpeakTurn` knows only how many chunks there are and whether one is speakable.
  Bytes are cut between the three parts of an event, not inside a line or a character.
* Playback in a plain browser, rendering, face tracking, voice input, tray,
  window geometry, themes, embedded assets, the agent event bridge, which only
  logs: device callbacks or stateless.
* Clearing the history, a new session and its copy in localStorage.
* The external engines and the Python tools. `TtsSidecar` and `Sidecars` have an
  engine by what the server can see of it; that a translator's manager cannot be
  built at boot is left out.
* Of the pages: prewarming, forced reads, the `error` field, badges and counters, new
  items while the feed is open; of the characters' API attachments and the persona
  that chat.rs reads; of Pulse the collector list, its settings and a purge of old
  items that nothing calls; the settings editors, which are forms over GET and POST
  `/api/config`.
* The agent and subagent flags of `/api/services`, and its error texts, which
  are shown as hints only.

## 6. Plan

The modules of section 2 are done. What is left, in order:

1. `analyze()` as a module of its own beside `SpeechStream`: truncation, the two
   attempts, the fields that may be missing.
2. Chat history kept in localStorage, cleared, and left behind by a page change.
3. Attachments: upload, serve and delete against the directory they share.
4. An abstract specification of a sidecar's life that `TtsSidecar` and `Sidecars`
   both implement.

## 7. Running it

    tlc -workers 2 -config SpeakTurn.cfg MCSpeakTurn.tla
    tlapm SpeakTurn_proofs.tla

The longest TLC runs take two to three minutes; of the proofs
`SpeechStream_proofs` takes six to seven and `WebPages_proofs` about five.
