-------------------------- MODULE RuntimeOverrides --------------------------
(***************************************************************************)
(* Saving settings: the handlers of POST /api/config/{subagent, avatar,    *)
(* zeroclaw} (handlers/config.rs), the file companion.runtime.json they    *)
(* share, its merge over companion.toml (companion-core's config.rs), and  *)
(* the clients that a save or a restart builds from the result.            *)
(*                                                                         *)
(* A handler reads the file, changes its part, writes everything back,     *)
(* reads it again and publishes what it built.  Handlers run on several    *)
(* threads and nothing serialises them.  std::fs::write first empties the  *)
(* file and then fills it, and a file that does not parse counts as empty. *)
(* Fields of one kind that the code treats alike are one field here.       *)
(***************************************************************************)
CONSTANTS
  Saves,    \* the handlers that may run at once, each serving one request after another
  Bodies,   \* what a request to each endpoint may ask for
  Toml,     \* what companion.toml says
  Files,    \* what the file may hold at the start
  Urls, Llms, Agents, Backends,  \* values of tts.api_url, llm.*, zeroclaw.*, translator.backend
  DefaultAvatar,  \* AvatarConfig::default()
  Unset,    \* None: the field is not overridden
  Torn,     \* the file is empty or garbled
  NoClient  \* no subagent, no agent client in it

Flags     == {TRUE, FALSE, Unset}
Overrides == [enabled : Flags, tts : Urls \cup {Unset}, legacy : Flags,
              on : Flags, hook : Flags, llm : Llms \cup {Unset}, backend : Backends \cup {Unset},
              agent : Agents \cup {Unset}]
Blank     == [enabled |-> Unset, tts |-> Unset, legacy |-> Unset, on |-> Unset,
              hook |-> Unset, llm |-> Unset, backend |-> Unset, agent |-> Unset]
Configs   == [enabled : BOOLEAN, tts : Urls, on : BOOLEAN, hook : BOOLEAN,
              llm : Llms, backend : Backends, agent : Agents]
Avatars   == [enabled : BOOLEAN, tts : Urls, on : BOOLEAN, hook : BOOLEAN,
              llm : Llms, backend : Backends]
Subagents == [llm : Llms \cup {NoClient}, backend : Backends, agent : Agents \cup {NoClient}]

Kinds == {"subagent", "avatar", "agent"}
Asked(k) == CASE k = "subagent" -> {"hook", "llm", "backend"}
              [] k = "avatar"   -> {"enabled", "tts", "on"}
              [] k = "agent"    -> {"agent"}

ASSUME OverridesAssumption ==
  /\ Toml \in Configs /\ DefaultAvatar \in Avatars
  /\ Files \subseteq Overrides \cup {Torn}
  /\ Torn \notin Overrides
  /\ NoClient \notin Subagents
  /\ Bodies["agent"] # {}
  /\ \A k \in Kinds : \A b \in Bodies[k] :
       DOMAIN b \subseteq Asked(k) /\ [f \in DOMAIN Blank |-> IF f \in DOMAIN b THEN b[f] ELSE Unset] \in Overrides

VARIABLES
  file,      \* companion.runtime.json
  present,   \* it was started with the avatar subsystem
  agent,     \* AppState.zeroclaw
  config,    \* AvatarWsState.config
  subagent,  \* AvatarWsState.subagent
  pc,        \* where each handler is
  req,       \* what it was asked
  over,      \* what it is going to write
  got,       \* what it loaded after the write
  want,      \* history: the configuration the saves ask for, one after the other
  mixed,     \* history: saves overlapped, or a write was cut short, since the last save on its own
  alone,     \* history: no other save ran while this one did
  fresh      \* history: the live parts that nothing has outdated

live    == <<present, agent, config, subagent>>
handler == <<pc, req, over, got>>
history == <<want, mixed, alone, fresh>>
vars    == <<file, live, handler, history>>

-----------------------------------------------------------------------------
(* RuntimeOverride::apply.  The avatar part comes first, with the toggles   *)
(* that old files keep there, so the subagent part has the last word.       *)

(* Seeded fault: a field that is not overridden is written all the same.   *)
Given_None(v, base) == v

Given(v, base) == IF v = Unset THEN base ELSE v

ApplyAvatar(cfg, o) ==
  [cfg EXCEPT !.enabled = Given(o.enabled, @), !.tts = Given(o.tts, @), !.on = Given(o.legacy, @)]

ApplySubagent(cfg, o) ==
  [cfg EXCEPT !.on = Given(o.on, @), !.hook = Given(o.hook, @),
              !.llm = Given(o.llm, @), !.backend = Given(o.backend, @)]

ApplyAgent(cfg, o) == [cfg EXCEPT !.agent = Given(o.agent, @)]

Apply(cfg, o) == ApplyAgent(ApplySubagent(ApplyAvatar(cfg, o), o), o)

(* CompanionConfig::load, once the toml has been parsed.                    *)
Load(f) == IF f = Torn THEN Toml ELSE Apply(Toml, f)

(* The avatar table as its own crate reads it: a value that does not fit    *)
(* makes all of it the default.                                             *)
AvatarOf(cfg) ==
  IF cfg.backend \in {"llm", "http"}
  THEN [enabled |-> cfg.enabled, tts |-> cfg.tts, on |-> cfg.on, hook |-> cfg.hook,
        llm |-> cfg.llm, backend |-> cfg.backend]
  ELSE DefaultAvatar

(* AvatarSubagent::new: through the webhook it takes a copy of the agent    *)
(* client along.                                                            *)
Build(a, c) ==
  [llm     |-> IF a.hook THEN NoClient ELSE a.llm,
   backend |-> a.backend,
   agent   |-> IF a.hook THEN c ELSE NoClient]

Subagent(a, c) == IF a.on THEN Build(a, c) ELSE NoClient

-----------------------------------------------------------------------------
Steps == {"idle", "read", "open", "written", "loaded"}

TypeOK ==
  /\ file \in Overrides \cup {Torn}
  /\ present \in BOOLEAN
  /\ agent \in Agents
  /\ config \in Avatars
  /\ subagent \in Subagents \cup {NoClient}
  /\ pc \in [Saves -> Steps]
  /\ req \in [Saves -> {<<k, b>> : k \in Kinds, b \in UNION {Bodies[j] : j \in Kinds}}]
  /\ over \in [Saves -> Overrides]
  /\ got \in [Saves -> Configs]
  /\ want \in Configs
  /\ mixed \in BOOLEAN
  /\ alone \in [Saves -> BOOLEAN]
  /\ fresh \subseteq {"agent", "config", "subagent"}

(* main and build_avatar: everything is built from what the files say.     *)
Built(c) ==
  LET a == AvatarOf(c)
  IN  /\ present'  = a.enabled
      /\ agent'    = c.agent
      /\ config'   = a
      /\ subagent' = IF a.enabled THEN Subagent(a, c.agent) ELSE NoClient

NoRequest == <<"agent", CHOOSE b \in Bodies["agent"] : TRUE>>

Init ==
  /\ file \in Files
  /\ LET c == Load(file)  a == AvatarOf(c)
     IN  /\ present = a.enabled /\ agent = c.agent /\ config = a
         /\ subagent = IF a.enabled THEN Subagent(a, c.agent) ELSE NoClient
         /\ want = c
  /\ pc    = [s \in Saves |-> "idle"]
  /\ req   = [s \in Saves |-> NoRequest]
  /\ over  = [s \in Saves |-> Blank]
  /\ got   = [s \in Saves |-> Toml]
  /\ mixed = FALSE
  /\ alone = [s \in Saves |-> TRUE]
  /\ fresh = {"agent", "config", "subagent"}

-----------------------------------------------------------------------------
Kind(s)   == req[s][1]
Body(s)   == req[s][2]
Busy      == {s \in Saves : pc[s] # "idle"}
Goto(s, l) == pc' = [pc EXCEPT ![s] = l]

(* The handler returns; what it held is gone.                               *)
Ended(S) ==
  /\ pc'    = [s \in Saves |-> IF s \in S THEN "idle" ELSE pc[s]]
  /\ req'   = [s \in Saves |-> IF s \in S THEN NoRequest ELSE req[s]]
  /\ over'  = [s \in Saves |-> IF s \in S THEN Blank ELSE over[s]]
  /\ got'   = [s \in Saves |-> IF s \in S THEN Toml ELSE got[s]]
  /\ alone' = [s \in Saves |-> s \in S \/ alone[s]]

(* Seeded fault: a handler starts from an empty override.                   *)
Snapshot_Blank(f) == Blank

(* The file as a handler reads it: missing and unparseable are the default. *)
Snapshot(f) == IF f = Torn THEN Blank ELSE f

(* The fields a request names are replaced; an empty text clears one.       *)
Replace(o, b) == [f \in DOMAIN o |-> IF f \in DOMAIN b THEN b[f] ELSE o[f]]

(* A toggle goes to the subagent's part and its old place is cleared.       *)
MergeAvatar(o, b) ==
  LET r == Replace(o, b)
  IN [f \in DOMAIN o |-> IF f = "legacy" /\ "on" \in DOMAIN b THEN Unset ELSE r[f]]

Merge(k, o, b) == IF k = "avatar" THEN MergeAvatar(o, b) ELSE Replace(o, b)

(* What a configuration becomes when a request is granted.                  *)
Grant(c, b) == [f \in DOMAIN c |-> IF f \in DOMAIN b THEN Given(b[f], Toml[f]) ELSE c[f]]

(* A handler starts: it reads the file and prepares what it will write.     *)
Begin(s) ==
  /\ pc[s] = "idle"
  /\ \E k \in Kinds : \E b \in Bodies[k] :
       /\ req'  = [req EXCEPT ![s] = <<k, b>>]
       /\ over' = [over EXCEPT ![s] = Merge(k, Snapshot(file), b)]
  /\ Goto(s, "read")
  /\ want'  = IF Busy # {} THEN Toml ELSE IF mixed THEN Load(file) ELSE want
  /\ mixed' = (Busy # {})
  /\ alone' = [t \in Saves |-> IF t = s THEN Busy = {} ELSE alone[t] /\ t \notin Busy]
  /\ fresh' = IF Busy = {} THEN fresh ELSE {}
  /\ UNCHANGED <<file, live, got>>

(* std::fs::write opens the file, which empties it.                         *)
Truncate(s) ==
  /\ pc[s] = "read"
  /\ file' = Torn
  /\ Goto(s, "open")
  /\ UNCHANGED <<live, req, over, got, history>>

(* The live parts that a change to a part of the file outdates.             *)
Feeds(k) == IF k = "agent" THEN {"agent", "subagent"} ELSE {"config", "subagent"}

(* The text is written.  If another write came in between and its text was  *)
(* longer, the rest of that one stays behind.                               *)
Fill(s) ==
  /\ pc[s] = "open"
  /\ file' \in IF file = Torn THEN {over[s]} ELSE {over[s], Torn}
  /\ Goto(s, "written")
  /\ over'  = [over EXCEPT ![s] = Blank]
  /\ want'  = IF mixed THEN want ELSE Grant(want, Body(s))
  /\ fresh' = fresh \ Feeds(Kind(s))
  /\ UNCHANGED <<live, req, got, mixed, alone>>

(* The file cannot be opened, or the disk is full: 500.                     *)
WriteFails(s) ==
  /\ pc[s] \in {"read", "open"}
  /\ Ended({s})
  /\ mixed' = (mixed \/ pc[s] = "open")
  /\ fresh' = IF pc[s] = "open" THEN {} ELSE fresh
  /\ UNCHANGED <<file, live, want>>

(* Both files are read again.  Without the avatar subsystem there is        *)
(* nothing to publish to, and the two avatar handlers answer at once.       *)
Reload(s) ==
  /\ pc[s] = "written"
  /\ IF Kind(s) = "agent" \/ present
     THEN /\ got' = [got EXCEPT ![s] = Load(file)]
          /\ Goto(s, "loaded")
          /\ UNCHANGED <<req, over, alone>>
     ELSE Ended({s})
  /\ UNCHANGED <<file, live, want, mixed, fresh>>

(* companion.toml was edited and does not parse now: 500.                   *)
ReloadFails(s) ==
  /\ pc[s] = "written" /\ (Kind(s) = "agent" \/ present)
  /\ Ended({s})
  /\ UNCHANGED <<file, live, want, mixed, fresh>>

Published(s, part) == fresh' = IF alone[s] THEN fresh \cup {part} ELSE fresh

(* POST /api/config/zeroclaw: the client every request uses is replaced.    *)
PublishAgent(s) ==
  /\ pc[s] = "loaded" /\ Kind(s) = "agent"
  /\ agent' = got[s].agent
  /\ Ended({s})
  /\ Published(s, "agent")
  /\ UNCHANGED <<file, present, config, subagent, want, mixed>>

(* POST /api/config/avatar: the configuration is replaced, the subagent is  *)
(* not rebuilt.  The engine's swap is TtsSidecar's.                         *)
PublishConfig(s) ==
  /\ pc[s] = "loaded" /\ Kind(s) = "avatar"
  /\ config' = AvatarOf(got[s])
  /\ Ended({s})
  /\ Published(s, "config")
  /\ UNCHANGED <<file, present, agent, subagent, want, mixed>>

(* Seeded fault: the subagent is built from the live configuration.         *)
PublishSubagent_Live(s) ==
  /\ pc[s] = "loaded" /\ Kind(s) = "subagent"
  /\ subagent' = Subagent(config, agent)
  /\ Ended({s})
  /\ Published(s, "subagent")
  /\ UNCHANGED <<file, present, agent, config, want, mixed>>

(* POST /api/config/subagent: the client is replaced, with a copy of the    *)
(* agent client as it is now; the configuration is not.  The translator's   *)
(* swap is Sidecars'.                                                       *)
PublishSubagent(s) ==
  /\ pc[s] = "loaded" /\ Kind(s) = "subagent"
  /\ subagent' = Subagent(AvatarOf(got[s]), agent)
  /\ Ended({s})
  /\ Published(s, "subagent")
  /\ UNCHANGED <<file, present, agent, config, want, mixed>>

(* The server dies with whatever its handlers were doing and is started     *)
(* again, once companion.toml parses.                                       *)
Restart ==
  /\ Ended(Saves)
  /\ Built(Load(file))
  /\ mixed' = (mixed \/ \E s \in Busy : pc[s] = "open")
  /\ fresh' = {"agent", "config", "subagent"}
  /\ UNCHANGED <<file, want>>

Save(s) == \/ Begin(s) \/ Truncate(s) \/ Fill(s) \/ WriteFails(s) \/ Reload(s) \/ ReloadFails(s)
           \/ PublishAgent(s) \/ PublishConfig(s) \/ PublishSubagent(s)

Next == Restart \/ \E s \in Saves : Save(s)

Spec == Init /\ [][Next]_vars

-----------------------------------------------------------------------------
(* GET /api/config: the avatar part comes from the files, or from the live  *)
(* configuration when they cannot be read.                                  *)
Shown ==
  IF Load(file).backend \in {"llm", "http"} THEN AvatarOf(Load(file)) ELSE config

(* Saves made one after the other add up: whichever endpoint each went to,  *)
(* whatever it named, cleared or left alone, refused or not, and whether    *)
(* the server crashed in between, the files give every setting the value    *)
(* last asked for (config.rs:242, "so we don't trample unrelated keys").    *)
SavedIsKept == Busy = {} /\ ~mixed => Load(file) = want

(* What runs is what a restart would run, and what the settings page shows, *)
(* as far as no later save has outdated it: the agent client until another  *)
(* agent save, the configuration until a subagent save, the subagent until  *)
(* any save.  A save on its own repairs its part after an overlap.          *)
LiveAsRestarted ==
  Busy = {} =>
    LET c == Load(file) IN
    /\ "agent" \in fresh => agent = c.agent
    /\ present /\ "config" \in fresh => config = AvatarOf(c) /\ Shown = config
    /\ present /\ "subagent" \in fresh => subagent = Subagent(AvatarOf(c), agent)
=============================================================================
