------------------------ MODULE RuntimeOverrides_proofs ------------------------
(***************************************************************************)
(* Saves that follow each other add up, for any settings, requests and     *)
(* number of handlers.                                                     *)
(***************************************************************************)
EXTENDS RuntimeOverrides, TLAPS

OverFields == {"enabled", "tts", "legacy", "on", "hook", "llm", "backend", "agent"}
Fields     == {"enabled", "tts", "on", "hook", "llm", "backend", "agent"}

(* Configurations with the same fields are the same.                       *)
LEMMA SameConfig ==
  ASSUME NEW c \in Configs, NEW d \in Configs,
         c.enabled = d.enabled, c.tts = d.tts, c.on = d.on, c.hook = d.hook,
         c.llm = d.llm, c.backend = d.backend, c.agent = d.agent
  PROVE  c = d
BY DEF Configs

(* The fields of either kind.                                             *)
LEMMA OverDomain == ASSUME NEW o \in Overrides PROVE DOMAIN o = OverFields
BY DEF Overrides, OverFields

(* And of a configuration.                                                 *)
LEMMA ConfigDomain == ASSUME NEW c \in Configs PROVE DOMAIN c = Fields
BY DEF Configs, Fields

(* An override of nothing is one.                                          *)
LEMMA BlankOver == Blank \in Overrides /\ DOMAIN Blank = OverFields
BY DEF Blank, Overrides, OverFields, Flags

(* What is given in place of a value is one of its kind.                   *)
LEMMA GivenIn ==
  ASSUME NEW S, NEW v \in S \cup {Unset}, NEW d \in S
  PROVE  Given(v, d) \in S
BY DEF Given

(* What apply makes of every field.                                        *)
LEMMA ApplyFields ==
  ASSUME NEW c \in Configs, NEW o \in Overrides
  PROVE  /\ Apply(c, o) \in Configs
         /\ Apply(c, o).enabled = Given(o.enabled, c.enabled)
         /\ Apply(c, o).tts     = Given(o.tts, c.tts)
         /\ Apply(c, o).on      = Given(o.on, Given(o.legacy, c.on))
         /\ Apply(c, o).hook    = Given(o.hook, c.hook)
         /\ Apply(c, o).llm     = Given(o.llm, c.llm)
         /\ Apply(c, o).backend = Given(o.backend, c.backend)
         /\ Apply(c, o).agent   = Given(o.agent, c.agent)
<1> DEFINE e == Given(o.enabled, c.enabled)
           t == Given(o.tts, c.tts)
           l == Given(o.legacy, c.on)
           n == Given(o.on, l)
           h == Given(o.hook, c.hook)
           m == Given(o.llm, c.llm)
           k == Given(o.backend, c.backend)
           a == Given(o.agent, c.agent)
<1>1. /\ e \in BOOLEAN /\ t \in Urls /\ l \in BOOLEAN /\ n \in BOOLEAN /\ h \in BOOLEAN
      /\ m \in Llms /\ k \in Backends /\ a \in Agents
  <2>1. /\ o.enabled \in BOOLEAN \cup {Unset} /\ o.legacy \in BOOLEAN \cup {Unset}
        /\ o.on \in BOOLEAN \cup {Unset} /\ o.hook \in BOOLEAN \cup {Unset}
        /\ o.tts \in Urls \cup {Unset} /\ o.llm \in Llms \cup {Unset}
        /\ o.backend \in Backends \cup {Unset} /\ o.agent \in Agents \cup {Unset}
    BY DEF Overrides, Flags
  <2>2. /\ c.enabled \in BOOLEAN /\ c.on \in BOOLEAN /\ c.hook \in BOOLEAN /\ c.tts \in Urls
        /\ c.llm \in Llms /\ c.backend \in Backends /\ c.agent \in Agents
    BY DEF Configs
  <2>3. e \in BOOLEAN /\ l \in BOOLEAN /\ h \in BOOLEAN
    BY <2>1, <2>2, GivenIn
  <2>4. n \in BOOLEAN
    BY <2>1, <2>3, GivenIn
  <2>5. t \in Urls /\ m \in Llms /\ k \in Backends /\ a \in Agents
    BY <2>1, <2>2, GivenIn
  <2> QED BY <2>3, <2>4, <2>5
<1> DEFINE x == ApplyAvatar(c, o)
           y == ApplySubagent(x, o)
<1>2. /\ x \in Configs /\ x.enabled = e /\ x.tts = t /\ x.on = l
      /\ x.hook = c.hook /\ x.llm = c.llm /\ x.backend = c.backend /\ x.agent = c.agent
  <2>1. x = [c EXCEPT !.enabled = e, !.tts = t, !.on = l]
    BY DEF ApplyAvatar, Configs
  <2> HIDE DEF x, e, t, l
  <2> QED BY <2>1, <1>1 DEF Configs
<1>3. /\ y \in Configs /\ y.enabled = e /\ y.tts = t /\ y.on = n
      /\ y.hook = h /\ y.llm = m /\ y.backend = k /\ y.agent = c.agent
  <2>1. y = [x EXCEPT !.on = Given(o.on, x.on), !.hook = Given(o.hook, x.hook),
                      !.llm = Given(o.llm, x.llm), !.backend = Given(o.backend, x.backend)]
    BY <1>2 DEF ApplySubagent, Configs
  <2>2. y = [x EXCEPT !.on = n, !.hook = h, !.llm = m, !.backend = k]
    BY <2>1, <1>2
  <2> HIDE DEF x, y, e, t, l, n, h, m, k
  <2> QED BY <2>2, <1>1, <1>2 DEF Configs
<1>4. Apply(c, o) = [y EXCEPT !.agent = a]
  <2>1. Apply(c, o) = [y EXCEPT !.agent = Given(o.agent, y.agent)]
    BY DEF Apply, ApplyAgent
  <2> QED BY <2>1, <1>3
<1> HIDE DEF x, y, e, t, l, n, h, m, k, a
<1>5. /\ Apply(c, o) \in Configs
      /\ Apply(c, o).enabled = e /\ Apply(c, o).tts = t /\ Apply(c, o).on = n /\ Apply(c, o).hook = h
      /\ Apply(c, o).llm = m /\ Apply(c, o).backend = k /\ Apply(c, o).agent = a
  BY <1>1, <1>3, <1>4 DEF Configs
<1> QED BY <1>5 DEF e, t, l, n, h, m, k, a
-----------------------------------------------------------------------------
(* A request for a kind of setting, with what it leaves alone unset.       *)
Whole(b) == [f \in OverFields |-> IF f \in DOMAIN b THEN b[f] ELSE Unset]

Request(k, b) == k \in Kinds /\ DOMAIN b \subseteq Asked(k) /\ Whole(b) \in Overrides

(* The bodies an endpoint takes name only its own settings.                *)
LEMMA Requests ==
  ASSUME NEW k \in Kinds, NEW b \in Bodies[k]
  PROVE  Request(k, b)
<1>1. /\ DOMAIN b \subseteq Asked(k)
      /\ [f \in DOMAIN Blank |-> IF f \in DOMAIN b THEN b[f] ELSE Unset] \in Overrides
  BY OverridesAssumption
<1> QED BY <1>1, BlankOver DEF Request, Whole

(* Each field of what a handler writes.                                    *)
LEMMA MergeFields ==
  ASSUME NEW k, NEW b, Request(k, b), NEW o \in Overrides
  PROVE  /\ Merge(k, o, b) \in Overrides
         /\ \A f \in OverFields \ {"legacy"} :
              Merge(k, o, b)[f] = IF f \in DOMAIN b THEN b[f] ELSE o[f]
         /\ Merge(k, o, b)["legacy"] =
              IF k = "avatar" /\ "on" \in DOMAIN b THEN Unset ELSE o["legacy"]
<1> DEFINE w == Whole(b)
           n == Merge(k, o, b)
<1>1. DOMAIN o = OverFields
  BY OverDomain
<1>2. "legacy" \notin DOMAIN b
  BY DEF Request, Kinds, Asked
<1>3. n = [f \in OverFields |->
             IF f = "legacy" THEN (IF k = "avatar" /\ "on" \in DOMAIN b THEN Unset ELSE o[f])
             ELSE IF f \in DOMAIN b THEN b[f] ELSE o[f]]
  BY <1>1, <1>2 DEF Merge, MergeAvatar, Replace
<1>a. \A f \in OverFields \ {"legacy"} : n[f] = IF f \in DOMAIN b THEN b[f] ELSE o[f]
  BY <1>3
<1>b. n["legacy"] = IF k = "avatar" /\ "on" \in DOMAIN b THEN Unset ELSE o["legacy"]
  BY <1>3 DEF OverFields
<1>4. w \in Overrides /\ \A f \in OverFields : w[f] = IF f \in DOMAIN b THEN b[f] ELSE Unset
  BY DEF Whole, Request
<1>5. \A f \in OverFields \ {"legacy"} : n[f] = IF f \in DOMAIN b THEN w[f] ELSE o[f]
  BY <1>3, <1>4
<1>6. n["legacy"] \in {Unset, o["legacy"]} /\ DOMAIN n = OverFields
  BY <1>3 DEF OverFields
<1> HIDE DEF n, w
<1>7. /\ n["enabled"] \in {w["enabled"], o["enabled"]} /\ n["tts"] \in {w["tts"], o["tts"]}
      /\ n["on"] \in {w["on"], o["on"]} /\ n["hook"] \in {w["hook"], o["hook"]}
      /\ n["llm"] \in {w["llm"], o["llm"]} /\ n["backend"] \in {w["backend"], o["backend"]}
      /\ n["agent"] \in {w["agent"], o["agent"]}
  BY <1>5 DEF OverFields
<1>8. n = [enabled |-> n["enabled"], tts |-> n["tts"], legacy |-> n["legacy"], on |-> n["on"],
           hook |-> n["hook"], llm |-> n["llm"], backend |-> n["backend"], agent |-> n["agent"]]
  BY <1>3, <1>6 DEF n, OverFields
<1>9. n \in Overrides
  BY <1>4, <1>6, <1>7, <1>8 DEF Overrides, Flags
<1> QED BY <1>a, <1>b, <1>9 DEF n

(* A merge and a load grant the request: the heart of the matter.          *)
LEMMA Granted ==
  ASSUME NEW k, NEW b, Request(k, b), NEW o \in Overrides
  PROVE  Apply(Toml, Merge(k, o, b)) = Grant(Apply(Toml, o), b)
<1> DEFINE n == Merge(k, o, b)
           c == Apply(Toml, o)
           d == Apply(Toml, n)
           g == Grant(c, b)
<1>1. /\ n \in Overrides
      /\ \A f \in OverFields \ {"legacy"} : n[f] = IF f \in DOMAIN b THEN b[f] ELSE o[f]
      /\ n["legacy"] = IF k = "avatar" /\ "on" \in DOMAIN b THEN Unset ELSE o["legacy"]
  BY MergeFields
<1>2. Toml \in Configs /\ c \in Configs /\ d \in Configs
  BY <1>1, ApplyFields, OverridesAssumption
<1>3. g = [f \in Fields |-> IF f \in DOMAIN b THEN Given(b[f], Toml[f]) ELSE c[f]]
  BY <1>2, ConfigDomain DEF Grant
<1>4. /\ c.enabled = Given(o.enabled, Toml.enabled) /\ d.enabled = Given(n.enabled, Toml.enabled)
      /\ c.tts = Given(o.tts, Toml.tts) /\ d.tts = Given(n.tts, Toml.tts)
      /\ c.hook = Given(o.hook, Toml.hook) /\ d.hook = Given(n.hook, Toml.hook)
      /\ c.llm = Given(o.llm, Toml.llm) /\ d.llm = Given(n.llm, Toml.llm)
      /\ c.backend = Given(o.backend, Toml.backend) /\ d.backend = Given(n.backend, Toml.backend)
      /\ c.agent = Given(o.agent, Toml.agent) /\ d.agent = Given(n.agent, Toml.agent)
      /\ c.on = Given(o.on, Given(o.legacy, Toml.on)) /\ d.on = Given(n.on, Given(n.legacy, Toml.on))
  BY <1>1, <1>2, ApplyFields
<1>5. "on" \in DOMAIN b => k \in {"avatar", "subagent"} /\ (k = "subagent" => FALSE)
  BY DEF Request, Asked, Kinds
<1> HIDE DEF n, c, d, g
<1>6. \A f \in Fields \ {"on"} : d[f] = g[f]
  BY <1>1, <1>3, <1>4 DEF Fields, OverFields
<1>7. d["on"] = g["on"]
  <2>1. CASE "on" \in DOMAIN b
    <3>1. n["on"] = b["on"] /\ n["legacy"] = Unset
      BY <2>1, <1>1, <1>5 DEF OverFields
    <3>2. d["on"] = Given(b["on"], Given(Unset, Toml["on"])) /\ Given(Unset, Toml["on"]) = Toml["on"]
      BY <3>1, <1>4 DEF Given
    <3>3. g["on"] = Given(b["on"], Toml["on"])
      BY <2>1, <1>3 DEF Fields
    <3> QED BY <3>2, <3>3
  <2>2. CASE "on" \notin DOMAIN b
    <3>1. n["on"] = o["on"] /\ n["legacy"] = o["legacy"]
      BY <2>2, <1>1 DEF OverFields
    <3>2. g["on"] = c["on"]
      BY <2>2, <1>3 DEF Fields
    <3> QED BY <3>1, <3>2, <1>4
  <2> QED BY <2>1, <2>2
<1>8. d = g
  <2>1. DOMAIN d = Fields /\ d = [f \in Fields |-> d[f]]
    BY <1>2, ConfigDomain DEF Configs
  <2>2. \A f \in Fields : d[f] = g[f]
    BY <1>6, <1>7
  <2> QED BY <1>3, <2>1, <2>2
<1> QED BY <1>8 DEF n, c, d, g

(* A blank override changes nothing, so a garbled file reads as companion.toml. *)
LEMMA SnapshotLoads ==
  ASSUME NEW f \in Overrides \cup {Torn}
  PROVE  Snapshot(f) \in Overrides /\ Load(f) = Apply(Toml, Snapshot(f)) /\ Load(f) \in Configs
<1>1. Toml \in Configs /\ Torn \notin Overrides
  BY OverridesAssumption
<1>2. Apply(Toml, Blank) = Toml
  <2>1. /\ Blank.enabled = Unset /\ Blank.tts = Unset /\ Blank.legacy = Unset /\ Blank.on = Unset
        /\ Blank.hook = Unset /\ Blank.llm = Unset /\ Blank.backend = Unset /\ Blank.agent = Unset
    BY DEF Blank
  <2>2. \A d : Given(Unset, d) = d
    BY DEF Given
  <2> DEFINE c == Apply(Toml, Blank)
  <2>3. /\ c \in Configs /\ c.enabled = Toml.enabled /\ c.tts = Toml.tts /\ c.on = Toml.on
        /\ c.hook = Toml.hook /\ c.llm = Toml.llm /\ c.backend = Toml.backend /\ c.agent = Toml.agent
    BY <1>1, <2>1, <2>2, BlankOver, ApplyFields
  <2> HIDE DEF c
  <2>4. c = Toml
    BY <1>1, <2>3, SameConfig
  <2> QED BY <2>4 DEF c
<1>3. CASE f = Torn
  BY <1>1, <1>2, <1>3, BlankOver DEF Snapshot, Load
<1>4. CASE f \in Overrides
  BY <1>1, <1>4, ApplyFields DEF Snapshot, Load
<1> QED BY <1>3, <1>4

-----------------------------------------------------------------------------
Shape ==
  /\ file \in Overrides \cup {Torn} /\ over \in [Saves -> Overrides]
  /\ pc \in [Saves -> Steps] /\ DOMAIN req = Saves
  /\ want \in Configs /\ mixed \in BOOLEAN

(* Without an overlap there is one handler at most, it holds what makes    *)
(* the request come true, and only it has the file open.                   *)
InTurn ==
  /\ \A s, t \in Busy : s = t
  /\ \A s \in Saves : pc[s] = "open" => file = Torn
  /\ \A s \in Saves : pc[s] \in {"read", "open"} => Apply(Toml, over[s]) = Grant(want, Body(s))
  /\ (\A s \in Saves : pc[s] # "open") => Load(file) = want

IInv == Shape /\ (~mixed => InTurn)

(* Nothing runs at the start.                                             *)
LEMMA InitInv == Init => IInv
<1> SUFFICES ASSUME Init PROVE IInv
  OBVIOUS
<1>1. file \in Overrides \cup {Torn} /\ want = Load(file)
  BY OverridesAssumption DEF Init
<1>2. want \in Configs
  BY <1>1, SnapshotLoads
<1>3. \A s \in Saves : pc[s] = "idle"
  BY DEF Init
<1>4. Shape
  BY <1>1, <1>2, BlankOver DEF Init, Shape, Steps
<1>5. InTurn
  BY <1>1, <1>3 DEF InTurn, Busy
<1> QED BY <1>4, <1>5 DEF IInv

(* A handler starts.                                                       *)
LEMMA BeginInv == ASSUME IInv, NEW s \in Saves, Begin(s) PROVE IInv'
<1>1. PICK k \in Kinds : \E b \in Bodies[k] :
        req' = [req EXCEPT ![s] = <<k, b>>] /\ over' = [over EXCEPT ![s] = Merge(k, Snapshot(file), b)]
  BY DEF Begin
<1>2. PICK b \in Bodies[k] :
        req' = [req EXCEPT ![s] = <<k, b>>] /\ over' = [over EXCEPT ![s] = Merge(k, Snapshot(file), b)]
  BY <1>1
<1> DEFINE o == Snapshot(file)
           n == Merge(k, o, b)
<1>3. /\ pc[s] = "idle" /\ pc' = [pc EXCEPT ![s] = "read"] /\ file' = file
      /\ want' = IF Busy # {} THEN Toml ELSE IF mixed THEN Load(file) ELSE want
      /\ mixed' = (Busy # {})
  BY DEF Begin, Goto
<1>4. Request(k, b) /\ o \in Overrides /\ Load(file) = Apply(Toml, o) /\ Load(file) \in Configs
  BY Requests, SnapshotLoads DEF IInv, Shape
<1>5. n \in Overrides /\ Apply(Toml, n) = Grant(Load(file), b)
  BY <1>4, MergeFields, Granted
<1>6. over' = [over EXCEPT ![s] = n]
  BY <1>2
<1> HIDE DEF o, n
<1>7. Shape'
  BY <1>2, <1>3, <1>4, <1>5, <1>6, OverridesAssumption DEF IInv, Shape, Steps
<1>8. ASSUME ~mixed' PROVE InTurn'
  <2>1. \A t \in Saves : pc[t] = "idle"
    BY <1>3, <1>8 DEF Busy
  <2>2. want' = Load(file)
    BY <1>3, <1>8, <2>1 DEF IInv, InTurn
  <2>3. Body(s)' = b /\ over'[s] = n
    BY <1>2, <1>6 DEF IInv, Shape, Body
  <2>4. /\ \A t \in Saves \ {s} : pc'[t] = "idle"
        /\ pc'[s] = "read"
    BY <1>3, <2>1 DEF IInv, Shape
  <2> QED BY <1>3, <1>5, <2>2, <2>3, <2>4 DEF InTurn, Busy
<1> QED BY <1>7, <1>8 DEF IInv

(* Handlers return, or the server dies, without touching the file.         *)
LEMMA EndedInv ==
  ASSUME IInv, NEW S \in SUBSET Saves, Ended(S), file' = file, want' = want, mixed' \in BOOLEAN,
         ~mixed' => ~mixed /\ \A s \in S : pc[s] # "open"
  PROVE  IInv'
<1>1. /\ pc' = [s \in Saves |-> IF s \in S THEN "idle" ELSE pc[s]]
      /\ over' = [s \in Saves |-> IF s \in S THEN Blank ELSE over[s]]
      /\ req' = [s \in Saves |-> IF s \in S THEN NoRequest ELSE req[s]]
  BY DEF Ended
<1>2. Shape'
  BY <1>1, BlankOver DEF IInv, Shape, Steps
<1>3. ASSUME ~mixed' PROVE InTurn'
  <2>1. InTurn /\ \A s \in S : pc[s] # "open"
    BY <1>3 DEF IInv
  <2>2. \A s \in Saves : pc'[s] = pc[s] \/ pc'[s] = "idle"
    BY <1>1
  <2>3. \A s \in Saves : pc'[s] # "idle" => over'[s] = over[s] /\ Body(s)' = Body(s)
    BY <1>1 DEF Body
  <2>4. \A s \in Saves : pc[s] = "open" <=> pc'[s] = "open"
    BY <1>1, <2>1
  <2> QED BY <2>1, <2>2, <2>3, <2>4 DEF InTurn, Busy
<1> QED BY <1>2, <1>3 DEF IInv

(* The file is emptied, then filled.                                       *)
LEMMA TruncateInv == ASSUME IInv, NEW s \in Saves, Truncate(s) PROVE IInv'
<1>1. /\ pc[s] = "read" /\ file' = Torn /\ pc' = [pc EXCEPT ![s] = "open"]
      /\ UNCHANGED <<req, over, want, mixed>>
  BY DEF Truncate, Goto, history
<1>2. Shape'
  BY <1>1 DEF IInv, Shape, Steps
<1>3. ASSUME ~mixed' PROVE InTurn'
  BY <1>1, <1>3 DEF IInv, Shape, InTurn, Busy, Body
<1> QED BY <1>2, <1>3 DEF IInv

(* The write ends: the file is what the handler merged.                    *)
LEMMA FillInv == ASSUME IInv, NEW s \in Saves, Fill(s) PROVE IInv'
<1>1. /\ pc[s] = "open" /\ file' \in IF file = Torn THEN {over[s]} ELSE {over[s], Torn}
      /\ pc' = [pc EXCEPT ![s] = "written"] /\ over' = [over EXCEPT ![s] = Blank]
      /\ want' = (IF mixed THEN want ELSE Grant(want, Body(s)))
      /\ req' = req /\ mixed' = mixed
  BY DEF Fill, Goto
<1>2. Apply(Toml, over[s]) \in Configs /\ over[s] \in Overrides
  BY ApplyFields, OverridesAssumption DEF IInv, Shape
<1>3. ~mixed => want' = Apply(Toml, over[s])
  BY <1>1 DEF IInv, InTurn
<1>4. Shape'
  BY <1>1, <1>2, <1>3, BlankOver DEF IInv, Shape, Steps
<1>5. ASSUME ~mixed' PROVE InTurn'
  <2>1. InTurn /\ file = Torn
    BY <1>1, <1>5 DEF IInv, InTurn
  <2>2. file' = over[s] /\ Load(file') = want'
    BY <1>1, <1>2, <1>3, <1>5, <2>1, OverridesAssumption DEF Load
  <2>3. Load(file)' = Load(file')
    BY DEF Load
  <2>4. \A t \in Saves : t # s => pc[t] = "idle"
    BY <1>1, <2>1 DEF InTurn, Busy
  <2>5. pc'[s] = "written" /\ \A t \in Saves : t # s => pc'[t] = "idle"
    BY <1>1, <2>4 DEF IInv, Shape
  <2> QED BY <2>2, <2>3, <2>5 DEF InTurn, Busy
<1> QED BY <1>4, <1>5 DEF IInv

(* What follows the write only moves on, or ends.                          *)
LEMMA AfterInv ==
  ASSUME IInv, NEW s \in Saves,
         \/ WriteFails(s) \/ Reload(s) \/ ReloadFails(s)
         \/ PublishAgent(s) \/ PublishConfig(s) \/ PublishSubagent(s)
  PROVE  IInv'
<1>s. {s} \in SUBSET Saves
  OBVIOUS
<1>1. CASE WriteFails(s)
  <2>1. /\ Ended({s}) /\ file' = file /\ want' = want /\ mixed' = (mixed \/ pc[s] = "open")
    BY <1>1 DEF WriteFails
  <2> QED BY <2>1, <1>s, EndedInv DEF IInv
<1>2. CASE Reload(s) /\ ~Ended({s})
  <2>1. /\ pc[s] = "written" /\ pc' = [pc EXCEPT ![s] = "loaded"]
        /\ UNCHANGED <<file, req, over, want, mixed>>
    BY <1>2 DEF Reload, Goto
  <2>2. Shape'
    BY <2>1 DEF IInv, Shape, Steps
  <2>3. ASSUME ~mixed' PROVE InTurn'
    BY <2>1, <2>3 DEF IInv, Shape, InTurn, Busy, Body, Load
  <2> QED BY <2>2, <2>3 DEF IInv
<1>3. CASE (Reload(s) /\ Ended({s})) \/ ReloadFails(s) \/ PublishAgent(s) \/ PublishConfig(s) \/ PublishSubagent(s)
  <2>1. Ended({s}) /\ file' = file /\ want' = want /\ mixed' = mixed /\ pc[s] # "open"
    BY <1>3 DEF Reload, ReloadFails, PublishAgent, PublishConfig, PublishSubagent
  <2> QED BY <2>1, <1>s, EndedInv DEF IInv, Shape
<1> QED BY <1>1, <1>2, <1>3

(* A restart ends every handler; one with the file open counts as mixed.   *)
LEMMA RestartInv == ASSUME IInv, Restart PROVE IInv'
<1>1. Ended(Saves) /\ file' = file /\ want' = want
      /\ mixed' = (mixed \/ \E s \in Busy : pc[s] = "open")
  BY DEF Restart
<1>2. ~mixed' => ~mixed /\ \A s \in Saves : pc[s] # "open"
  BY <1>1 DEF Busy
<1> QED BY <1>1, <1>2, EndedInv DEF IInv, Shape

(* Every step keeps the invariant.                                         *)
LEMMA NextInv == IInv /\ [Next]_vars => IInv'
<1> SUFFICES ASSUME IInv, [Next]_vars PROVE IInv'
  OBVIOUS
<1>1. CASE UNCHANGED vars
  BY <1>1 DEF vars, handler, history, IInv, Shape, InTurn, Busy, Body, Load
<1>2. ASSUME NEW s \in Saves, Save(s) PROVE IInv'
  BY <1>2, BeginInv, TruncateInv, FillInv, AfterInv DEF Save
<1> QED BY <1>1, <1>2, RestartInv DEF Next

-----------------------------------------------------------------------------
(* The live parts F are what a restart with the configuration c would run. *)
Live(c, F) ==
  /\ "agent" \in F => agent = c.agent
  /\ present /\ "config" \in F => config = AvatarOf(c)
  /\ present /\ "subagent" \in F => subagent = Subagent(AvatarOf(c), agent)

(* What is said to be fresh is, if nobody overlapped; and a handler that   *)
(* runs alone will not outdate more than it says.                          *)
Current ==
  /\ alone \in [Saves -> BOOLEAN] /\ DOMAIN got = Saves
  /\ \A s \in Busy : alone[s] => Busy = {s}
  /\ fresh # {} => \A s \in Busy : alone[s]
  /\ \A s \in Saves : alone[s] /\ pc[s] = "open" => file = Torn
  /\ \A s \in Saves : alone[s] /\ pc[s] \in {"read", "open"} =>
       Live(Apply(Toml, over[s]), fresh \ Feeds(Kind(s)))
  /\ \A s \in Saves : alone[s] /\ pc[s] \in {"written", "loaded"} => fresh \cap Feeds(Kind(s)) = {}
  /\ \A s \in Saves : alone[s] /\ pc[s] = "loaded" => got[s] = Load(file)
  /\ (\A s \in Saves : pc[s] # "open") => Live(Load(file), fresh)

(* Nothing fresh, nothing to show.                                         *)
LEMMA NoneLive == ASSUME NEW c PROVE Live(c, {})
BY DEF Live

(* At the start everything has just been built.                            *)
LEMMA InitCurrent == Init => Current
<1> SUFFICES ASSUME Init PROVE Current
  OBVIOUS
<1>1. Live(Load(file), fresh)
  BY DEF Init, Live
<1>2. \A s \in Saves : pc[s] = "idle"
  BY DEF Init
<1>3. alone \in [Saves -> BOOLEAN] /\ DOMAIN got = Saves
  BY DEF Init
<1> QED BY <1>1, <1>2, <1>3 DEF Current, Busy

(* A request for the agent leaves the avatar's part alone, and conversely. *)
LEMMA OtherPart ==
  ASSUME NEW k, NEW b, Request(k, b), NEW c \in Configs, NEW d \in Configs, d = Grant(c, b),
         NEW F, Live(c, F)
  PROVE  Live(d, F \ Feeds(k))
<1>1. \A f \in Fields : f \notin DOMAIN b => d[f] = c[f]
  BY ConfigDomain DEF Grant
<1>2. CASE k = "agent"
  <2>1. DOMAIN b \subseteq {"agent"}
    BY <1>2 DEF Request, Asked
  <2>2. /\ d.enabled = c.enabled /\ d.tts = c.tts /\ d.on = c.on /\ d.hook = c.hook
        /\ d.llm = c.llm /\ d.backend = c.backend
    BY <1>1, <2>1 DEF Fields
  <2>3. AvatarOf(d) = AvatarOf(c)
    BY <2>2 DEF AvatarOf
  <2> QED BY <1>2, <2>3 DEF Live, Feeds
<1>3. CASE k # "agent"
  <2>1. "agent" \notin DOMAIN b
    BY <1>3 DEF Request, Asked, Kinds
  <2>2. d.agent = c.agent
    BY <1>1, <2>1 DEF Fields
  <2> QED BY <1>3, <2>2 DEF Live, Feeds
<1> QED BY <1>2, <1>3

(* The same steps as above, for what is live.                              *)
LEMMA BeginCurrent == ASSUME IInv, Current, NEW s \in Saves, Begin(s) PROVE Current'
<1>1. PICK k \in Kinds : \E b \in Bodies[k] :
        req' = [req EXCEPT ![s] = <<k, b>>] /\ over' = [over EXCEPT ![s] = Merge(k, Snapshot(file), b)]
  BY DEF Begin
<1>2. PICK b \in Bodies[k] :
        req' = [req EXCEPT ![s] = <<k, b>>] /\ over' = [over EXCEPT ![s] = Merge(k, Snapshot(file), b)]
  BY <1>1
<1> DEFINE o == Snapshot(file)
           n == Merge(k, o, b)
<1>3. /\ pc[s] = "idle" /\ pc' = [pc EXCEPT ![s] = "read"] /\ UNCHANGED <<file, live, got>>
      /\ alone' = [t \in Saves |-> IF t = s THEN Busy = {} ELSE alone[t] /\ t \notin Busy]
      /\ fresh' = IF Busy = {} THEN fresh ELSE {}
  BY DEF Begin, Goto
<1>4. Request(k, b) /\ o \in Overrides /\ Load(file) = Apply(Toml, o) /\ Load(file) \in Configs
  BY Requests, SnapshotLoads DEF IInv, Shape
<1>5. n \in Overrides /\ Apply(Toml, n) = Grant(Load(file), b) /\ Apply(Toml, n) \in Configs
  BY <1>4, MergeFields, Granted, ApplyFields, OverridesAssumption
<1>6. over' = [over EXCEPT ![s] = n]
  BY <1>2
<1> HIDE DEF o, n
<1>7. /\ over'[s] = n /\ Kind(s)' = k /\ pc'[s] = "read"
      /\ \A t \in Saves \ {s} : pc'[t] = pc[t]
  BY <1>2, <1>3, <1>6 DEF IInv, Shape, Kind
<1>8. alone' \in [Saves -> BOOLEAN] /\ DOMAIN got' = Saves
  BY <1>3 DEF Current
<1>9. CASE Busy = {}
  <2>1. \A t \in Saves : pc[t] = "idle"
    BY <1>9 DEF Busy
  <2>2. Busy' = {s} /\ alone'[s] /\ fresh' = fresh
    BY <1>3, <1>7, <1>9, <2>1 DEF Busy
  <2>3. Live(Load(file), fresh)
    BY <2>1 DEF Current
  <2>4. Live(Apply(Toml, n), fresh \ Feeds(k))
    BY <1>4, <1>5, <2>3, OtherPart
  <2>5. Live(Load(file), fresh)'
    BY <2>2, <2>3, <1>3 DEF Live, live, Load
  <2>6. Live(Apply(Toml, over[s]), fresh \ Feeds(Kind(s)))'
    <3>1. Apply(Toml, over[s])' = Apply(Toml, n) /\ Feeds(Kind(s))' = Feeds(k)
      BY <1>7 DEF Feeds, Apply, ApplyAgent, ApplyAvatar, ApplySubagent
    <3> QED BY <2>2, <2>4, <3>1, <1>3 DEF Live, live
  <2> QED BY <1>7, <1>8, <2>1, <2>2, <2>5, <2>6 DEF Current
<1>10. CASE Busy # {}
  <2>1. fresh' = {} /\ \A t \in Busy' : ~alone'[t]
    BY <1>3, <1>7, <1>10 DEF Busy
  <2>2. \A t \in Saves : alone'[t] => pc'[t] = "idle"
    BY <2>1 DEF Busy
  <2>3. Live(Load(file), fresh)'
    BY <2>1 DEF Live
  <2> QED BY <1>8, <2>1, <2>2, <2>3 DEF Current
<1> QED BY <1>9, <1>10

(* The file is emptied by the only handler there is.                       *)
LEMMA TruncateCurrent == ASSUME IInv, Current, NEW s \in Saves, Truncate(s) PROVE Current'
<1>1. /\ pc[s] = "read" /\ file' = Torn /\ pc' = [pc EXCEPT ![s] = "open"]
      /\ UNCHANGED <<live, req, over, got, alone, fresh>>
  BY DEF Truncate, Goto, history
<1>2. s \in Busy /\ Busy' = Busy
  BY <1>1 DEF IInv, Shape, Busy
<1>3. \A t \in Saves : /\ Kind(t)' = Kind(t) /\ Apply(Toml, over[t])' = Apply(Toml, over[t])
                       /\ Feeds(Kind(t))' = Feeds(Kind(t))
  BY <1>1 DEF Kind, Feeds, Apply, ApplyAgent, ApplyAvatar, ApplySubagent
<1>4. \A c, F : Live(c, F) => Live(c, F)'
  BY <1>1 DEF Live, live
<1>5. \A t \in Saves : pc'[t] = IF t = s THEN "open" ELSE pc[t]
  BY <1>1 DEF IInv, Shape
<1>6. \A t \in Saves : alone[t] /\ pc[t] = "loaded" => FALSE
  <2>1. ASSUME NEW t \in Saves, alone[t], pc[t] = "loaded" PROVE FALSE
    BY <2>1, <1>1, <1>2 DEF Current, Busy
  <2> QED BY <2>1
<1>7. \A t \in Saves : alone'[t] /\ pc'[t] \in {"read", "open"} =>
        Live(Apply(Toml, over[t]), fresh \ Feeds(Kind(t)))'
  <2> SUFFICES ASSUME NEW t \in Saves, alone'[t], pc'[t] \in {"read", "open"}
               PROVE  Live(Apply(Toml, over[t]), fresh \ Feeds(Kind(t)))'
    OBVIOUS
  <2>1. Live(Apply(Toml, over[t]), fresh \ Feeds(Kind(t)))
    BY <1>1, <1>5 DEF Current
  <2> QED BY <2>1, <1>1, <1>3 DEF Live, live
<1>8. /\ alone' \in [Saves -> BOOLEAN] /\ DOMAIN got' = Saves
      /\ \A t \in Busy' : alone'[t] => Busy' = {t}
      /\ fresh' # {} => \A t \in Busy' : alone'[t]
  BY <1>1, <1>2 DEF Current
<1>9. \A t \in Saves : alone'[t] /\ pc'[t] \in {"written", "loaded"} => (fresh \cap Feeds(Kind(t)))' = {}
  BY <1>1, <1>3, <1>5 DEF Current
<1> QED BY <1>1, <1>5, <1>6, <1>7, <1>8, <1>9 DEF Current

(* What was written loads as what was asked for.                           *)
LEMMA FillCurrent == ASSUME IInv, Current, NEW s \in Saves, Fill(s) PROVE Current'
<1>1. /\ pc[s] = "open" /\ pc' = [pc EXCEPT ![s] = "written"] /\ over' = [over EXCEPT ![s] = Blank]
      /\ file' \in IF file = Torn THEN {over[s]} ELSE {over[s], Torn}
      /\ fresh' = fresh \ Feeds(Kind(s)) /\ UNCHANGED <<live, req, got, alone>>
  BY DEF Fill, Goto
<1>2. s \in Busy /\ Busy' = Busy
  BY <1>1 DEF IInv, Shape, Busy
<1>3. \A t \in Saves : pc'[t] = IF t = s THEN "written" ELSE pc[t]
  BY <1>1 DEF IInv, Shape
<1>4. alone' \in [Saves -> BOOLEAN] /\ DOMAIN got' = Saves /\ (\A t \in Saves : Kind(t)' = Kind(t))
  BY <1>1 DEF Current, Kind
<1>5. CASE alone[s]
  <2>1. Busy = {s}
    BY <1>2, <1>5 DEF Current
  <2>2. \A t \in Saves : t # s => pc'[t] = "idle"
    BY <2>1, <1>3 DEF Busy
  <2>3. file' = over[s] /\ over[s] \in Overrides
    BY <1>1, <1>5 DEF Current, IInv, Shape
  <2>4. Load(file)' = Apply(Toml, over[s])
    BY <2>3, OverridesAssumption DEF Load
  <2>5. Live(Apply(Toml, over[s]), fresh \ Feeds(Kind(s)))
    BY <1>1, <1>5 DEF Current
  <2>6. Live(Load(file), fresh)'
    BY <2>4, <2>5, <1>1 DEF Live, live
  <2>7. (fresh \cap Feeds(Kind(s)))' = {}
    BY <1>1 DEF Feeds, Kind
  <2> QED BY <1>1, <1>2, <1>3, <1>4, <1>5, <2>1, <2>2, <2>6, <2>7 DEF Current
<1>6. CASE ~alone[s]
  <2>1. fresh = {} /\ \A t \in Busy : ~alone[t]
    BY <1>2, <1>6 DEF Current
  <2>2. fresh' = {} /\ \A t \in Saves : alone'[t] => pc'[t] = "idle"
    BY <2>1, <1>1, <1>2 DEF Busy
  <2>3. Live(Load(file), fresh)'
    BY <2>2 DEF Live
  <2>4. \A t \in Busy' : ~alone'[t]
    BY <2>1, <1>1, <1>2
  <2> QED BY <1>4, <2>2, <2>3, <2>4 DEF Current
<1> QED BY <1>5, <1>6

(* The handler loads what it wrote.                                        *)
LEMMA ReloadCurrent ==
  ASSUME IInv, Current, NEW s \in Saves, Reload(s), ~Ended({s})
  PROVE  Current'
<1>1. /\ pc[s] = "written" /\ pc' = [pc EXCEPT ![s] = "loaded"] /\ got' = [got EXCEPT ![s] = Load(file)]
      /\ UNCHANGED <<file, live, req, over, alone, fresh>>
  BY DEF Reload, Goto
<1>2. Busy' = Busy /\ s \in Busy
  BY <1>1 DEF IInv, Shape, Busy
<1>3. \A t \in Saves : pc'[t] = IF t = s THEN "loaded" ELSE pc[t]
  BY <1>1 DEF IInv, Shape
<1>4. /\ alone' \in [Saves -> BOOLEAN] /\ DOMAIN got' = Saves
      /\ \A t \in Busy' : alone'[t] => Busy' = {t}
      /\ fresh' # {} => \A t \in Busy' : alone'[t]
  BY <1>1, <1>2 DEF Current
<1>5. \A t \in Saves : alone'[t] /\ pc'[t] = "open" => file' = Torn
  BY <1>1, <1>3 DEF Current
<1>6. \A t \in Saves : alone'[t] /\ pc'[t] \in {"read", "open"} =>
        Live(Apply(Toml, over[t]), fresh \ Feeds(Kind(t)))'
  <2> SUFFICES ASSUME NEW t \in Saves, alone'[t], pc'[t] \in {"read", "open"}
               PROVE  Live(Apply(Toml, over[t]), fresh \ Feeds(Kind(t)))'
    OBVIOUS
  <2>1. Live(Apply(Toml, over[t]), fresh \ Feeds(Kind(t)))
    BY <1>1, <1>3 DEF Current
  <2>2. Apply(Toml, over[t])' = Apply(Toml, over[t]) /\ Feeds(Kind(t))' = Feeds(Kind(t))
    BY <1>1 DEF Kind, Feeds, Apply, ApplyAgent, ApplyAvatar, ApplySubagent
  <2> QED BY <2>1, <2>2, <1>1 DEF Live, live
<1>7. \A t \in Saves : alone'[t] /\ pc'[t] \in {"written", "loaded"} => (fresh \cap Feeds(Kind(t)))' = {}
  BY <1>1, <1>3 DEF Current, Kind, Feeds
<1>8. \A t \in Saves : alone'[t] /\ pc'[t] = "loaded" => got'[t] = Load(file)'
  BY <1>1, <1>3 DEF Current, Load
<1>9. (\A t \in Saves : pc'[t] # "open") => Live(Load(file), fresh)'
  BY <1>1, <1>3 DEF Current, Live, Load, live
<1> QED BY <1>4, <1>5, <1>6, <1>7, <1>8, <1>9 DEF Current

(* A handler returns: what it leaves is current, and nobody else is alone. *)
LEMMA EndCurrent ==
  ASSUME IInv, Current, NEW s \in Saves, s \in Busy, Ended({s}), file' = file,
         alone[s] => Live(Load(file), fresh)', ~alone[s] => fresh' = {}
  PROVE  Current'
<1>1. /\ pc' = [t \in Saves |-> IF t \in {s} THEN "idle" ELSE pc[t]]
      /\ alone' = [t \in Saves |-> t \in {s} \/ alone[t]]
      /\ DOMAIN got' = Saves
  BY DEF Ended
<1>2. alone' \in [Saves -> BOOLEAN]
  BY <1>1
<1>3. CASE alone[s]
  <2>1. Busy = {s}
    BY <1>3 DEF Current
  <2>2. \A t \in Saves : pc'[t] = "idle"
    BY <2>1, <1>1 DEF Busy
  <2> QED BY <1>1, <1>2, <1>3, <2>2 DEF Current, Busy
<1>4. CASE ~alone[s]
  <2>1. \A t \in Busy : ~alone[t]
    BY <1>4 DEF Current
  <2>2. \A t \in Saves : alone'[t] => pc'[t] = "idle"
    BY <2>1, <1>1 DEF Busy
  <2>3. Live(Load(file), fresh)'
    BY <1>4 DEF Live
  <2> QED BY <1>1, <1>2, <1>4, <2>2, <2>3 DEF Current, Busy
<1> QED BY <1>3, <1>4

(* A handler that returns has published its part or failed.                *)
LEMMA ReturnCurrent ==
  ASSUME IInv, Current, NEW s \in Saves,
         \/ WriteFails(s) \/ (Reload(s) /\ Ended({s})) \/ ReloadFails(s)
         \/ PublishAgent(s) \/ PublishConfig(s) \/ PublishSubagent(s)
  PROVE  Current'
<1>1. Ended({s}) /\ file' = file /\ s \in Busy
  BY DEF WriteFails, Reload, ReloadFails, PublishAgent, PublishConfig, PublishSubagent, Busy
<1>2. alone[s] => \A t \in Saves : t # s => pc[t] = "idle"
  BY <1>1 DEF Current, Busy
<1>3. ~alone[s] => fresh = {}
  BY <1>1 DEF Current
<1>4. Load(file)' = Load(file)
  BY <1>1 DEF Load
<1>5. CASE WriteFails(s)
  <2>1. fresh' = (IF pc[s] = "open" THEN {} ELSE fresh) /\ UNCHANGED live
    BY <1>5 DEF WriteFails
  <2>2. ~alone[s] => fresh' = {}
    BY <2>1, <1>3
  <2>3. alone[s] => Live(Load(file), fresh)'
    BY <2>1, <1>2, <1>4 DEF Current, Live, live
  <2> QED BY <2>2, <2>3, <1>1, EndCurrent
<1>6. CASE (Reload(s) /\ Ended({s})) \/ ReloadFails(s)
  <2>1. fresh' = fresh /\ UNCHANGED live /\ pc[s] = "written"
    BY <1>6 DEF Reload, ReloadFails
  <2>2. alone[s] => Live(Load(file), fresh)'
    BY <2>1, <1>2, <1>4 DEF Current, Live, live
  <2> QED BY <2>1, <2>2, <1>1, <1>3, EndCurrent
<1>7. CASE PublishAgent(s) \/ PublishConfig(s) \/ PublishSubagent(s)
  <2>1. ~alone[s] => fresh' = {}
    BY <1>3, <1>7 DEF PublishAgent, PublishConfig, PublishSubagent, Published
  <2>2. ASSUME alone[s] PROVE Live(Load(file), fresh)'
    <3>1. Live(Load(file), fresh) /\ got[s] = Load(file) /\ fresh \cap Feeds(Kind(s)) = {}
      BY <2>2, <1>2, <1>7 DEF Current, PublishAgent, PublishConfig, PublishSubagent
    <3>2. CASE PublishAgent(s)
      <4>1. /\ agent' = Load(file).agent /\ fresh' = fresh \cup {"agent"}
            /\ UNCHANGED <<present, config, subagent>> /\ "subagent" \notin fresh
        BY <2>2, <3>1, <3>2 DEF PublishAgent, Published, Feeds
      <4> QED BY <4>1, <3>1, <1>4 DEF Live
    <3>3. CASE PublishConfig(s)
      <4>1. /\ config' = AvatarOf(Load(file)) /\ fresh' = fresh \cup {"config"}
            /\ UNCHANGED <<present, agent, subagent>>
        BY <2>2, <3>1, <3>3 DEF PublishConfig, Published
      <4> QED BY <4>1, <3>1, <1>4 DEF Live
    <3>4. CASE PublishSubagent(s)
      <4>1. /\ subagent' = Subagent(AvatarOf(Load(file)), agent) /\ fresh' = fresh \cup {"subagent"}
            /\ UNCHANGED <<present, agent, config>>
        BY <2>2, <3>1, <3>4 DEF PublishSubagent, Published
      <4> QED BY <4>1, <3>1, <1>4 DEF Live
    <3> QED BY <1>7, <3>2, <3>3, <3>4
  <2> QED BY <2>1, <2>2, <1>1, EndCurrent
<1> QED BY <1>5, <1>6, <1>7

(* A restart builds everything from the file.                              *)
LEMMA RestartCurrent == ASSUME IInv, Current, Restart PROVE Current'
<1>1. /\ pc' = [s \in Saves |-> IF s \in Saves THEN "idle" ELSE pc[s]]
      /\ alone' = [s \in Saves |-> s \in Saves \/ alone[s]]
      /\ DOMAIN got' = Saves /\ file' = file
  BY DEF Restart, Ended
<1>2. Live(Load(file), fresh)'
  BY <1>1 DEF Restart, Built, Live, Load
<1>3. alone' \in [Saves -> BOOLEAN] /\ \A s \in Saves : pc'[s] = "idle"
  BY <1>1
<1> QED BY <1>1, <1>2, <1>3 DEF Current, Busy

(* Every step keeps the live parts current.                                *)
LEMMA NextCurrent == IInv /\ Current /\ [Next]_vars => Current'
<1> SUFFICES ASSUME IInv, Current, [Next]_vars PROVE Current'
  OBVIOUS
<1>1. CASE UNCHANGED vars
  <2>1. UNCHANGED <<file, present, agent, config, subagent, pc, req, over, got, alone, fresh>>
    BY <1>1 DEF vars, live, handler, history
  <2>2. Busy' = Busy /\ Load(file)' = Load(file)
    BY <2>1 DEF Busy, Load
  <2>3. \A s \in Saves : Live(Apply(Toml, over[s]), fresh \ Feeds(Kind(s)))
                            => Live(Apply(Toml, over[s]), fresh \ Feeds(Kind(s)))'
    BY <2>1 DEF Live, Kind, Feeds, Apply, ApplyAgent, ApplyAvatar, ApplySubagent
  <2>4. Live(Load(file), fresh) => Live(Load(file), fresh)'
    BY <2>1, <2>2 DEF Live
  <2>5. \A s \in Saves : (fresh \cap Feeds(Kind(s)))' = fresh \cap Feeds(Kind(s))
    BY <2>1 DEF Kind, Feeds
  <2> QED BY <2>1, <2>2, <2>3, <2>4, <2>5 DEF Current
<1>2. ASSUME NEW s \in Saves, Save(s) PROVE Current'
  BY <1>2, BeginCurrent, TruncateCurrent, FillCurrent, ReloadCurrent, ReturnCurrent DEF Save
<1> QED BY <1>1, <1>2, RestartCurrent DEF Next

-----------------------------------------------------------------------------
Asks == {<<k, b>> : k \in Kinds, b \in UNION {Bodies[j] : j \in Kinds}}

(* The handlers' part of the type invariant that IInv leaves open.         *)
Held ==
  /\ req \in [Saves -> Asks] /\ got \in [Saves -> Configs]
  /\ alone \in [Saves -> BOOLEAN] /\ fresh \subseteq {"agent", "config", "subagent"}

(* The live part.                                                          *)
Alive ==
  /\ present \in BOOLEAN /\ agent \in Agents /\ config \in Avatars
  /\ subagent \in Subagents \cup {NoClient}

(* Clients and avatar tables made of a configuration.                      *)
LEMMA BuiltTypes ==
  ASSUME NEW c \in Configs
  PROVE  /\ AvatarOf(c) \in Avatars /\ c.agent \in Agents /\ AvatarOf(c).enabled \in BOOLEAN
         /\ \A a \in Agents : Subagent(AvatarOf(c), a) \in Subagents \cup {NoClient}
<1>1. AvatarOf(c) \in Avatars /\ c.agent \in Agents
  BY OverridesAssumption DEF AvatarOf, Configs, Avatars
<1>2. ASSUME NEW t \in Avatars, NEW a \in Agents
      PROVE  Subagent(t, a) \in Subagents \cup {NoClient} /\ t.enabled \in BOOLEAN
  BY DEF Subagent, Build, Avatars, Subagents
<1>3. AvatarOf(c).enabled \in BOOLEAN
  BY <1>1 DEF Avatars
<1> QED BY <1>1, <1>2, <1>3

(* What stands for no request is one that could be made.                   *)
LEMMA NoAsk == NoRequest \in Asks
<1> DEFINE b == CHOOSE b \in Bodies["agent"] : TRUE
<1>1. b \in Bodies["agent"] /\ "agent" \in Kinds
  BY OverridesAssumption DEF Kinds
<1> HIDE DEF b
<1>2. NoRequest = <<"agent", b>>
  BY DEF NoRequest, b
<1> QED BY <1>1, <1>2 DEF Asks

(* A handler that returns forgets what it held.                            *)
LEMMA EndedHeld ==
  ASSUME Held, NEW S \in SUBSET Saves, Ended(S)
  PROVE  req' \in [Saves -> Asks] /\ got' \in [Saves -> Configs] /\ alone' \in [Saves -> BOOLEAN]
<1>1. Toml \in Configs
  BY OverridesAssumption
<1>2. /\ req' = [s \in Saves |-> IF s \in S THEN NoRequest ELSE req[s]]
      /\ got' = [s \in Saves |-> IF s \in S THEN Toml ELSE got[s]]
      /\ alone' = [s \in Saves |-> s \in S \/ alone[s]]
  BY DEF Ended
<1> QED BY <1>1, <1>2, NoAsk DEF Held

(* The first state has the types.                                          *)
LEMMA InitType == Init => Held /\ Alive
<1> SUFFICES ASSUME Init PROVE Held /\ Alive
  OBVIOUS
<1>1. Load(file) \in Configs /\ Toml \in Configs
  BY SnapshotLoads, OverridesAssumption DEF Init
<1>2. Held
  BY <1>1, NoAsk DEF Init, Held
<1>3. /\ AvatarOf(Load(file)) \in Avatars /\ Load(file).agent \in Agents
      /\ AvatarOf(Load(file)).enabled \in BOOLEAN
      /\ Subagent(AvatarOf(Load(file)), Load(file).agent) \in Subagents \cup {NoClient}
  BY <1>1, BuiltTypes
<1>4. Alive
  BY <1>3 DEF Init, Alive
<1> QED BY <1>2, <1>4

(* And every step keeps them.                                              *)
LEMMA NextType == IInv /\ Held /\ Alive /\ [Next]_vars => Held' /\ Alive'
<1> SUFFICES ASSUME IInv, Held, Alive, [Next]_vars PROVE Held' /\ Alive'
  OBVIOUS
<1>1. Load(file) \in Configs
  BY SnapshotLoads DEF IInv, Shape
<1>2. CASE UNCHANGED vars
  BY <1>2 DEF vars, live, handler, history, Held, Alive
<1>3. CASE Restart
  <2>1. Held'
    BY <1>3, EndedHeld DEF Restart, Held
  <2>2. /\ AvatarOf(Load(file)) \in Avatars /\ Load(file).agent \in Agents
        /\ AvatarOf(Load(file)).enabled \in BOOLEAN
        /\ Subagent(AvatarOf(Load(file)), Load(file).agent) \in Subagents \cup {NoClient}
    BY <1>1, BuiltTypes
  <2>3. Alive'
    BY <1>3, <2>2 DEF Restart, Built, Alive
  <2> QED BY <2>1, <2>3
<1>4. ASSUME NEW s \in Saves, Begin(s) PROVE Held' /\ Alive'
  <2>1. PICK k \in Kinds : \E b \in Bodies[k] : req' = [req EXCEPT ![s] = <<k, b>>]
    BY <1>4 DEF Begin
  <2>a. PICK b \in Bodies[k] : req' = [req EXCEPT ![s] = <<k, b>>]
    BY <2>1
  <2>2. <<k, b>> \in Asks
    BY DEF Asks
  <2>3. /\ alone' = [t \in Saves |-> IF t = s THEN Busy = {} ELSE alone[t] /\ t \notin Busy]
        /\ fresh' \in {fresh, {}} /\ got' = got /\ UNCHANGED live
    BY <1>4 DEF Begin
  <2>4. alone' \in [Saves -> BOOLEAN]
    BY <2>3
  <2> QED BY <2>a, <2>2, <2>3, <2>4 DEF Held, Alive, live
<1>5. ASSUME NEW s \in Saves, Truncate(s) \/ Fill(s) PROVE Held' /\ Alive'
  BY <1>5 DEF Truncate, Fill, Held, Alive, live, history
<1>6. ASSUME NEW s \in Saves, Reload(s), ~Ended({s}) PROVE Held' /\ Alive'
  BY <1>1, <1>6 DEF Reload, Held, Alive, live
<1>7. ASSUME NEW s \in Saves, Ended({s}), WriteFails(s) \/ Reload(s) \/ ReloadFails(s)
      PROVE  Held' /\ Alive'
  BY <1>7, EndedHeld DEF WriteFails, Reload, ReloadFails, Held, Alive, live
<1>8. ASSUME NEW s \in Saves, PublishAgent(s) \/ PublishConfig(s) \/ PublishSubagent(s)
      PROVE  Held' /\ Alive'
  <2>1. got[s] \in Configs
    BY DEF Held
  <2>2. /\ AvatarOf(got[s]) \in Avatars /\ got[s].agent \in Agents
        /\ Subagent(AvatarOf(got[s]), agent) \in Subagents \cup {NoClient}
    BY <2>1, BuiltTypes DEF Alive
  <2>3. Held'
    BY <1>8, EndedHeld DEF PublishAgent, PublishConfig, PublishSubagent, Published, Held
  <2>4. Alive'
    BY <1>8, <2>2 DEF PublishAgent, PublishConfig, PublishSubagent, Alive
  <2> QED BY <2>3, <2>4
<1>9. ASSUME NEW s \in Saves, WriteFails(s) \/ ReloadFails(s) PROVE Ended({s})
  BY <1>9 DEF WriteFails, ReloadFails
<1>10. ASSUME NEW s \in Saves, Save(s) PROVE Held' /\ Alive'
  BY <1>10, <1>4, <1>5, <1>6, <1>7, <1>8, <1>9 DEF Save
<1> QED BY <1>2, <1>3, <1>10 DEF Next

-----------------------------------------------------------------------------
(* The invariant is one of the specification.                              *)
THEOREM Invariance == Spec => []IInv
BY InitInv, NextInv, PTL DEF Spec

(* The file, the live parts and the handlers have their types.             *)
THEOREM TypeCorrect == Spec => []TypeOK
<1>1. IInv /\ Held /\ Alive => TypeOK
  BY DEF IInv, Shape, Held, Alive, Asks, TypeOK
<1> QED BY <1>1, InitType, NextType, Invariance, PTL DEF Spec

(* Saves made one after the other add up: the files give every setting the *)
(* value last asked for, whatever was refused and whenever it crashed.     *)
THEOREM SavedCorrect == Spec => []SavedIsKept
<1>1. IInv => SavedIsKept
  BY DEF IInv, InTurn, SavedIsKept, Busy
<1> QED BY <1>1, Invariance, PTL

(* What runs is what a restart would run and what the settings page shows, *)
(* as far as no later save has outdated it.                                *)
THEOREM LiveCorrect == Spec => []LiveAsRestarted
<1>1. Current => LiveAsRestarted
  <2> SUFFICES ASSUME Current, Busy = {} PROVE LiveAsRestarted
    BY DEF LiveAsRestarted
  <2>1. Live(Load(file), fresh)
    BY DEF Current, Busy
  <2>2. present /\ "config" \in fresh => Shown = config
    BY <2>1 DEF Live, Shown
  <2> QED BY <2>1, <2>2 DEF LiveAsRestarted, Live
<1> QED BY <1>1, InitCurrent, NextCurrent, Invariance, PTL DEF Spec
=============================================================================
