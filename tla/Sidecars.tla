------------------------------ MODULE Sidecars ------------------------------
(***************************************************************************)
(* The two engines beside TTS: the NMT translator (TranslatorManager in    *)
(* translator.rs) and speech recognition (SpeechManager in                 *)
(* speech_server.rs), whose code is the same but for the names.  Boot      *)
(* builds a manager for each that is configured, a settings save may       *)
(* replace the translator's, and the end of the server may stop them.      *)
(*                                                                         *)
(* Neither touches the other, so a behaviour follows one of them: kind.    *)
(* Unlike the TTS swap, a save notes the manager to stop when the request  *)
(* is served, not when its task runs.                                      *)
(***************************************************************************)
EXTENDS Naturals, FiniteSets

CONSTANTS
  MaxSaves,     \* saves of the subagent's settings, over all lives of the server
  MaxLives,     \* how often the server is started
  MaxEngines,   \* engine processes at the same time
  Ports,        \* the ports a configuration may name
  None          \* no manager, no engine, nobody

ASSUME SidecarsAssumption ==
  /\ MaxSaves \in Nat /\ MaxLives \in Nat \ {0} /\ MaxEngines \in Nat
  /\ Ports # {} /\ None \notin Nat

Boot     == 0
Managers == Boot .. MaxSaves        \* the manager of boot, and of each save
Main     == MaxSaves + 1            \* the main task
Tasks    == Managers \cup {Main}    \* a manager's task installs it
Engines  == 1 .. MaxEngines

VARIABLES
  kind,    \* which of the two the behaviour follows
  http,    \* the live configuration wants the engine: backend, enabled
  close,   \* close_with_companion of the live configuration
  engine,  \* the engine processes
  at,      \* the port each listens at
  child,   \* the engine whose handle the manager has
  holder,  \* the task that holds the manager's child mutex
  slot,    \* AvatarWsState's translator_mgr or speech_mgr
  plan,    \* what the manager's task is to do with it, until it has
  port,    \* and at which port
  pc,      \* where each task is
  target,  \* the manager it is to stop
  saves,   \* saves so far
  lives,   \* lives so far
  raced,   \* history: a save or a shutdown overlapped an unfinished swap
  ours     \* history, until then: this life's engines that have not outlived being killed

config   == <<kind, http, close>>
process  == <<engine, at>>
managers == <<child, holder, slot, plan, port>>
history  == <<saves, lives, ours, raced>>
vars     == <<config, process, managers, pc, target, history>>

EngineStates == {"gone", "loading", "serving", "dying"}
Plans        == {"off", "manual", "external", "auto"}
Steps        == {"idle", "post", "lock", "reap", "poll", "publish", "probe", "spawn", "wait",
                 "run", "exited", "killed"}

TypeOK ==
  /\ kind \in {"nmt", "speech"} /\ http \in BOOLEAN /\ close \in BOOLEAN
  /\ engine \in [Engines -> EngineStates]
  /\ at     \in [Engines -> Ports]
  /\ child  \in [Managers -> Engines \cup {None}]
  /\ holder \in [Managers -> Tasks \cup {None}]
  /\ slot   \in Managers \cup {None}
  /\ plan   \in [Managers -> Plans]
  /\ port   \in [Managers -> Ports]
  /\ pc     \in [Tasks -> Steps]
  /\ target \in [Tasks -> Managers \cup {None}]
  /\ saves  \in 0 .. MaxSaves /\ lives \in 1 .. MaxLives
  /\ ours   \subseteq Engines /\ raced \in BOOLEAN
  /\ \A t \in Tasks : pc[t] = "reap" => child[target[t]] \in Engines

-----------------------------------------------------------------------------
(* build_avatar: no manager when the engine is not wanted; otherwise it is  *)
(* started in a task of its own unless auto_start is off.                   *)
BootPlans   == IF http THEN Plans \ {"off"} ELSE {"off"}
BootSlot(p) == IF p = "off" THEN None ELSE Boot
StartAt(p)  == IF p \in {"auto", "external"} THEN "probe" ELSE "idle"

NoneHeld    == [m \in Managers |-> None]
AtBoot(p)   == [m \in Managers |-> IF m = Boot /\ p \notin {"off", "manual"} THEN p ELSE "off"]
BootPc(p)   == [t \in Tasks |-> CASE t = Main -> "run" [] t = Boot -> StartAt(p) [] OTHER -> "idle"]

Init ==
  /\ kind \in {"nmt", "speech"} /\ http \in BOOLEAN /\ close \in BOOLEAN
  /\ engine = [e \in Engines |-> "gone"]
  /\ child = NoneHeld /\ holder = NoneHeld
  /\ \E p \in BootPlans : slot = BootSlot(p) /\ plan = AtBoot(p) /\ pc = BootPc(p)
  /\ \E q \in Ports : at = [e \in Engines |-> q] /\ port = [m \in Managers |-> q]
  /\ target = [t \in Tasks |-> None]
  /\ saves = 0 /\ lives = 1 /\ ours = {} /\ raced = FALSE

Running    == pc[Main] \notin {"exited", "killed"}
Goto(t, l) == pc' = [pc EXCEPT ![t] = l]

(* What the server holds in its memory goes with it; its tasks stop where   *)
(* they are, its engines do not.                                            *)
Gone(l) ==
  /\ child' = NoneHeld /\ holder' = NoneHeld /\ slot' = None
  /\ plan' = AtBoot("off") /\ pc' = [BootPc("off") EXCEPT ![Main] = l]
  /\ target' = [t \in Tasks |-> None]

(* A manager's task has nothing left to do.                                 *)
Done(m) == Goto(m, "idle") /\ plan' = [plan EXCEPT ![m] = "off"]

(* A task between its first step and the one that makes it harmless: what   *)
(* it waits for last, /health, another task may do without.                 *)
InSwap(t) == pc[t] \in {"post", "lock", "reap", "poll", "publish", "probe", "spawn"}
Busy      == \E t \in Tasks : InSwap(t)

-----------------------------------------------------------------------------
(* The engines.  One that serves answers /health; one that is shutting down *)
(* may still.                                                               *)
Alive(e)     == engine[e] # "gone"
Bound(q)     == {e \in Engines : at[e] = q /\ engine[e] \in {"serving", "dying"}}
MayAnswer(q) == Bound(q) # {}

(* A launched engine has loaded its model; it ends if its port is taken.    *)
Loaded(e) ==
  /\ engine[e] = "loading"
  /\ engine' = [engine EXCEPT ![e] = IF Bound(at[e]) = {} THEN "serving" ELSE "gone"]
  /\ UNCHANGED <<config, at, managers, pc, target, history>>

(* It crashes, or ends as it was told to.                                   *)
Ends(e) ==
  /\ Alive(e)
  /\ engine' = [engine EXCEPT ![e] = "gone"]
  /\ UNCHANGED <<config, at, managers, pc, target, history>>

-----------------------------------------------------------------------------
(* start_server: whoever answers at the port is adopted.                    *)
Adopt(m) ==
  /\ Running /\ pc[m] = "probe" /\ MayAnswer(port[m])
  /\ Done(m)
  /\ UNCHANGED <<config, process, child, holder, slot, port, target, history>>

(* Nobody does within two seconds, as a busy engine may not either.         *)
(* Without a launch command somebody else is to start one.                  *)
NotThere(m) ==
  /\ Running /\ pc[m] = "probe"
  /\ Goto(m, IF plan[m] = "external" THEN "wait" ELSE "spawn")
  /\ UNCHANGED <<config, process, managers, target, history>>

(* The launch, under the mutex; not a second one.                           *)
FreeEngine == CHOOSE e \in Engines :
  ~Alive(e) /\ \A m \in Managers : child[m] # e

Spawn(m) ==
  /\ Running /\ pc[m] = "spawn" /\ holder[m] = None /\ child[m] = None
  /\ \E e \in Engines : ~Alive(e) /\ \A n \in Managers : child[n] # e
  /\ engine' = [engine EXCEPT ![FreeEngine] = "loading"]
  /\ at'     = [at EXCEPT ![FreeEngine] = port[m]]
  /\ child'  = [child EXCEPT ![m] = FreeEngine]
  /\ ours'   = IF raced THEN ours ELSE ours \cup {FreeEngine}
  /\ Goto(m, "wait")
  /\ UNCHANGED <<config, holder, slot, plan, port, target, saves, lives, raced>>

(* The command cannot be run: start_server fails, which is logged.          *)
SpawnFails(m) ==
  /\ Running /\ pc[m] = "spawn" /\ holder[m] = None
  /\ Done(m)
  /\ UNCHANGED <<config, process, child, holder, slot, port, target, history>>

(* wait_for_health ends: the engine answers, or time is up.                 *)
WaitEnds(m) ==
  /\ Running /\ pc[m] = "wait"
  /\ Done(m)
  /\ UNCHANGED <<config, process, child, holder, slot, port, target, history>>

-----------------------------------------------------------------------------
(* stop_server: POST /shutdown to whoever serves at the manager's port;     *)
(* that it may fail is ignored.                                             *)
RequestStop(t) ==
  /\ Running /\ pc[t] = "post"
  /\ \/ UNCHANGED engine
     \/ \E e \in Bound(port[target[t]]) : engine' = [engine EXCEPT ![e] = "dying"]
  /\ Goto(t, "lock")
  /\ UNCHANGED <<config, at, managers, target, history>>

(* Seeded fault: the mutex is released before the child is awaited.         *)
TakeChild_Unheld(t) ==
  /\ Running /\ pc[t] = "lock" /\ holder[target[t]] = None
  /\ UNCHANGED holder
  /\ Goto(t, IF child[target[t]] = None THEN "poll" ELSE "reap")
  /\ UNCHANGED <<config, process, child, slot, plan, port, target, history>>

(* The handle is taken under the mutex, which is held while it is awaited.  *)
TakeChild(t) ==
  /\ Running /\ pc[t] = "lock" /\ holder[target[t]] = None
  /\ holder' = [holder EXCEPT ![target[t]] = t]
  /\ Goto(t, IF child[target[t]] = None THEN "poll" ELSE "reap")
  /\ UNCHANGED <<config, process, child, slot, plan, port, target, history>>

(* The main task exits when it has stopped the engine; a save's goes on,    *)
(* and the manager it stopped keeps only this handle.                       *)
LetGo(t, handle) ==
  /\ \/ t = Main /\ Gone("exited")
     \/ /\ t # Main /\ Goto(t, "publish")
        /\ child'  = [child EXCEPT ![target[t]] = handle]
        /\ holder' = [holder EXCEPT ![target[t]] = None]
        /\ target' = [target EXCEPT ![t] = None]
        /\ UNCHANGED <<slot, plan>>
  /\ UNCHANGED <<config, at, port, saves, lives, raced>>

(* The engine it launched goes within eight seconds, or is killed.  What is *)
(* killed is the shell of the launch command: an engine that the shell does *)
(* not exec, as cmd /C never does, outlives it.  So does any engine that    *)
(* can neither be awaited nor killed.                                       *)
Reap(t) ==
  /\ Running /\ pc[t] = "reap"
  /\ \/ engine' = [engine EXCEPT ![child[target[t]]] = "gone"] /\ UNCHANGED ours
     \/ /\ Alive(child[target[t]]) /\ UNCHANGED engine
        /\ ours' = ours \ {child[target[t]]}
  /\ LetGo(t, None)

(* It does not go and the kill fails: the manager keeps the handle.         *)
KillFails(t) ==
  /\ Running /\ pc[t] = "reap" /\ Alive(child[target[t]])
  /\ UNCHANGED engine
  /\ ours' = ours \ {child[target[t]]}
  /\ LetGo(t, child[target[t]])

(* Seeded fault: no deadline for one that keeps answering.                  *)
PollEnds_NoDeadline(t) ==
  /\ Running /\ pc[t] = "poll" /\ \A e \in Bound(port[target[t]]) : engine[e] = "dying"
  /\ UNCHANGED <<engine, ours>>
  /\ LetGo(t, None)

(* One it did not launch stops answering, or it is left after a warning.    *)
PollEnds(t) ==
  /\ Running /\ pc[t] = "poll"
  /\ UNCHANGED <<engine, ours>>
  /\ LetGo(t, None)

-----------------------------------------------------------------------------
(* Seeded fault: the old manager is only replaced.                          *)
FirstStep_NoStop(old) == "publish"

FirstStep(old) == IF old = None THEN "publish" ELSE "post"

(* History: whether it finds a swap under way; ours is followed until then. *)
Overlaps ==
  /\ raced' = (raced \/ Busy)
  /\ ours'  = IF raced' THEN {} ELSE ours

(* POST /api/config/subagent.  The manager to stop is the one of this       *)
(* moment.                                                                  *)
Save ==
  /\ Running /\ pc[Main] = "run" /\ kind = "nmt" /\ saves < MaxSaves
  /\ saves' = saves + 1 /\ close' \in BOOLEAN
  /\ \E p \in Plans : \E q \in Ports :
       /\ p # "off" \/ slot # None
       /\ http' = (p # "off")
       /\ plan' = [plan EXCEPT ![saves'] = p]
       /\ port' = [port EXCEPT ![saves'] = q]
  /\ target' = [target EXCEPT ![saves'] = slot]
  /\ Goto(saves', FirstStep(slot))
  /\ Overlaps
  /\ UNCHANGED <<kind, process, child, holder, slot, lives>>

(* No task: the llm backend is saved while the slot is empty, or nothing    *)
(* the engine was started with changes.                                     *)
SaveOther ==
  /\ Running /\ pc[Main] = "run" /\ kind = "nmt" /\ saves < MaxSaves
  /\ saves' = saves + 1 /\ close' \in BOOLEAN
  /\ \/ http' = FALSE /\ slot = None
     \/ http' = TRUE /\ slot # None
  /\ Overlaps
  /\ UNCHANGED <<kind, process, managers, pc, target, lives>>

Installed(m) == IF plan[m] = "off" THEN None ELSE m

Publish(m) ==
  /\ Running /\ pc[m] = "publish"
  /\ slot' = Installed(m)
  /\ IF StartAt(plan[m]) = "idle" THEN Done(m) ELSE Goto(m, "probe") /\ UNCHANGED plan
  /\ UNCHANGED <<config, process, child, holder, port, target, history>>

-----------------------------------------------------------------------------
(* Seeded fault: the manager built at boot is stopped.                      *)
ToStop_Boot == IF http /\ close THEN Boot ELSE None

(* main, after the listener: what it stops.                                 *)
ToStop == IF http /\ close THEN slot ELSE None

Shutdown ==
  /\ pc[Main] = "run"
  /\ \/ ToStop = None /\ Gone("exited")
     \/ /\ ToStop # None /\ Goto(Main, "post")
        /\ target' = [target EXCEPT ![Main] = ToStop]
        /\ UNCHANGED <<child, holder, slot, plan>>
  /\ Overlaps
  /\ UNCHANGED <<config, process, port, saves, lives>>

(* The server is killed.                                                    *)
Kill ==
  /\ Running
  /\ Gone("killed")
  /\ UNCHANGED <<config, process, port, history>>

(* It is started again, with the configuration it had; its engines may      *)
(* still be there.                                                          *)
Restart ==
  /\ ~Running /\ lives < MaxLives
  /\ lives' = lives + 1 /\ ours' = {} /\ raced' = FALSE
  /\ child' = NoneHeld /\ holder' = NoneHeld
  /\ \E p \in BootPlans : slot' = BootSlot(p) /\ plan' = AtBoot(p) /\ pc' = BootPc(p)
  /\ \E q \in Ports : port' = [m \in Managers |-> q]
  /\ target' = [t \in Tasks |-> None]
  /\ UNCHANGED <<config, process, saves>>

-----------------------------------------------------------------------------
Start(m) == Adopt(m) \/ NotThere(m) \/ Spawn(m) \/ SpawnFails(m) \/ WaitEnds(m)
Stop(t)  == RequestStop(t) \/ TakeChild(t) \/ Reap(t) \/ KillFails(t) \/ PollEnds(t)

Next ==
  \/ \E e \in Engines : Loaded(e) \/ Ends(e)
  \/ \E m \in Managers : Start(m) \/ Publish(m)
  \/ \E t \in Tasks : Stop(t)
  \/ Save \/ SaveOther \/ Shutdown \/ Kill \/ Restart

Spec == Init /\ [][Next]_vars

(* As long as some task can go on, the runtime polls one that can; waits    *)
(* have deadlines.  Which it polls is left open, and need not be fair: a    *)
(* task has few steps to go.                                                *)
FairSpec ==
  Spec /\ WF_vars((\E m \in Managers : Start(m) \/ Publish(m)) \/ \E t \in Tasks : Stop(t))

-----------------------------------------------------------------------------
(* Unless a save or a shutdown overlapped an unfinished swap, an engine     *)
(* this life of the server has launched runs under the manager in the slot, *)
(* which can stop it, or it has outlived being killed: it was alive when    *)
(* its eight seconds were over, and the kill did not reach it.  (Two        *)
(* overlapping saves stop the same old manager, and the engine of the first *)
(* to publish is left behind without anybody having tried.)                 *)
NoStraySidecar ==
  Running /\ ~raced /\ ~Busy =>
    \A e \in ours : Alive(e) => slot # None /\ child[slot] = e

(* With close_with_companion, a server that was told to end has stopped the *)
(* engine it launched, however far it had loaded: only one that outlived    *)
(* being killed is left behind.                                             *)
ClosesWithCompanion ==
  pc[Main] = "exited" /\ http /\ close /\ ~raced => \A e \in ours : ~Alive(e)

(* No swap hangs: not on the mutex, not on an engine that keeps answering.  *)
SwapsEnd == []<>(~Busy \/ ~Running)
=============================================================================
