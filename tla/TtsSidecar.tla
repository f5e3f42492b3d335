----------------------------- MODULE TtsSidecar -----------------------------
(***************************************************************************)
(* The life of the TTS engine: AnimeTtsManager (tts_server.rs), the task   *)
(* that a settings save spawns to replace it (handlers/config.rs), the     *)
(* boot and the shutdown of companion-server (main.rs), the health         *)
(* watchdog (handlers/health.rs) and the host window that ends it all      *)
(* (companion-tauri's lib.rs).                                             *)
(*                                                                         *)
(* A manager launches at most one engine, so the engine it launched bears  *)
(* its name; Warm is an engine that somebody else started.  Start and stop *)
(* are asynchronous and take turns of the scheduler between their steps;   *)
(* what serialises them is the mutex around each manager's child handle.   *)
(***************************************************************************)
EXTENDS Naturals

CONSTANTS
  Managers,   \* the managers that boot and the saves build
  Boot,       \* the one built at boot
  Launchers,  \* managers with a launcher_command
  Warm,       \* an engine that somebody else started
  Main,       \* the main task of companion-server
  Free,       \* a mutex nobody holds; a watchdog between two probes
  Setups      \* the configurations: the api_url of each manager and of the warm
              \* engine, and whether a launcher's shell stays in front of its
              \* engine (cmd /C does, sh -c of a single command becomes it)

ASSUME SidecarAssumption ==
  /\ Boot \in Managers /\ Launchers \subseteq Managers
  /\ Warm \notin Managers /\ Main \notin Managers
  /\ Free \notin Managers \cup {Main}
  /\ \A s \in Setups : DOMAIN s.url = Managers \cup {Warm} /\ s.wraps \in BOOLEAN

Engines == Managers \cup {Warm}
Tasks   == Managers \cup {Main}

VARIABLES
  setup,   \* one of Setups, which nothing changes
  engine,  \* the engine processes
  child,   \* the manager holds the handle of what it launched
  holder,  \* which task holds the manager's child mutex
  live,    \* AvatarWsState.tts
  pc,      \* where the task that installs a manager is, and the main task
  target,  \* the manager a task is stopping
  host,    \* the shutdown thread of the Tauri host
  up,      \* AppHealth.tts_up
  watch,   \* the manager the watchdog is probing
  raced,   \* history: a save or a shutdown overlapped an unfinished swap
  spared   \* history: engines whose launcher was killed in front of them

managers == <<child, holder, live, spared>>
health   == <<up, watch>>
vars     == <<setup, engine, managers, pc, target, host, health, raced>>

url   == setup.url
wraps == setup.wraps

EngineState == {"none", "loading", "serving", "dying", "gone"}
TaskState   == {"idle", "load", "post", "lock", "reap", "poll", "publish",
                "probe", "spawn", "health", "up", "failed"}
MainState   == {"run", "load", "post", "lock", "reap", "poll", "exited"}

TypeOK ==
  /\ setup \in Setups
  /\ engine \in [Engines -> EngineState]
  /\ child  \in [Managers -> BOOLEAN]
  /\ holder \in [Managers -> Tasks \cup {Free}]
  /\ live   \in Managers
  /\ DOMAIN pc = Tasks /\ pc[Main] \in MainState
  /\ \A m \in Managers : pc[m] \in TaskState
  /\ target \in [Tasks -> Managers]
  /\ host \in {"open", "polling", "sawdown", "expired"}
  /\ up \in BOOLEAN
  /\ watch \in Managers \cup {Free}
  /\ raced \in BOOLEAN
  /\ spared \subseteq Managers

Init ==
  /\ setup \in Setups
  /\ engine \in {[e \in Engines |-> IF e = Warm THEN s ELSE "none"] : s \in {"none", "serving"}}
  /\ child  = [m \in Managers |-> FALSE]
  /\ holder = [m \in Managers |-> Free]
  /\ live   = Boot
  /\ pc     = [t \in Tasks |-> IF t = Main THEN "run" ELSE IF t = Boot THEN "probe" ELSE "idle"]
  /\ target = [t \in Tasks |-> Boot]
  /\ host   = "open"
  /\ up     = TRUE
  /\ watch  = Free
  /\ raced  = FALSE
  /\ spared = {}

-----------------------------------------------------------------------------
(* companion-server runs until main returns or its host kills it.          *)
Running == pc[Main] # "exited" /\ host \in {"open", "polling"}

(* The engines.  One that serves answers GET /healthz in the end, one that  *)
(* is shutting down may.  Only probe_health gives up after two seconds.     *)
(* Once companion-server is gone the engines are left as they are.          *)

Alive(e)      == engine[e] \in {"loading", "serving", "dying"}
Bound(u)      == {e \in Engines : url[e] = u /\ engine[e] \in {"serving", "dying"}}
Serving(u)    == \E e \in Bound(u) : engine[e] = "serving"
MayAnswer(u)  == Bound(u) # {}
MayFail(u)    == ~Serving(u)

(* A launched engine has loaded its model; it ends if its port is taken.   *)
Loaded(e) ==
  /\ Running /\ engine[e] = "loading"
  /\ engine' = [engine EXCEPT ![e] = IF Bound(url[e]) = {} THEN "serving" ELSE "gone"]
  /\ UNCHANGED <<setup, managers, pc, target, host, health, raced>>

(* An engine crashes, or ends as it was told to.                           *)
Ends(e) ==
  /\ Running /\ Alive(e)
  /\ engine' = [engine EXCEPT ![e] = "gone"]
  /\ UNCHANGED <<setup, managers, pc, target, host, health, raced>>

-----------------------------------------------------------------------------
InSwap(t) == pc[t] \in {"load", "post", "lock", "reap", "poll", "publish", "probe", "spawn"}
Busy      == \E t \in Tasks : InSwap(t)

Goto(t, l) == pc' = [pc EXCEPT ![t] = l]

(* POST /api/config/avatar with a changed engine: the flag goes down and   *)
(* the swap is left to a task.                                             *)
Save(m) ==
  /\ Running /\ pc[Main] = "run" /\ pc[m] = "idle"
  /\ Goto(m, "load")
  /\ up' = FALSE
  /\ raced' = (raced \/ Busy)
  /\ UNCHANGED <<setup, engine, managers, target, host, watch>>

(* POST /api/shutdown or Ctrl+C: the listener closes and main goes on to   *)
(* stop the engine.                                                        *)
Shutdown ==
  /\ Running /\ pc[Main] = "run"
  /\ Goto(Main, "load")
  /\ raced' = (raced \/ Busy)
  /\ UNCHANGED <<setup, engine, managers, target, host, health>>

(* Seeded fault: the main task stops the manager that it started.          *)
BeginStop_Booted(t) ==
  /\ Running /\ pc[t] = "load"
  /\ target' = [target EXCEPT ![t] = IF t = Main THEN Boot ELSE live]
  /\ Goto(t, "post")
  /\ UNCHANGED <<setup, engine, managers, host, health, raced>>

(* stop_server of the manager that is live now.                            *)
BeginStop(t) ==
  /\ Running /\ pc[t] = "load"
  /\ target' = [target EXCEPT ![t] = live]
  /\ Goto(t, "post")
  /\ UNCHANGED <<setup, engine, managers, host, health, raced>>

(* POST /shutdown to whoever serves at its endpoint; errors are ignored.   *)
RequestStop(t) ==
  /\ Running /\ pc[t] = "post"
  /\ \/ UNCHANGED engine
     \/ \E e \in Bound(url[target[t]]) :
          engine' = [engine EXCEPT ![e] = "dying"]
  /\ Goto(t, "lock")
  /\ UNCHANGED <<setup, managers, target, host, health, raced>>

(* Seeded fault: the mutex is released while the child is awaited.         *)
TakeChild_Unheld(t) ==
  /\ Running /\ pc[t] = "lock" /\ holder[target[t]] = Free
  /\ Goto(t, IF child[target[t]] THEN "reap" ELSE "poll")
  /\ UNCHANGED <<setup, engine, managers, target, host, health, raced>>

TakeChild(t) ==
  /\ Running /\ pc[t] = "lock" /\ holder[target[t]] = Free
  /\ holder' = [holder EXCEPT ![target[t]] = t]
  /\ Goto(t, IF child[target[t]] THEN "reap" ELSE "poll")
  /\ UNCHANGED <<setup, engine, child, live, spared, target, host, health, raced>>

(* The last lines of stop_server, and where its caller goes on.            *)
Stopped(t) ==
  /\ child'  = [child EXCEPT ![target[t]] = FALSE]
  /\ holder' = [holder EXCEPT ![target[t]] = Free]
  /\ Goto(t, IF t = Main THEN "exited" ELSE "publish")
  /\ UNCHANGED <<setup, live, target, host, health, raced>>

(* The child exits by itself within GRACEFUL_SHUTDOWN_TIMEOUT (a shell in  *)
(* front of the engine exits with it) ...                                  *)
ReapExited(t) ==
  /\ Running /\ pc[t] = "reap" /\ ~Alive(target[t])
  /\ UNCHANGED <<engine, spared>>
  /\ Stopped(t)

(* Seeded fault: the child is awaited without a timeout.                   *)
ReapKilled_Never(t) ==
  /\ Running /\ pc[t] = "reap" /\ ~Alive(target[t])
  /\ UNCHANGED <<engine, spared>>
  /\ Stopped(t)

(* ... or is killed, which ends the engine only if it is the child.  The   *)
(* handle is dropped in either case.                                       *)
ReapKilled(t) ==
  /\ Running /\ pc[t] = "reap" /\ Alive(target[t])
  /\ \/ /\ wraps
        /\ spared' = spared \cup {target[t]}
        /\ UNCHANGED engine
     \/ /\ ~wraps
        /\ engine' = [engine EXCEPT ![target[t]] = "gone"]
        /\ UNCHANGED spared
  /\ Stopped(t)

(* Without a child, /healthz is polled until it fails or the same timeout  *)
(* passes.                                                                 *)
PollEnds(t) ==
  /\ Running /\ pc[t] = "poll"
  /\ UNCHANGED <<engine, spared>>
  /\ Stopped(t)

Publish(m) ==
  /\ Running /\ pc[m] = "publish"
  /\ live' = m
  /\ Goto(m, "probe")
  /\ UNCHANGED <<setup, engine, child, holder, spared, target, host, health, raced>>

-----------------------------------------------------------------------------
(* start_server.  It runs once for each manager, so its check for a child  *)
(* that is already there never holds.                                      *)

(* How it returns: the swap writes the flag, the boot only logs.           *)
Returns(m, ok) ==
  /\ Goto(m, IF ok THEN "up" ELSE "failed")
  /\ up' = IF m = Boot THEN up ELSE ok

Adopt(m) ==
  /\ Running /\ pc[m] = "probe" /\ MayAnswer(url[m])
  /\ Returns(m, TRUE)
  /\ UNCHANGED <<setup, engine, managers, target, host, watch, raced>>

ProbeFails(m) ==
  /\ Running /\ pc[m] = "probe"
  /\ Goto(m, IF m \in Launchers THEN "spawn" ELSE "health")
  /\ UNCHANGED <<setup, engine, managers, target, host, health, raced>>

Spawn(m) ==
  /\ Running /\ pc[m] = "spawn" /\ holder[m] = Free
  /\ engine' = [engine EXCEPT ![m] = "loading"]
  /\ child'  = [child EXCEPT ![m] = TRUE]
  /\ Goto(m, "health")
  /\ UNCHANGED <<setup, holder, live, spared, target, host, health, raced>>

SpawnFails(m) ==
  /\ Running /\ pc[m] = "spawn" /\ holder[m] = Free
  /\ Returns(m, FALSE)
  /\ UNCHANGED <<setup, engine, managers, target, host, watch, raced>>

Healthy(m) ==
  /\ Running /\ pc[m] = "health" /\ MayAnswer(url[m])
  /\ Returns(m, TRUE)
  /\ UNCHANGED <<setup, engine, managers, target, host, watch, raced>>

HealthTimeout(m) ==
  /\ Running /\ pc[m] = "health" /\ MayFail(url[m])
  /\ Returns(m, FALSE)
  /\ UNCHANGED <<setup, engine, managers, target, host, watch, raced>>

-----------------------------------------------------------------------------
(* The watchdog: it loads the live manager, probes it, writes the flag.    *)

(* Seeded fault: the watchdog keeps the manager it was spawned with.       *)
WatchBegin_Boot ==
  /\ Running /\ watch = Free
  /\ watch' = Boot
  /\ UNCHANGED <<setup, engine, managers, pc, target, host, up, raced>>

WatchBegin ==
  /\ Running /\ watch = Free
  /\ watch' = live
  /\ UNCHANGED <<setup, engine, managers, pc, target, host, up, raced>>

WatchEnd ==
  /\ Running /\ watch # Free
  /\ \/ MayAnswer(url[watch]) /\ up' = TRUE
     \/ MayFail(url[watch]) /\ up' = FALSE
  /\ watch' = Free
  /\ UNCHANGED <<setup, engine, managers, pc, target, host, raced>>

(* The main window is destroyed: its thread posts /api/shutdown, which may *)
(* not get through ...                                                     *)
HostClose ==
  /\ host = "open"
  /\ host' = "polling"
  /\ \/ UNCHANGED <<pc, raced>>
     \/ /\ pc[Main] = "run"
        /\ Goto(Main, "load")
        /\ raced' = (raced \/ Busy)
  /\ UNCHANGED <<setup, engine, managers, target, health>>

(* The process is killed: the flag and the watchdog's probe go with it.    *)
Killed ==
  /\ up' = TRUE /\ watch' = Free
  /\ UNCHANGED <<setup, engine, managers, pc, target, raced>>

(* ... asks GET /health, which a server answers only while main runs, and  *)
(* kills the process as soon as nobody answers ...                         *)
HostSeesDown ==
  /\ host = "polling" /\ pc[Main] # "run"
  /\ host' = "sawdown" /\ Killed

(* ... or after twelve rounds.                                             *)
HostExpires ==
  /\ host = "polling"
  /\ host' = "expired" /\ Killed

-----------------------------------------------------------------------------
StopStep(t)  == \/ BeginStop(t) \/ RequestStop(t) \/ TakeChild(t)
                \/ ReapExited(t) \/ ReapKilled(t) \/ PollEnds(t)
StartStep(m) == \/ Publish(m) \/ Adopt(m) \/ ProbeFails(m) \/ Spawn(m)
                \/ SpawnFails(m) \/ Healthy(m) \/ HealthTimeout(m)

Next ==
  \/ \E e \in Engines : Loaded(e) \/ Ends(e)
  \/ \E m \in Managers : Save(m) \/ StartStep(m)
  \/ \E t \in Tasks : StopStep(t)
  \/ Shutdown
  \/ WatchBegin \/ WatchEnd
  \/ HostClose \/ HostSeesDown \/ HostExpires

Spec == Init /\ [][Next]_vars

(* Every await of a task has a timeout, so a task goes on whatever the     *)
(* engines do; nothing is assumed of engines, users or the host.           *)
Fairness ==
  /\ WF_vars(StopStep(Main))
  /\ \A m \in Managers : WF_vars(StopStep(m) \/ StartStep(m))
  /\ WF_vars(WatchBegin \/ WatchEnd)

FairSpec == Spec /\ Fairness

-----------------------------------------------------------------------------
(* Properties.                                                             *)

(* Once no swap is under way the only engines this server launched that    *)
(* are still there are the live manager's and those that did not exit when *)
(* asked to and whose kill ended the shell in front of them; and when the  *)
(* server has exited, only the latter.  So none is left where sh -c became *)
(* the engine, and none that exits in time.  All this as long as no save   *)
(* or shutdown began during another's swap.                                *)
NoStrayEngine ==
  ~raced => /\ ~Busy /\ Running => \A m \in Managers : Alive(m) => m = live \/ (wraps /\ m \in spared)
            /\ pc[Main] = "exited" => \A m \in Managers : Alive(m) => wraps /\ m \in spared

(* A manager's child handle is only reset by the task that has the mutex,  *)
(* and a task that waits for the child finds it there.                     *)
ReapsWhatItHolds ==
  \A t \in Tasks : pc[t] = "reap" => holder[target[t]] = t /\ child[target[t]]

(* A swap ends, with the new engine up or with an error, even when the old *)
(* engine hangs on its way out.                                            *)
SwapEnds ==
  \A m \in Managers \ {Boot} : pc[m] = "load" ~> (pc[m] \in {"up", "failed"} \/ ~Running)

(* Whatever races with the swaps, the flag the UI shows ends up saying     *)
(* whether the engine of the live manager serves.                          *)
HealthConverges ==
  <>[](Running /\ Bound(url[live]) \subseteq {e \in Engines : engine[e] = "serving"}
         => (up <=> Serving(url[live])))
=============================================================================
