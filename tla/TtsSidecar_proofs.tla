-------------------------- MODULE TtsSidecar_proofs --------------------------
(***************************************************************************)
(* The mutex around a manager's child handle does its work, for any        *)
(* managers, launchers and api_urls, and whatever the engines, the users   *)
(* and the host do: the handle that stop_server waits on stays where it is *)
(* until the wait is over.  With it, swaps that do not overlap leave no    *)
(* engine behind but one whose kill reached only the shell in front of it. *)
(***************************************************************************)
EXTENDS TtsSidecar, TLAPS

(* A task between lock().await and the end of stop_server has the mutex of *)
(* the manager it stops, and if it waits for a child, there is one.        *)
Holds(t) ==
  /\ pc[t] \in {"reap", "poll"} => holder[target[t]] = t
  /\ pc[t] = "reap" => child[target[t]]

IInv == TypeOK /\ \A t \in Tasks : Holds(t)

(* The tasks that swap or stop, and their names.                           *)
LEMMA Names ==
  /\ Free \notin Tasks /\ Main \in Tasks /\ Main \notin Managers
  /\ Managers \subseteq Tasks /\ Boot \in Managers
  /\ \A t \in Tasks : t # Main => t \in Managers
BY SidecarAssumption DEF Tasks

(* A step that leaves mutexes and handles alone, and moves only tasks that *)
(* do not enter the protected part, keeps what every task holds.           *)
LEMMA Outside ==
  ASSUME \A t \in Tasks : Holds(t), UNCHANGED <<holder, child>>,
         NEW t0 \in Tasks,
         \A t \in Tasks \ {t0} : pc'[t] = pc[t] /\ target'[t] = target[t],
         pc'[t0] \notin {"reap", "poll"}
  PROVE  \A t \in Tasks : Holds(t)'
BY DEF Holds

(* Initially nobody stops anything.                                        *)
LEMMA InitInv == Init => IInv
<1> SUFFICES ASSUME Init PROVE IInv
  OBVIOUS
<1> USE Names
<1>1. TypeOK
  <2>1. engine \in [Engines -> EngineState]
    BY DEF Init, EngineState
  <2>2. /\ DOMAIN pc = Tasks /\ pc[Main] \in MainState
        /\ \A m \in Managers : pc[m] \in TaskState
    BY DEF Init, MainState, TaskState
  <2> QED BY <2>1, <2>2 DEF Init, TypeOK
<1>2. ASSUME NEW t \in Tasks PROVE Holds(t)
  BY DEF Init, Holds
<1> QED BY <1>1, <1>2 DEF IInv

-----------------------------------------------------------------------------
(* The engines, the users, the watchdog and the host touch no mutex.       *)
LEMMA AroundInv ==
  ASSUME IInv,
         \/ \E e \in Engines : Loaded(e) \/ Ends(e)
         \/ \E m \in Managers : Save(m)
         \/ Shutdown \/ WatchBegin \/ WatchEnd
         \/ HostClose \/ HostSeesDown \/ HostExpires
  PROVE  IInv'
<1> USE Names DEF managers, health, url, EngineState, TaskState, MainState
<1>t. TypeOK /\ \A t \in Tasks : Holds(t)
  BY DEF IInv
<1>1. ASSUME NEW e \in Engines, Loaded(e) \/ Ends(e) PROVE IInv'
  <2>1. UNCHANGED <<holder, child, pc, target>>
    BY <1>1 DEF Loaded, Ends
  <2>2. TypeOK'
    BY <1>1, <1>t DEF Loaded, Ends, TypeOK
  <2> QED BY <2>1, <2>2, <1>t DEF IInv, Holds
<1>2. ASSUME NEW m \in Managers, Save(m) PROVE IInv'
  <2>1. TypeOK'
    BY <1>2, <1>t DEF Save, Goto, TypeOK, Busy
  <2>2. \A t \in Tasks : Holds(t)'
    BY <1>2, <1>t, Outside DEF Save, Goto, TypeOK
  <2> QED BY <2>1, <2>2 DEF IInv
<1>3. CASE Shutdown
  <2>1. TypeOK'
    BY <1>3, <1>t DEF Shutdown, Goto, TypeOK, Busy
  <2>2. \A t \in Tasks : Holds(t)'
    BY <1>3, <1>t, Outside DEF Shutdown, Goto, TypeOK
  <2> QED BY <2>1, <2>2 DEF IInv
<1>4. CASE WatchBegin \/ WatchEnd \/ HostSeesDown \/ HostExpires
  <2>1. UNCHANGED <<holder, child, pc, target>>
    BY <1>4 DEF WatchBegin, WatchEnd, HostSeesDown, HostExpires, Killed
  <2>2. TypeOK'
    BY <1>4, <1>t DEF WatchBegin, WatchEnd, HostSeesDown, HostExpires, Killed, TypeOK
  <2> QED BY <2>1, <2>2, <1>t DEF IInv, Holds
<1>5. CASE HostClose
  <2>1. TypeOK'
    BY <1>5, <1>t DEF HostClose, Goto, TypeOK, Busy
  <2>2. CASE UNCHANGED pc
    BY <1>5, <2>1, <2>2, <1>t DEF HostClose, IInv, Holds
  <2>3. CASE Goto(Main, "load")
    BY <1>5, <2>1, <2>3, <1>t, Outside DEF HostClose, Goto, TypeOK, IInv
  <2> QED BY <1>5, <2>2, <2>3 DEF HostClose
<1> QED BY <1>1, <1>2, <1>3, <1>4, <1>5

(* start_server and the publication of its manager enter no stop.          *)
LEMMA StartInv ==
  ASSUME IInv, NEW m \in Managers, StartStep(m)
  PROVE  IInv'
<1> USE Names DEF managers, health, url, EngineState, TaskState, MainState
<1>t. TypeOK /\ \A t \in Tasks : Holds(t)
  BY DEF IInv
<1>1. CASE Spawn(m)
  <2>1. TypeOK'
    BY <1>1, <1>t DEF Spawn, Goto, TypeOK, Engines
  <2>2. /\ pc'[m] = "health" /\ UNCHANGED <<holder, target>>
        /\ \A t \in Tasks \ {m} : pc'[t] = pc[t]
        /\ \A n \in Managers : child[n] => child'[n]
    BY <1>1, <1>t DEF Spawn, Goto, TypeOK
  <2>3. \A t \in Tasks : target[t] \in Managers
    BY <1>t DEF TypeOK
  <2>4. \A t \in Tasks : Holds(t)'
    BY <2>2, <2>3, <1>t DEF Holds
  <2> QED BY <2>1, <2>4 DEF IInv
<1>2. CASE Publish(m) \/ Adopt(m) \/ ProbeFails(m) \/ SpawnFails(m) \/ Healthy(m) \/ HealthTimeout(m)
  <2>1. TypeOK'
    BY <1>2, <1>t
    DEF Publish, Adopt, ProbeFails, SpawnFails, Healthy, HealthTimeout, Returns, Goto, TypeOK
  <2>2. /\ UNCHANGED <<holder, child, target>>
        /\ pc'[m] \notin {"reap", "poll"}
        /\ \A t \in Tasks \ {m} : pc'[t] = pc[t]
    BY <1>2, <1>t
    DEF Publish, Adopt, ProbeFails, SpawnFails, Healthy, HealthTimeout, Returns, Goto, TypeOK
  <2>3. \A t \in Tasks : Holds(t)'
    BY <2>2, <1>t, Outside
  <2> QED BY <2>1, <2>3 DEF IInv
<1> QED BY <1>1, <1>2 DEF StartStep

(* stop_server: the mutex is taken only when nobody has it, so no two      *)
(* tasks are in the protected part of the same manager.                    *)
LEMMA StopInv ==
  ASSUME IInv, NEW t0 \in Tasks, StopStep(t0)
  PROVE  IInv'
<1> USE Names DEF managers, health, url, EngineState, TaskState, MainState
<1>t. TypeOK /\ \A t \in Tasks : Holds(t)
  BY DEF IInv
<1>g. \A t \in Tasks : target[t] \in Managers
  BY <1>t DEF TypeOK
<1>1. CASE BeginStop(t0)
  <2>1. TypeOK'
    BY <1>1, <1>t DEF BeginStop, Goto, TypeOK
  <2>2. \A t \in Tasks : Holds(t)'
    BY <1>1, <1>t, Outside DEF BeginStop, Goto, TypeOK
  <2> QED BY <2>1, <2>2 DEF IInv
<1>2. CASE RequestStop(t0)
  <2>1. TypeOK'
    BY <1>2, <1>t DEF RequestStop, Goto, TypeOK, Bound
  <2>2. \A t \in Tasks : Holds(t)'
    BY <1>2, <1>t, Outside DEF RequestStop, Goto, TypeOK
  <2> QED BY <2>1, <2>2 DEF IInv
<1>3. CASE TakeChild(t0)
  <2>1. TypeOK'
    BY <1>3, <1>t, <1>g DEF TakeChild, Goto, TypeOK
  <2>2. /\ holder[target[t0]] = Free
        /\ holder'[target[t0]] = t0
        /\ \A n \in Managers \ {target[t0]} : holder'[n] = holder[n]
        /\ pc'[t0] = "reap" => child[target[t0]]
        /\ \A t \in Tasks \ {t0} : pc'[t] = pc[t]
        /\ UNCHANGED <<child, target>>
    BY <1>3, <1>t, <1>g DEF TakeChild, Goto, TypeOK
  <2>3. \A t \in Tasks : Holds(t)'
    BY <2>2, <1>t, <1>g DEF Holds
  <2> QED BY <2>1, <2>3 DEF IInv
<1>4. CASE ReapExited(t0) \/ ReapKilled(t0) \/ PollEnds(t0)
  <2>1. pc[t0] \in {"reap", "poll"} /\ Stopped(t0)
    BY <1>4 DEF ReapExited, ReapKilled, PollEnds
  <2>e. engine' \in [Engines -> EngineState]
    BY <1>4, <1>t DEF ReapExited, ReapKilled, PollEnds, TypeOK
  <2>s. spared' \subseteq Managers
    BY <1>4, <1>t, <1>g DEF ReapExited, ReapKilled, PollEnds, TypeOK
  <2>2. TypeOK'
    BY <2>1, <2>e, <2>s, <1>t, <1>g DEF Stopped, Goto, TypeOK
  <2>3. /\ holder[target[t0]] = t0
        /\ \A n \in Managers \ {target[t0]} : holder'[n] = holder[n] /\ child'[n] = child[n]
        /\ pc'[t0] \notin {"reap", "poll"}
        /\ \A t \in Tasks \ {t0} : pc'[t] = pc[t]
        /\ UNCHANGED target
    BY <2>1, <1>t, <1>g DEF Stopped, Goto, TypeOK, Holds
  <2>4. \A t \in Tasks : Holds(t)'
    BY <2>3, <1>t, <1>g DEF Holds
  <2> QED BY <2>2, <2>4 DEF IInv
<1> QED BY <1>1, <1>2, <1>3, <1>4 DEF StopStep

-----------------------------------------------------------------------------
(* The invariant holds in every behaviour.                                 *)
THEOREM Invariance == Spec => []IInv
<1>1. Init => IInv
  BY InitInv
<1>2. IInv /\ [Next]_vars => IInv'
  <2> SUFFICES ASSUME IInv, [Next]_vars PROVE IInv'
    OBVIOUS
  <2>1. CASE UNCHANGED vars
    <3>1. UNCHANGED <<setup, engine, child, holder, live, spared, pc, target, host, up, watch, raced>>
      BY <2>1 DEF vars, managers, health
    <3> QED BY <3>1 DEF IInv, TypeOK, Holds
  <2>2. CASE Next
    BY <2>2, AroundInv, StartInv, StopInv DEF Next
  <2> QED BY <2>1, <2>2
<1> QED BY <1>1, <1>2, PTL DEF Spec

(* Managers, tasks, engines and flags keep their types.                    *)
THEOREM TypeCorrect == Spec => []TypeOK
<1>1. IInv => TypeOK
  BY DEF IInv
<1> QED BY <1>1, Invariance, PTL

(* The guard of child.lock() lives until stop_server returns: a task that  *)
(* waits for a child has its manager's mutex and finds the child there.    *)
THEOREM MutexCorrect == Spec => []ReapsWhatItHolds
<1>1. IInv => ReapsWhatItHolds
  BY DEF IInv, Holds, ReapsWhatItHolds
<1> QED BY <1>1, Invariance, PTL

-----------------------------------------------------------------------------
(* No stray engine.  An engine that lives has its handle in the manager    *)
(* that launched it or outlived the kill of its shell, and a task that     *)
(* found no handle finds none until it gives the mutex back.               *)
USE DEF wraps

Life  == \A m \in Managers : Alive(m) => child[m] \/ (wraps /\ m \in spared)
Polls == \A t \in Tasks : pc[t] = "poll" => ~child[target[t]]

(* While no save or shutdown began during another's swap, one task at most *)
(* is in a swap: it stops the live manager, becomes live once that one has *)
(* no engine, and launches its own as the live one.                        *)
Stopping == {"post", "lock", "reap", "poll"}
Serial ==
  /\ \A s, t \in Tasks : InSwap(s) /\ InSwap(t) => s = t
  /\ \A t \in Tasks : pc[t] \in Stopping => target[t] = live
  /\ \A t \in Tasks : pc[t] = "publish" => ~child[live]
  /\ \A m \in Managers : pc[m] \in {"probe", "spawn"} => live = m
  /\ \A m \in Managers : child[m] => m = live
  /\ pc[Main] = "exited" => \A m \in Managers : ~child[m]

SInv == IInv /\ Life /\ Polls /\ (~raced => Serial)

(* Initially only the boot manager is starting.                            *)
LEMMA InitSerial == Init => SInv
<1> SUFFICES ASSUME Init PROVE SInv
  OBVIOUS
<1> USE Names
<1>1. IInv
  BY InitInv
<1>2. \A t \in Tasks : pc[t] = IF t = Main THEN "run" ELSE IF t = Boot THEN "probe" ELSE "idle"
  BY DEF Init
<1>3. live = Boot /\ \A m \in Managers : ~child[m]
  BY DEF Init
<1>4. Life
  <2>1. \A m \in Managers : m # Warm /\ m \in Engines
    BY SidecarAssumption DEF Engines
  <2>2. \A m \in Managers : engine[m] = "none"
    BY <2>1 DEF Init
  <2> QED BY <2>2 DEF Life, Alive
<1>5. Polls
  BY <1>2 DEF Polls
<1>6. Serial
  BY <1>2, <1>3 DEF Serial, InSwap, Stopping
<1> QED BY <1>1, <1>4, <1>5, <1>6 DEF SInv

(* A step after which no engine lives that did not live before, in which   *)
(* no handle moves and no task but t0 does.                                *)
Calm(t0) ==
  /\ \A m \in Managers : Alive(m)' => Alive(m)
  /\ UNCHANGED <<child, live, spared, setup, raced>>
  /\ \A t \in Tasks \ {t0} : pc'[t] = pc[t] /\ target'[t] = target[t]

LEMMA CalmLife ==
  ASSUME SInv, NEW t0 \in Tasks, Calm(t0), pc'[t0] = "poll" => ~child[target'[t0]]
  PROVE  Life' /\ Polls'
BY DEF SInv, Life, Polls, Calm

(* The steps that stay outside every swap.                                 *)
LEMMA CalmSerial ==
  ASSUME SInv, NEW t0 \in Tasks, Calm(t0), t0 = Main => pc'[t0] # "exited",
         InSwap(t0)' => InSwap(t0),
         pc'[t0] \in Stopping => target'[t0] = live,
         pc'[t0] # "publish",
         pc'[t0] \in {"probe", "spawn"} => live = t0
  PROVE  ~raced' => Serial'
<1> SUFFICES ASSUME ~raced' PROVE Serial'
  OBVIOUS
<1>1. Serial
  BY DEF SInv, Calm
<1>2. \A t \in Tasks : InSwap(t)' => InSwap(t)
  BY DEF Calm, InSwap
<1> QED BY <1>1, <1>2, Names DEF Serial, Calm

(* A save or a shutdown that begins while nobody swaps is the only one.    *)
LEMMA BeginSerial ==
  ASSUME SInv, NEW t0 \in Tasks, pc[t0] \in {"idle", "run"}, Goto(t0, "load"),
         raced' = (raced \/ Busy), UNCHANGED <<engine, child, live, spared, setup, target>>
  PROVE  Life' /\ Polls' /\ (~raced' => Serial')
<1>1. DOMAIN pc = Tasks
  BY DEF SInv, IInv, TypeOK
<1>2. pc'[t0] = "load" /\ \A t \in Tasks \ {t0} : pc'[t] = pc[t]
  BY <1>1 DEF Goto
<1>3. Life' /\ Polls'
  BY <1>2 DEF SInv, Life, Alive, Polls
<1>4. ASSUME ~raced' PROVE Serial'
  <2>1. Serial /\ \A t \in Tasks : ~InSwap(t)
    BY <1>4 DEF SInv, Busy
  <2>2. \A t \in Tasks : InSwap(t)' => t = t0
    BY <1>2, <2>1 DEF InSwap
  <2> QED BY <1>2, <2>1, <2>2, Names DEF Serial, Stopping
<1> QED BY <1>3, <1>4

(* The engines, the users, the watchdog and the host.                      *)
LEMMA AroundSerial ==
  ASSUME SInv,
         \/ \E e \in Engines : Loaded(e) \/ Ends(e)
         \/ \E m \in Managers : Save(m)
         \/ Shutdown \/ WatchBegin \/ WatchEnd
         \/ HostClose \/ HostSeesDown \/ HostExpires
  PROVE  SInv'
<1> USE Names DEF managers, health, url
<1>t. TypeOK /\ IInv'
  BY AroundInv DEF SInv, IInv
<1>0. ASSUME \A m \in Managers : Alive(m)' => Alive(m),
             UNCHANGED <<child, live, spared, setup, raced, pc, target>>
      PROVE  SInv'
  BY <1>0, <1>t DEF SInv, Life, Polls, Serial, InSwap
<1>1. ASSUME NEW e \in Engines, Loaded(e) \/ Ends(e) PROVE SInv'
  <2>1. \A m \in Managers : Alive(m)' => Alive(m)
    BY <1>1, <1>t DEF Loaded, Ends, Alive, TypeOK, Engines
  <2> QED BY <2>1, <1>0, <1>1 DEF Loaded, Ends
<1>2. ASSUME NEW m \in Managers, Save(m) PROVE SInv'
  <2>1. Life' /\ Polls' /\ (~raced' => Serial')
    BY <1>2, BeginSerial DEF Save
  <2> QED BY <2>1, <1>t DEF SInv
<1>3. CASE Shutdown
  <2>1. Life' /\ Polls' /\ (~raced' => Serial')
    BY <1>3, BeginSerial DEF Shutdown
  <2> QED BY <2>1, <1>t DEF SInv
<1>4. CASE WatchBegin \/ WatchEnd \/ HostSeesDown \/ HostExpires
  BY <1>0, <1>4 DEF WatchBegin, WatchEnd, HostSeesDown, HostExpires, Killed, Alive
<1>5. CASE HostClose
  <2>1. CASE UNCHANGED <<pc, raced>>
    BY <1>0, <1>5, <2>1 DEF HostClose, Alive
  <2>2. CASE pc[Main] = "run" /\ Goto(Main, "load") /\ raced' = (raced \/ Busy)
    <3>1. Life' /\ Polls' /\ (~raced' => Serial')
      BY <1>5, <2>2, BeginSerial DEF HostClose
    <3> QED BY <3>1, <1>t DEF SInv
  <2> QED BY <1>5, <2>1, <2>2 DEF HostClose
<1> QED BY <1>1, <1>2, <1>3, <1>4, <1>5

(* start_server launches the engine of the live manager, and a manager is  *)
(* published once the one before has no engine.                            *)
LEMMA StartSerial ==
  ASSUME SInv, NEW m \in Managers, StartStep(m)
  PROVE  SInv'
<1> USE Names DEF managers, health, url
<1>t. TypeOK /\ IInv' /\ DOMAIN pc = Tasks /\ m \in Tasks /\ m # Main
  BY StartInv DEF SInv, IInv, TypeOK
<1>1. CASE Adopt(m) \/ SpawnFails(m) \/ Healthy(m) \/ HealthTimeout(m) \/ ProbeFails(m)
  <2>1. /\ UNCHANGED <<engine, child, live, spared, setup, raced, target>>
        /\ \A t \in Tasks \ {m} : pc'[t] = pc[t]
        /\ pc'[m] \in {"up", "failed", "spawn", "health"}
        /\ pc'[m] = "spawn" => pc[m] = "probe"
    BY <1>1, <1>t DEF Adopt, SpawnFails, Healthy, HealthTimeout, ProbeFails, Returns, Goto
  <2>2. Calm(m)
    BY <2>1 DEF Calm, Alive
  <2>3. Life' /\ Polls'
    BY <2>1, <2>2, <1>t, CalmLife
  <2>4. ~raced => (pc'[m] = "spawn" => live = m)
    BY <2>1 DEF SInv, Serial
  <2>5. ~raced' => Serial'
    <3>1. InSwap(m)' => InSwap(m)
      BY <2>1 DEF InSwap
    <3> SUFFICES ASSUME ~raced PROVE ~raced' => Serial'
      BY <2>1
    <3> QED BY <2>1, <2>2, <2>4, <3>1, <1>t, CalmSerial DEF Stopping
  <2> QED BY <2>3, <2>5, <1>t DEF SInv
<1>2. CASE Spawn(m)
  <2>1. /\ UNCHANGED <<live, spared, setup, raced, target, holder>> /\ holder[m] = Free
        /\ \A t \in Tasks \ {m} : pc'[t] = pc[t]
        /\ pc[m] = "spawn" /\ pc'[m] = "health"
        /\ child'[m] /\ \A n \in Managers \ {m} : child'[n] = child[n] /\ engine'[n] = engine[n]
    BY <1>2, <1>t DEF Spawn, Goto, TypeOK, Engines
  <2>2. Life'
    BY <2>1 DEF SInv, Life, Alive
  <2>3. Polls'
    <3>1. \A t \in Tasks : pc[t] = "poll" => target[t] # m
      BY <2>1 DEF SInv, IInv, Holds
    <3>2. \A t \in Tasks : target[t] \in Managers
      BY <1>t DEF TypeOK
    <3> QED BY <2>1, <3>1, <3>2 DEF SInv, Polls
  <2>4. ASSUME ~raced' PROVE Serial'
    <3>1. Serial /\ live = m
      BY <2>1, <2>4 DEF SInv, Serial
    <3>2. \A t \in Tasks : t # m => ~InSwap(t)
      BY <2>1, <3>1 DEF Serial, InSwap
    <3>3. \A t \in Tasks : ~InSwap(t)' /\ pc'[t] \notin Stopping \cup {"publish", "probe", "spawn"}
      BY <2>1, <3>2 DEF InSwap, Stopping
    <3>4. pc[Main] # "exited"
      BY <1>2 DEF Spawn, Running
    <3> QED BY <2>1, <3>1, <3>3, <3>4, <1>t DEF Serial
  <2> QED BY <2>2, <2>3, <2>4, <1>t DEF SInv
<1>3. CASE Publish(m)
  <2>1. /\ UNCHANGED <<engine, child, spared, setup, raced, target>> /\ live' = m
        /\ \A t \in Tasks \ {m} : pc'[t] = pc[t]
        /\ pc[m] = "publish" /\ pc'[m] = "probe"
    BY <1>3, <1>t DEF Publish, Goto
  <2>2. Life' /\ Polls'
    BY <2>1 DEF SInv, Life, Polls, Alive
  <2>3. ASSUME ~raced' PROVE Serial'
    <3>1. Serial /\ \A n \in Managers : ~child[n]
      BY <2>1, <2>3, <1>t DEF SInv, Serial
    <3>2. \A t \in Tasks : t # m => ~InSwap(t)
      BY <2>1, <3>1, <1>t DEF Serial, InSwap
    <3>3. \A t \in Tasks : t # m => ~InSwap(t)' /\ pc'[t] \notin Stopping \cup {"publish", "probe", "spawn"}
      BY <2>1, <3>2 DEF InSwap, Stopping
    <3> QED BY <2>1, <3>1, <3>3, <1>t DEF Serial, Stopping
  <2> QED BY <2>2, <2>3, <1>t DEF SInv
<1> QED BY <1>1, <1>2, <1>3 DEF StartStep

(* stop_server leaves the manager it stopped without an engine.            *)
LEMMA StopSerial ==
  ASSUME SInv, NEW t0 \in Tasks, StopStep(t0)
  PROVE  SInv'
<1> USE Names DEF managers, health, url
<1>t. /\ TypeOK /\ IInv' /\ DOMAIN pc = Tasks
      /\ \A t \in Tasks : target[t] \in Managers
  BY StopInv DEF SInv, IInv, TypeOK
<1>1. CASE BeginStop(t0)
  <2>1. /\ UNCHANGED <<engine, child, live, spared, setup, raced>>
        /\ pc'[t0] = "post" /\ target'[t0] = live /\ pc[t0] = "load"
        /\ \A t \in Tasks \ {t0} : pc'[t] = pc[t] /\ target'[t] = target[t]
    BY <1>1, <1>t DEF BeginStop, Goto, TypeOK
  <2>2. Calm(t0) /\ InSwap(t0)
    BY <2>1 DEF Calm, Alive, InSwap
  <2> QED BY <2>1, <2>2, <1>t, CalmLife, CalmSerial DEF SInv
<1>2. CASE RequestStop(t0)
  <2>1. /\ UNCHANGED <<child, live, spared, setup, raced, target>>
        /\ pc'[t0] = "lock" /\ pc[t0] = "post"
        /\ \A t \in Tasks \ {t0} : pc'[t] = pc[t]
    BY <1>2, <1>t DEF RequestStop, Goto
  <2>2. \A m \in Managers : Alive(m)' => Alive(m)
    BY <1>2, <1>t DEF RequestStop, Alive, Bound, TypeOK, Engines
  <2>3. Calm(t0) /\ InSwap(t0)
    BY <2>1, <2>2 DEF Calm, InSwap
  <2>4. ~raced => target[t0] = live
    BY <2>1 DEF SInv, Serial, Stopping
  <2>5. ~raced' => Serial'
    <3> SUFFICES ASSUME ~raced PROVE ~raced' => Serial'
      BY <2>1
    <3> QED BY <2>1, <2>3, <2>4, CalmSerial
  <2> QED BY <2>1, <2>3, <2>5, <1>t, CalmLife DEF SInv
<1>3. CASE TakeChild(t0)
  <2>1. /\ UNCHANGED <<engine, child, live, spared, setup, raced, target>>
        /\ pc'[t0] = (IF child[target[t0]] THEN "reap" ELSE "poll") /\ pc[t0] = "lock"
        /\ \A t \in Tasks \ {t0} : pc'[t] = pc[t]
    BY <1>3, <1>t DEF TakeChild, Goto
  <2>3. Calm(t0) /\ InSwap(t0)
    BY <2>1 DEF Calm, InSwap, Alive
  <2>4. ~raced => target[t0] = live
    BY <2>1 DEF SInv, Serial, Stopping
  <2>5. ~raced' => Serial'
    <3> SUFFICES ASSUME ~raced PROVE ~raced' => Serial'
      BY <2>1
    <3> QED BY <2>1, <2>3, <2>4, CalmSerial
  <2> QED BY <2>1, <2>3, <2>5, <1>t, CalmLife DEF SInv
<1>4. CASE ReapExited(t0) \/ ReapKilled(t0) \/ PollEnds(t0)
  <2>g. PICK g \in Managers : g = target[t0] /\ g \in Engines
    BY <1>t DEF Engines
  <2>1. /\ UNCHANGED <<live, setup, raced, target>> /\ spared \subseteq spared'
        /\ pc[t0] \in {"reap", "poll"} /\ pc[Main] # "exited"
        /\ pc'[t0] = (IF t0 = Main THEN "exited" ELSE "publish")
        /\ \A t \in Tasks \ {t0} : pc'[t] = pc[t]
        /\ ~child'[g] /\ \A m \in Managers \ {g} : child'[m] = child[m]
    BY <1>4, <1>t, <2>g DEF ReapExited, ReapKilled, PollEnds, Stopped, Goto, Running, TypeOK
  <2>2. /\ Alive(g)' => wraps' /\ g \in spared'
        /\ \A m \in Managers : Alive(m)' => Alive(m)
    <3>1. CASE ReapExited(t0)
      BY <3>1, <2>g DEF ReapExited, Alive
    <3>2. CASE ReapKilled(t0)
      BY <3>2, <2>g, <2>1, <1>t DEF ReapKilled, Alive, TypeOK, Engines
    <3>3. CASE PollEnds(t0)
      BY <3>3, <2>g, <2>1 DEF PollEnds, Alive, SInv, Polls, Life
    <3> QED BY <1>4, <3>1, <3>2, <3>3
  <2>3. Life'
    BY <2>1, <2>2 DEF SInv, Life
  <2>4. Polls'
    BY <2>1, <2>g, <1>t DEF SInv, Polls
  <2>5. ASSUME ~raced' PROVE Serial'
    <3>1. Serial /\ InSwap(t0) /\ g = live
      BY <2>1, <2>5, <2>g DEF SInv, Serial, InSwap, Stopping
    <3>2. \A t \in Tasks : t # t0 => ~InSwap(t)
      BY <3>1 DEF Serial
    <3>3. \A t \in Tasks : t # t0 => ~InSwap(t)' /\ pc'[t] \notin Stopping \cup {"publish", "probe", "spawn"}
      BY <2>1, <3>2 DEF InSwap, Stopping
    <3>4. \A m \in Managers : ~child'[m]
      BY <2>1, <3>1 DEF Serial
    <3> QED BY <2>1, <3>1, <3>3, <3>4 DEF Serial, Stopping
  <2> QED BY <2>3, <2>4, <2>5, <1>t DEF SInv
<1> QED BY <1>1, <1>2, <1>3, <1>4 DEF StopStep

(* The strengthened invariant holds in every behaviour.                    *)
LEMMA SerialInvariance == Spec => []SInv
<1>1. SInv /\ [Next]_vars => SInv'
  <2> SUFFICES ASSUME SInv, [Next]_vars PROVE SInv'
    OBVIOUS
  <2>1. CASE UNCHANGED vars
    <3>1. UNCHANGED <<setup, engine, child, holder, live, spared, pc, target, host, up, watch, raced>>
      BY <2>1 DEF vars, managers, health
    <3> QED BY <3>1 DEF SInv, IInv, TypeOK, Holds, Life, Polls, Serial, Alive, InSwap
  <2>2. CASE Next
    BY <2>2, AroundSerial, StartSerial, StopSerial DEF Next
  <2> QED BY <2>1, <2>2
<1> QED BY InitSerial, <1>1, PTL DEF Spec

(* Between two swaps the engines that are left of those this server        *)
(* launched are the live manager's and those whose kill ended only the     *)
(* shell of cmd /C, and only these outlive the server, unless a save or a  *)
(* shutdown began during another's swap.                                   *)
THEOREM StrayCorrect == Spec => []NoStrayEngine
<1>1. SInv => NoStrayEngine
  <2> SUFFICES ASSUME SInv, ~raced, NEW m \in Managers, Alive(m), ~(wraps /\ m \in spared)
               PROVE  m = live /\ pc[Main] # "exited"
    BY DEF NoStrayEngine
  <2>1. Serial /\ child[m]
    BY DEF SInv, Life
  <2> QED BY <2>1 DEF Serial
<1> QED BY <1>1, SerialInvariance, PTL
=============================================================================
