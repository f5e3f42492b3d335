--------------------------- MODULE Sidecars_proofs ---------------------------
(***************************************************************************)
(* The translator's and the speech engine's managers, for any number of    *)
(* saves, lives of the server, engine processes and ports: an engine that  *)
(* this life of the server launched keeps a manager that can stop it, and  *)
(* none is left when the server was told to end, but for those that        *)
(* outlived being killed.                                                  *)
(***************************************************************************)
EXTENDS Sidecars, TLAPS

(* Which steps are whose, and that a save's task starts from idle.         *)
Stopping == {"post", "lock", "reap", "poll"}
Roles ==
  /\ pc[Main] \in Stopping \cup {"run", "exited", "killed"}
  /\ \A m \in Managers : pc[m] \notin {"run", "exited", "killed"}
  /\ \A m \in Managers : m > saves => pc[m] = "idle"

(* A task that stops a manager knows which, and from lock().await to the   *)
(* end of stop_server it has its mutex.                                    *)
Holds(t) ==
  /\ pc[t] \in Stopping => target[t] \in Managers
  /\ pc[t] \in {"reap", "poll"} => holder[target[t]] = t
  /\ pc[t] = "poll" => child[target[t]] = None

(* One of ours that is alive has its handle in some manager.               *)
Owned == Running => \A e \in ours : Alive(e) => \E m \in Managers : child[m] = e

(* While no save or shutdown began during another's swap, one task at most *)
(* is in a swap: it stops the manager in the slot, fills the slot once no  *)
(* manager has an engine, and launches as the one in the slot.  A handle   *)
(* that a failed kill has left behind does not count.                      *)
Handless(m) == child[m] \notin ours
Serial ==
  /\ \A s, t \in Tasks : InSwap(s) /\ InSwap(t) => s = t
  /\ \A t \in Tasks : pc[t] \in Stopping => target[t] = slot
  /\ \A t \in Tasks : pc[t] = "publish" => \A m \in Managers : Handless(m)
  /\ \A m \in Managers : pc[m] \in {"probe", "spawn"} => slot = m
  /\ \A m \in Managers : ~Handless(m) => slot = m
  /\ pc[Main] = "exited" /\ http /\ close => \A e \in ours : ~Alive(e)

Safe == Roles /\ (\A t \in Tasks : Holds(t)) /\ Owned /\ (~raced => Serial)
IInv == TypeOK /\ Safe

(* The names of managers, tasks and engines.                               *)
LEMMA Names ==
  /\ Boot \in Managers /\ Main \in Tasks /\ Main \notin Managers
  /\ Managers \subseteq Tasks /\ \A t \in Tasks : t # Main => t \in Managers
  /\ None \notin Managers /\ None \notin Tasks /\ None \notin Engines
BY SidecarsAssumption DEF Managers, Tasks, Main, Engines, Boot

-----------------------------------------------------------------------------
(* Where every task is when the server starts, and when it has gone.       *)
LEMMA BootFacts ==
  ASSUME NEW p \in Plans
  PROVE  /\ BootPc(p) \in [Tasks -> Steps] /\ BootPc(p)[Main] = "run"
         /\ \A m \in Managers : BootPc(p)[m] = IF m = Boot THEN StartAt(p) ELSE "idle"
         /\ StartAt(p) \in {"probe", "idle"}
         /\ AtBoot(p) \in [Managers -> Plans]
         /\ p = "off" => BootPc(p)[Boot] = "idle"
         /\ NoneHeld = [m \in Managers |-> None]
BY Names DEF BootPc, StartAt, Steps, AtBoot, Plans, NoneHeld

(* A life that begins is safe: nothing is launched yet.                    *)
LEMMA BeginSafe ==
  ASSUME NEW p \in BootPlans, pc' = BootPc(p), slot' = BootSlot(p),
         child' = NoneHeld, ours' = {}, saves' \in Nat
  PROVE  Safe'
<1>1. p \in Plans
  BY DEF BootPlans, Plans
<1>2. /\ pc'[Main] = "run" /\ \A m \in Managers : m # Boot => pc'[m] = "idle"
      /\ pc'[Boot] \in {"probe", "idle"} /\ Boot = 0
      /\ pc'[Boot] = "probe" => slot' = Boot
      /\ \A m \in Managers : child'[m] = None
  BY <1>1, Names, BootFacts DEF StartAt, BootSlot, Boot
<1>3. Roles'
  BY <1>2, Names DEF Roles, Stopping, Managers
<1>4. \A t \in Tasks : Holds(t)'
  BY <1>2, Names DEF Holds, Stopping
<1>5. Owned'
  BY DEF Owned
<1>6. Serial'
  BY <1>2, Names DEF Serial, Handless, InSwap, Stopping
<1> QED BY <1>3, <1>4, <1>5, <1>6 DEF Safe

(* The first life.                                                         *)
LEMMA InitInv == Init => IInv
<1> SUFFICES ASSUME Init PROVE IInv
  OBVIOUS
<1> USE Names
<1>1. PICK p \in BootPlans : slot = BootSlot(p) /\ plan = AtBoot(p) /\ pc = BootPc(p)
  BY DEF Init
<1>2. p \in Plans
  BY DEF BootPlans, Plans
<1>3. /\ pc[Main] = "run" /\ \A m \in Managers : m # Boot => pc[m] = "idle"
      /\ pc[Boot] \in {"probe", "idle"} /\ Boot = 0
      /\ pc[Boot] = "probe" => slot = Boot
      /\ \A m \in Managers : child[m] = None
      /\ pc \in [Tasks -> Steps] /\ plan \in [Managers -> Plans] /\ slot \in {Boot, None}
  BY <1>1, <1>2, Names, BootFacts DEF StartAt, BootSlot, Boot, Init
<1>4. TypeOK
  <2>1. \A t \in Tasks : pc[t] # "reap"
    BY <1>3
  <2>2. /\ engine \in [Engines -> EngineStates] /\ at \in [Engines -> Ports]
        /\ port \in [Managers -> Ports]
    BY DEF Init, EngineStates
  <2>3. child \in [Managers -> Engines \cup {None}] /\ holder \in [Managers -> Tasks \cup {None}]
    BY DEF Init, NoneHeld
  <2>4. target \in [Tasks -> Managers \cup {None}] /\ saves \in 0 .. MaxSaves /\ lives \in 1 .. MaxLives
    BY SidecarsAssumption DEF Init
  <2> QED BY <2>1, <2>2, <2>3, <2>4, <1>3 DEF Init, TypeOK
<1>5. Roles
  BY <1>3 DEF Roles, Stopping, Managers, Init
<1>6. \A t \in Tasks : Holds(t)
  BY <1>3 DEF Holds, Stopping
<1>7. Owned
  BY DEF Owned, Init
<1>8. Serial
  BY <1>3 DEF Serial, Handless, InSwap, Stopping, Init
<1> QED BY <1>4, <1>5, <1>6, <1>7, <1>8 DEF IInv, Safe

(* The server starts again, with a configuration that may have changed.    *)
LEMMA RestartInv == IInv /\ Restart => IInv'
<1> SUFFICES ASSUME IInv, Restart PROVE IInv'
  OBVIOUS
<1> USE Names DEF config, process
<1>1. PICK p \in BootPlans : slot' = BootSlot(p) /\ plan' = AtBoot(p) /\ pc' = BootPc(p)
  BY DEF Restart
<1>2. TypeOK /\ p \in Plans
  BY DEF BootPlans, Plans, IInv
<1>3. TypeOK'
  <2>1. pc' \in [Tasks -> Steps] /\ plan' \in [Managers -> Plans] /\ slot' \in {Boot, None}
    BY <1>1, <1>2, BootFacts DEF BootSlot
  <2>2. \A t \in Tasks : pc'[t] # "reap"
    BY <1>1, <1>2, BootFacts
  <2>3. /\ child' \in [Managers -> Engines \cup {None}] /\ holder' \in [Managers -> Tasks \cup {None}]
        /\ target' \in [Tasks -> Managers \cup {None}] /\ port' \in [Managers -> Ports]
    BY DEF Restart, NoneHeld
  <2>4. lives' \in 1 .. MaxLives
    BY <1>2, SidecarsAssumption DEF Restart, TypeOK
  <2> QED BY <2>1, <2>2, <2>3, <2>4, <1>2 DEF Restart, TypeOK
<1>4. saves' \in Nat
  BY <1>2, SidecarsAssumption DEF Restart, TypeOK
<1>5. Safe'
  BY <1>1, <1>4, BeginSafe DEF Restart
<1> QED BY <1>3, <1>5 DEF IInv

(* The server is gone: only its engines are left.                          *)
LEMMA GoneInv ==
  ASSUME IInv, NEW l \in {"exited", "killed"}, Gone(l),
         engine' \in [Engines -> EngineStates],
         UNCHANGED <<config, at, port, saves, lives>>, raced' \in BOOLEAN,
         ours' \subseteq Engines,
         l = "exited" /\ http /\ close /\ ~raced' => \A e \in ours' : ~Alive(e)'
  PROVE  IInv'
<1> USE Names DEF config, Gone
<1>1. "off" \in Plans
  BY DEF Plans
<1>2. pc' \in [Tasks -> Steps] /\ pc'[Main] = l /\ \A m \in Managers : pc'[m] = "idle"
  <2>1. BootPc("off") \in [Tasks -> Steps] /\ \A m \in Managers : BootPc("off")[m] = "idle"
    BY <1>1, BootFacts
  <2>2. l \in Steps
    BY DEF Steps
  <2> QED BY <2>1, <2>2
<1>3. TypeOK'
  <2>1. /\ child' \in [Managers -> Engines \cup {None}] /\ holder' \in [Managers -> Tasks \cup {None}]
        /\ target' \in [Tasks -> Managers \cup {None}] /\ slot' = None
        /\ plan' \in [Managers -> Plans]
    BY <1>1, BootFacts
  <2>2. \A t \in Tasks : pc'[t] # "reap"
    BY <1>2
  <2> QED BY <2>1, <2>2, <1>2 DEF TypeOK, IInv
<1>4. \A m \in Managers : child'[m] = None
  BY DEF NoneHeld
<1>5. Safe'
  <2>1. Roles'
    BY <1>2 DEF Roles
  <2>2. \A t \in Tasks : Holds(t)'
    BY <1>2 DEF Holds, Stopping
  <2>3. Owned'
    BY <1>2 DEF Owned, Running
  <2>4. ~raced' => Serial'
    BY <1>2, <1>4 DEF Serial, Handless, InSwap, Stopping, Alive
  <2> QED BY <2>1, <2>2, <2>3, <2>4 DEF Safe
<1> QED BY <1>3, <1>5 DEF IInv

(* The server is killed.                                                   *)
LEMMA KillInv == IInv /\ Kill => IInv'
<1> SUFFICES ASSUME IInv, Kill PROVE IInv'
  OBVIOUS
<1>1. /\ Gone("killed") /\ engine' \in [Engines -> EngineStates]
      /\ UNCHANGED <<config, at, port, saves, lives>> /\ raced' \in BOOLEAN
      /\ ours' \subseteq Engines
  BY DEF Kill, process, history, IInv, TypeOK
<1> QED BY <1>1, GoneInv

-----------------------------------------------------------------------------
(* The engines live and die by themselves.                                 *)
LEMMA EngineInv ==
  ASSUME IInv, NEW e \in Engines, Loaded(e) \/ Ends(e)
  PROVE  IInv'
<1>1. /\ UNCHANGED <<kind, http, close, at, child, holder, slot, plan, port, pc, target,
                     saves, lives, ours, raced>>
      /\ engine' \in [Engines -> EngineStates]
      /\ \A f \in Engines : Alive(f)' => Alive(f)
  BY DEF Loaded, Ends, config, managers, history, IInv, TypeOK, EngineStates, Alive
<1>2. TypeOK'
  BY <1>1 DEF IInv, TypeOK
<1>3. Safe'
  <2>1. ours \subseteq Engines
    BY DEF IInv, TypeOK
  <2>2. Roles' /\ \A t \in Tasks : Holds(t)'
    BY <1>1 DEF IInv, Safe, Roles, Holds
  <2>3. Owned'
    BY <1>1, <2>1 DEF IInv, Safe, Owned, Running
  <2>4. ~raced' => Serial'
    BY <1>1, <2>1 DEF IInv, Safe, Serial, Handless, InSwap
  <2> QED BY <2>2, <2>3, <2>4 DEF Safe
<1> QED BY <1>2, <1>3 DEF IInv

(* A step of t0 that moves no handle, no slot and no engine to life keeps  *)
(* what is safe, given what it says of t0's next step.                     *)
Calm(t0) ==
  /\ UNCHANGED <<http, close, child, holder, slot, target, saves, ours, raced>>
  /\ \A e \in Engines : Alive(e)' => Alive(e)
  /\ \A t \in Tasks \ {t0} : pc'[t] = pc[t]
  /\ pc[Main] \notin {"exited", "killed"}

LEMMA CalmSafe ==
  ASSUME IInv, NEW t0 \in Managers, Calm(t0), pc[t0] # "idle",
         pc'[t0] \in {"idle", "wait", "spawn"},
         pc'[t0] = "spawn" => pc[t0] = "probe"
  PROVE  Safe'
<1> USE Names
<1>1. Roles'
  BY DEF IInv, Safe, Roles, Calm
<1>2. \A t \in Tasks : Holds(t)'
  BY DEF IInv, Safe, Holds, Calm, Stopping
<1>3. Owned'
  BY DEF IInv, TypeOK, Safe, Owned, Calm, Running
<1>4. ASSUME ~raced' PROVE Serial'
  <2>1. Serial
    BY <1>4 DEF IInv, Safe, Calm
  <2>2. \A t \in Tasks : InSwap(t)' => InSwap(t)
    BY DEF Calm, InSwap
  <2>3. t0 # Main /\ pc'[Main] # "exited"
    BY DEF Calm
  <2> QED BY <2>1, <2>2, <2>3 DEF Serial, Handless, Calm, Stopping
<1> QED BY <1>1, <1>2, <1>3, <1>4 DEF Safe

(* start_server launches for the manager in the slot.                      *)
LEMMA StartInv ==
  ASSUME IInv, NEW m \in Managers, Start(m)
  PROVE  IInv'
<1> USE Names DEF config, process, managers, history
<1>t. TypeOK /\ m \in Tasks /\ m # Main /\ pc[Main] \notin {"exited", "killed"}
  BY DEF IInv, Start, Adopt, NotThere, Spawn, SpawnFails, WaitEnds, Running
<1>1. CASE Adopt(m) \/ NotThere(m) \/ SpawnFails(m) \/ WaitEnds(m)
  <2>1. /\ UNCHANGED <<kind, http, close, engine, at, child, holder, slot, port, target,
                       saves, lives, ours, raced>>
        /\ \A t \in Tasks \ {m} : pc'[t] = pc[t]
        /\ pc[m] # "idle" /\ pc'[m] \in {"idle", "wait", "spawn"}
        /\ pc'[m] = "spawn" => pc[m] = "probe"
        /\ pc' \in [Tasks -> Steps] /\ plan' \in [Managers -> Plans]
    BY <1>1, <1>t DEF Adopt, NotThere, SpawnFails, WaitEnds, Done, Goto, TypeOK, Steps, Plans
  <2>2. Safe'
    BY <2>1, <1>t, CalmSafe DEF Calm, Alive
  <2>3. TypeOK'
    BY <2>1, <1>t DEF TypeOK
  <2> QED BY <2>2, <2>3 DEF IInv
<1>2. CASE Spawn(m)
  <2> DEFINE f == FreeEngine
  <2>1. f \in Engines /\ ~Alive(f) /\ \A n \in Managers : child[n] # f
    BY <1>2 DEF Spawn, FreeEngine
  <2> HIDE DEF f
  <2>2. /\ UNCHANGED <<kind, http, close, holder, slot, plan, port, target, saves, lives, raced>>
        /\ pc[m] = "spawn" /\ holder[m] = None /\ child[m] = None
        /\ engine' = [engine EXCEPT ![f] = "loading"]
        /\ at'     = [at EXCEPT ![f] = port[m]]
        /\ child'  = [child EXCEPT ![m] = f]
        /\ ours'   = IF raced THEN ours ELSE ours \cup {f}
        /\ pc' = [pc EXCEPT ![m] = "wait"]
    BY <1>2 DEF Spawn, Goto, f
  <2>3. /\ pc'[m] = "wait" /\ \A t \in Tasks \ {m} : pc'[t] = pc[t]
        /\ child'[m] = f /\ \A n \in Managers \ {m} : child'[n] = child[n]
        /\ \A e \in Engines \ {f} : engine'[e] = engine[e]
    BY <2>1, <2>2, <1>t DEF TypeOK
  <2>4. \A t \in Tasks : pc[t] \in {"reap", "poll"} => target[t] \in Managers /\ target[t] # m
    BY <2>2 DEF IInv, Safe, Holds, Stopping
  <2>5. TypeOK'
    <3>1. pc' \in [Tasks -> Steps]
      BY <2>2, <1>t DEF TypeOK, Steps
    <3>2. child' \in [Managers -> Engines \cup {None}] /\ ours' \subseteq Engines
      BY <2>1, <2>2, <1>t DEF TypeOK
    <3>3. engine' \in [Engines -> EngineStates] /\ at' \in [Engines -> Ports]
      BY <2>1, <2>2, <1>t DEF TypeOK, EngineStates
    <3>4. \A t \in Tasks : pc'[t] = "reap" => child'[target'[t]] \in Engines
      BY <2>2, <2>3, <2>4, <1>t DEF TypeOK
    <3> QED BY <3>1, <3>2, <3>3, <3>4, <2>2, <1>t DEF TypeOK
  <2>6. Roles'
    BY <2>2, <2>3, <1>t DEF IInv, Safe, Roles
  <2>7. \A t \in Tasks : Holds(t)'
    BY <2>2, <2>3, <2>4, <1>t DEF IInv, Safe, Holds, Stopping
  <2>8. Owned'
    <3>1. Owned /\ Running /\ ours \subseteq Engines
      BY <1>t DEF IInv, Safe, Running, TypeOK
    <3>2. ASSUME NEW e \in ours', Alive(e)' PROVE \E n \in Managers : child'[n] = e
      <4>1. CASE e = f
        BY <4>1, <2>3
      <4>2. CASE e # f
        <5>1. e \in ours /\ Alive(e)
          BY <4>2, <3>1, <3>2, <2>2, <2>3 DEF Alive
        <5>2. PICK n \in Managers : child[n] = e
          BY <5>1, <3>1 DEF Owned
        <5>3. n # m
          BY <5>2, <5>1, <3>1, <2>2
        <5> QED BY <5>2, <5>3, <2>3
      <4> QED BY <4>1, <4>2
    <3> QED BY <3>2 DEF Owned
  <2>9. ASSUME ~raced' PROVE Serial'
    <3>1. Serial /\ slot = m
      BY <2>2, <2>9 DEF IInv, Safe, Serial, Handless
    <3>2. \A t \in Tasks : t # m => ~InSwap(t)
      BY <2>2, <3>1, <1>t DEF Serial, Handless, InSwap
    <3>3. \A t \in Tasks : ~InSwap(t)' /\ pc'[t] \notin Stopping \cup {"publish", "probe", "spawn"}
      BY <2>3, <3>2 DEF InSwap, Stopping
    <3>4. \A n \in Managers \ {m} : Handless(n)'
      <4>1. \A n \in Managers \ {m} : Handless(n)
        BY <3>1 DEF Serial
      <4> QED BY <4>1, <2>1, <2>2, <2>3 DEF Handless
    <3>5. pc'[Main] # "exited"
      BY <2>3, <1>t
    <3> QED BY <2>2, <3>1, <3>3, <3>4, <3>5 DEF Serial
  <2> QED BY <2>5, <2>6, <2>7, <2>8, <2>9 DEF IInv, Safe
<1> QED BY <1>1, <1>2 DEF Start

(* The slot is filled when no manager has an engine.                       *)
LEMMA PublishInv ==
  ASSUME IInv, NEW m \in Managers, Publish(m)
  PROVE  IInv'
<1> USE Names DEF config, process, history
<1>t. TypeOK /\ m \in Tasks /\ m # Main /\ pc[Main] \notin {"exited", "killed"}
  BY DEF IInv, Publish, Running
<1>1. /\ UNCHANGED <<kind, http, close, engine, at, child, holder, port, target,
                     saves, lives, ours, raced>>
      /\ pc[m] = "publish" /\ pc'[m] \in {"idle", "probe"}
      /\ pc'[m] = "probe" => slot' = m
      /\ \A t \in Tasks \ {m} : pc'[t] = pc[t]
      /\ pc' \in [Tasks -> Steps] /\ plan' \in [Managers -> Plans]
      /\ slot' \in Managers \cup {None}
  BY <1>t DEF Publish, Done, Goto, Installed, StartAt, TypeOK, Steps, Plans
<1>2. TypeOK'
  BY <1>1, <1>t DEF TypeOK
<1>3. Roles'
  BY <1>1, <1>t DEF IInv, Safe, Roles
<1>4. \A t \in Tasks : Holds(t)'
  BY <1>1, <1>t DEF IInv, Safe, Holds, Stopping
<1>5. Owned'
  BY <1>1, <1>t DEF IInv, Safe, Owned, Running, Alive
<1>6. ASSUME ~raced' PROVE Serial'
  <2>1. Serial /\ \A n \in Managers : Handless(n)
    BY <1>1, <1>6, <1>t DEF IInv, Safe, Serial, Handless
  <2>2. \A t \in Tasks : t # m => ~InSwap(t)
    BY <1>1, <2>1, <1>t DEF Serial, Handless, InSwap
  <2>3. \A t \in Tasks : t # m => ~InSwap(t)' /\ pc'[t] \notin Stopping \cup {"publish", "probe", "spawn"}
    BY <1>1, <2>2 DEF InSwap, Stopping
  <2> QED BY <1>1, <2>1, <2>3, <1>t DEF Serial, Handless, Stopping
<1> QED BY <1>2, <1>3, <1>4, <1>5, <1>6 DEF IInv, Safe

-----------------------------------------------------------------------------
(* stop_server leaves the manager it stopped without an engine, or with   *)
(* one that it could not kill.                                             *)
LEMMA StopInv ==
  ASSUME IInv, NEW t0 \in Tasks, Stop(t0)
  PROVE  IInv'
<1> USE Names DEF config, process, managers, history
<1>t. TypeOK /\ pc[Main] \notin {"exited", "killed"}
  BY DEF IInv, Stop, RequestStop, TakeChild, Reap, KillFails, PollEnds, Running
<1>g. PICK g : g = target[t0]
  OBVIOUS
<1>m. g \in Managers
  BY <1>g DEF IInv, Safe, Holds, Stopping, Stop, RequestStop, TakeChild, Reap, KillFails, PollEnds
<1>1. CASE RequestStop(t0) \/ TakeChild(t0)
  <2>1. /\ UNCHANGED <<kind, http, close, at, child, slot, plan, port, target,
                       saves, lives, ours, raced>>
        /\ pc[t0] \in {"post", "lock"}
        /\ \A t \in Tasks \ {t0} : pc'[t] = pc[t]
        /\ pc' \in [Tasks -> Steps]
        /\ \/ holder' = holder /\ pc'[t0] = "lock"
           \/ /\ holder[g] = None /\ holder'[g] = t0
              /\ pc'[t0] = (IF child[g] = None THEN "poll" ELSE "reap")
              /\ \A n \in Managers \ {g} : holder'[n] = holder[n]
        /\ holder' \in [Managers -> Tasks \cup {None}]
    BY <1>1, <1>t, <1>g, <1>m DEF RequestStop, TakeChild, Goto, TypeOK, Steps
  <2>2. engine' \in [Engines -> EngineStates] /\ \A e \in Engines : Alive(e)' => Alive(e)
    BY <1>1, <1>t DEF RequestStop, TakeChild, Bound, Alive, TypeOK, EngineStates
  <2>3. TypeOK'
    <3>1. \A t \in Tasks : pc'[t] = "reap" => child'[target'[t]] \in Engines
      BY <2>1, <1>t, <1>g, <1>m DEF TypeOK
    <3> QED BY <3>1, <2>1, <2>2, <1>t DEF TypeOK
  <2>4. Roles'
    BY <2>1, <1>t DEF IInv, Safe, Roles, Stopping
  <2>5. \A t \in Tasks : Holds(t)'
    <3>1. \A t \in Tasks : pc[t] \in {"reap", "poll"} /\ target[t] = g => holder[g] = t
      BY DEF IInv, Safe, Holds
    <3> QED BY <3>1, <2>1, <1>t, <1>g, <1>m DEF IInv, Safe, Holds, Stopping
  <2>6. Owned'
    BY <2>1, <2>2, <1>t DEF IInv, TypeOK, Safe, Owned, Running
  <2>7. ASSUME ~raced' PROVE Serial'
    <3>1. Serial
      BY <2>1, <2>7 DEF IInv, Safe
    <3>2. \A t \in Tasks : InSwap(t)' => InSwap(t)
      BY <2>1 DEF InSwap
    <3>3. pc'[Main] # "exited"
      BY <2>1, <1>t
    <3>4. pc[t0] \in Stopping /\ pc'[t0] \in Stopping
      BY <2>1 DEF Stopping
    <3> QED BY <2>1, <3>1, <3>2, <3>3, <3>4 DEF Serial, Handless, Stopping
  <2> QED BY <2>3, <2>4, <2>5, <2>6, <2>7 DEF IInv, Safe
<1>2. CASE Reap(t0) \/ KillFails(t0) \/ PollEnds(t0)
  <2>1. PICK h \in Engines \cup {None} :
          /\ pc[t0] \in {"reap", "poll"} /\ LetGo(t0, h) /\ holder[g] = t0
          /\ h \notin ours'
    <3>1. pc[t0] \in {"reap", "poll"} /\ holder[g] = t0
      BY <1>2, <1>g DEF Reap, KillFails, PollEnds, IInv, Safe, Holds
    <3>2. CASE LetGo(t0, None)
      <4>1. None \notin ours'
        BY <1>2, <1>t DEF Reap, KillFails, PollEnds, TypeOK
      <4> QED BY <3>1, <3>2, <4>1
    <3>3. CASE KillFails(t0)
      BY <3>1, <3>3, <1>t, <1>g DEF KillFails, TypeOK
    <3> QED BY <1>2, <3>2, <3>3 DEF Reap, PollEnds
  <2>2. /\ engine' \in [Engines -> EngineStates] /\ \A e \in Engines : Alive(e)' => Alive(e)
        /\ ours' \subseteq ours
        /\ \A e \in Engines : child[g] = e => ~Alive(e)' \/ e \notin ours'
    <3>1. CASE Reap(t0)
      BY <3>1, <1>g, <1>t DEF Reap, Alive, TypeOK, EngineStates
    <3>2. CASE KillFails(t0)
      BY <3>2, <1>g, <1>t DEF KillFails, Alive, TypeOK
    <3>3. CASE PollEnds(t0)
      <4>1. child[g] = None
        BY <3>3, <1>g DEF PollEnds, IInv, Safe, Holds
      <4> QED BY <4>1, <3>3, <1>t DEF PollEnds, Alive, TypeOK
    <3> QED BY <1>2, <3>1, <3>2, <3>3
  <2>3. CASE t0 = Main
    <3>1. /\ Gone("exited") /\ UNCHANGED <<kind, http, close, at, port, saves, lives, raced>>
      BY <2>1, <2>3 DEF LetGo
    <3>2. ASSUME ~raced PROVE \A e \in ours' : ~Alive(e)'
      <4>1. Serial /\ slot = g /\ Owned /\ Running /\ ours \subseteq Engines
        BY <2>1, <3>2, <1>g, <1>t DEF IInv, Safe, Serial, Stopping, Running, TypeOK
      <4>2. SUFFICES ASSUME NEW e \in ours', Alive(e)' PROVE FALSE
        OBVIOUS
      <4>3. e \in Engines /\ e \in ours /\ Alive(e)
        BY <4>1, <4>2, <2>2
      <4>4. PICK n \in Managers : child[n] = e
        BY <4>1, <4>2, <4>3 DEF Owned
      <4>5. n = g
        BY <4>1, <4>3, <4>4 DEF Serial, Handless
      <4> QED BY <4>2, <4>3, <4>4, <4>5, <2>2
    <3> QED BY <3>1, <3>2, <2>2, <1>t, GoneInv DEF TypeOK
  <2>4. CASE t0 # Main
    <3>0. t0 \in Managers
      BY <2>4
    <3>1. /\ UNCHANGED <<kind, http, close, at, port, slot, plan, saves, lives, raced>>
          /\ pc' = [pc EXCEPT ![t0] = "publish"]
          /\ child' = [child EXCEPT ![g] = h]
          /\ holder' = [holder EXCEPT ![g] = None]
          /\ target' = [target EXCEPT ![t0] = None]
      BY <2>1, <2>4, <1>g DEF LetGo, Goto
    <3>2. /\ pc'[t0] = "publish" /\ \A t \in Tasks \ {t0} : pc'[t] = pc[t] /\ target'[t] = target[t]
          /\ child'[g] = h
          /\ \A n \in Managers \ {g} : child'[n] = child[n] /\ holder'[n] = holder[n]
      BY <3>1, <1>m, <1>t DEF TypeOK
    <3>3. \A t \in Tasks \ {t0} : pc[t] \in {"reap", "poll"} => target[t] \in Managers \ {g}
      BY <2>1 DEF IInv, Safe, Holds, Stopping
    <3>4. TypeOK'
      <4>1. /\ pc' \in [Tasks -> Steps] /\ child' \in [Managers -> Engines \cup {None}]
            /\ holder' \in [Managers -> Tasks \cup {None}]
            /\ target' \in [Tasks -> Managers \cup {None}]
        BY <3>1, <1>t DEF TypeOK, Steps
      <4>2. \A t \in Tasks : pc'[t] = "reap" => child'[target'[t]] \in Engines
        BY <3>2, <3>3, <1>t DEF TypeOK
      <4> QED BY <4>1, <4>2, <3>1, <2>2, <1>t DEF TypeOK
    <3>5. Roles'
      BY <3>0, <3>1, <3>2, <2>1, <1>t DEF IInv, Safe, Roles, Stopping
    <3>6. \A t \in Tasks : Holds(t)'
      BY <3>2, <3>3 DEF IInv, Safe, Holds, Stopping
    <3>7. Owned'
      <4>1. Owned /\ Running /\ ours \subseteq Engines
        BY <1>t DEF IInv, Safe, Running, TypeOK
      <4>2. ASSUME NEW e \in ours', Alive(e)' PROVE \E n \in Managers : child'[n] = e
        <5>1. e \in Engines /\ e \in ours /\ Alive(e)
          BY <4>1, <4>2, <2>2
        <5>2. PICK n \in Managers : child[n] = e
          BY <4>1, <5>1 DEF Owned
        <5>3. n # g
          BY <4>2, <5>1, <5>2, <2>2
        <5> QED BY <5>2, <5>3, <3>2
      <4> QED BY <4>2, <3>1 DEF Owned
    <3>8. ASSUME ~raced' PROVE Serial'
      <4>1. Serial /\ slot = g
        BY <2>1, <3>1, <3>8, <1>g DEF IInv, Safe, Serial, Handless, Stopping
      <4>2. \A t \in Tasks : t # t0 => ~InSwap(t)
        BY <2>1, <4>1 DEF Serial, Handless, InSwap
      <4>3. \A t \in Tasks : t # t0 => ~InSwap(t)' /\ pc'[t] \notin Stopping \cup {"publish", "probe", "spawn"}
        BY <3>2, <4>2 DEF InSwap, Stopping
      <4>4. \A n \in Managers : Handless(n)'
        <5>1. \A n \in Managers \ {g} : Handless(n)
          BY <4>1 DEF Serial
        <5> QED BY <5>1, <3>2, <2>1, <2>2 DEF Handless
      <4>5. pc'[Main] # "exited"
        BY <3>2, <2>4, <1>t
      <4> QED BY <3>2, <4>3, <4>4, <4>5 DEF Serial, Handless, Stopping
    <3> QED BY <3>4, <3>5, <3>6, <3>7, <3>8 DEF IInv, Safe
  <2> QED BY <2>3, <2>4
<1> QED BY <1>1, <1>2 DEF Stop

-----------------------------------------------------------------------------
(* A save hands the manager of this moment to a task of its own.           *)
LEMMA SaveInv == IInv /\ (Save \/ SaveOther) => IInv'
<1> SUFFICES ASSUME IInv, Save \/ SaveOther PROVE IInv'
  OBVIOUS
<1> USE Names DEF config, process, managers
<1>t. /\ TypeOK /\ pc[Main] = "run" /\ saves < MaxSaves /\ saves' = saves + 1
      /\ saves \in Nat /\ MaxSaves \in Nat
  BY SidecarsAssumption DEF IInv, Save, SaveOther, TypeOK
<1>n. PICK n : n = saves'
  OBVIOUS
<1>m. n \in Managers /\ n > saves /\ pc[n] = "idle" /\ n # Main /\ n \in Tasks
  BY <1>n, <1>t DEF Managers, IInv, Safe, Roles, Boot
<1>1. CASE SaveOther
  <2>1. /\ UNCHANGED <<kind, engine, at, child, holder, slot, plan, port, pc, target, lives>>
        /\ http' \in BOOLEAN /\ close' \in BOOLEAN /\ raced' = (raced \/ Busy)
        /\ ours' = IF raced' THEN {} ELSE ours
    BY <1>1 DEF SaveOther, Overlaps
  <2>2. TypeOK'
    BY <2>1, <1>t DEF TypeOK
  <2>3. Roles'
    BY <2>1, <1>t DEF IInv, Safe, Roles, Managers, Boot
  <2>4. (\A t \in Tasks : Holds(t)') /\ Owned'
    BY <2>1 DEF IInv, Safe, Holds, Owned, Running, Alive
  <2>5. ~raced' => Serial'
    BY <2>1, <1>t DEF IInv, Safe, Serial, Handless, InSwap
  <2> QED BY <2>2, <2>3, <2>4, <2>5 DEF IInv, Safe
<1>2. CASE Save
  <2>1. /\ UNCHANGED <<kind, engine, at, child, holder, slot, lives>>
        /\ http' \in BOOLEAN /\ close' \in BOOLEAN /\ raced' = (raced \/ Busy)
        /\ ours' = IF raced' THEN {} ELSE ours
        /\ target' = [target EXCEPT ![n] = slot]
        /\ pc' = [pc EXCEPT ![n] = FirstStep(slot)]
    BY <1>2, <1>n DEF Save, Goto, Overlaps
  <2>2. plan' \in [Managers -> Plans] /\ port' \in [Managers -> Ports]
    <3>1. PICK p \in Plans, q \in Ports :
            plan' = [plan EXCEPT ![n] = p] /\ port' = [port EXCEPT ![n] = q]
      BY <1>2, <1>n DEF Save
    <3> QED BY <3>1, <1>t DEF TypeOK
  <2>3. /\ pc'[n] = (IF slot = None THEN "publish" ELSE "post") /\ target'[n] = slot
        /\ slot \in Managers \cup {None}
        /\ \A t \in Tasks \ {n} : pc'[t] = pc[t] /\ target'[t] = target[t]
    BY <2>1, <1>m, <1>t DEF TypeOK, FirstStep
  <2>4. TypeOK'
    <3>1. pc' \in [Tasks -> Steps]
      BY <2>1, <1>t DEF TypeOK, FirstStep, Steps
    <3>2. target' \in [Tasks -> Managers \cup {None}]
      BY <2>1, <2>3, <1>t DEF TypeOK
    <3>2a. saves' \in 0 .. MaxSaves
      BY <1>t
    <3>3. raced' \in BOOLEAN
      BY <2>1, <1>t DEF TypeOK, Busy
    <3>4. \A t \in Tasks : pc'[t] = "reap" => child'[target'[t]] \in Engines
      BY <2>1, <2>3, <1>t DEF TypeOK
    <3> QED BY <3>1, <3>2, <3>2a, <3>3, <3>4, <2>1, <2>2, <1>t DEF TypeOK
  <2>5. Roles'
    <3>1. \A m \in Managers : m > saves' => m > saves /\ m # n
      BY <1>n, <1>t DEF Managers, Boot
    <3> QED BY <3>1, <2>3, <1>m DEF IInv, Safe, Roles
  <2>6. \A t \in Tasks : Holds(t)'
    BY <2>1, <2>3 DEF IInv, Safe, Holds, Stopping
  <2>7. Owned'
    BY <2>1, <2>3, <1>m, <1>t DEF IInv, Safe, Owned, Running, Alive
  <2>8. ASSUME ~raced' PROVE Serial'
    <3>1. Serial /\ \A t \in Tasks : ~InSwap(t)
      BY <2>1, <2>8 DEF IInv, Safe, Busy
    <3>2. \A t \in Tasks \ {n} : ~InSwap(t)' /\ pc'[t] \notin Stopping \cup {"publish", "probe", "spawn"}
      BY <2>3, <3>1 DEF InSwap, Stopping
    <3>3. slot = None => \A m \in Managers : Handless(m)
      BY <3>1 DEF Serial, Handless
    <3>4. pc'[Main] = "run"
      BY <2>3, <1>m, <1>t
    <3> QED BY <2>1, <2>3, <3>1, <3>2, <3>3, <3>4 DEF Serial, Handless, Stopping
  <2> QED BY <2>4, <2>5, <2>6, <2>7, <2>8 DEF IInv, Safe
<1> QED BY <1>1, <1>2

(* The end stops the engine of the slot if the configuration says so.      *)
LEMMA ShutdownInv == IInv /\ Shutdown => IInv'
<1> SUFFICES ASSUME IInv, Shutdown PROVE IInv'
  OBVIOUS
<1> USE Names DEF config, process
<1>t. /\ TypeOK /\ pc[Main] = "run" /\ raced' = (raced \/ Busy) /\ raced' \in BOOLEAN
      /\ UNCHANGED <<kind, http, close, engine, at, port, saves, lives>> /\ ours' = IF raced' THEN {} ELSE ours
  BY DEF IInv, TypeOK, Shutdown, Busy, Overlaps
<1>1. CASE ToStop = None /\ Gone("exited")
  <2>1. ASSUME http /\ close /\ ~raced' PROVE \A e \in ours' : ~Alive(e)'
    <3>1. slot = None
      BY <1>1, <2>1 DEF ToStop
    <3>2. Serial /\ Owned /\ Running /\ ours \subseteq Engines
      BY <2>1, <1>t DEF IInv, Safe, Running, TypeOK
    <3>3. \A m \in Managers : Handless(m)
      BY <3>1, <3>2 DEF Serial
    <3>4. \A e \in ours : ~Alive(e)
      BY <3>2, <3>3 DEF Owned, Handless
    <3> QED BY <3>4, <1>t DEF Alive
  <2>2. engine' \in [Engines -> EngineStates] /\ ours' \subseteq Engines
    BY <1>t DEF TypeOK
  <2> QED BY <1>1, <1>t, <2>1, <2>2, GoneInv
<1>2. CASE /\ ToStop # None /\ Goto(Main, "post")
           /\ target' = [target EXCEPT ![Main] = ToStop]
           /\ UNCHANGED <<child, holder, slot, plan>>
  <2>1. ToStop = slot /\ slot \in Managers
    BY <1>2, <1>t DEF ToStop, TypeOK
  <2>2. /\ pc'[Main] = "post" /\ target'[Main] = slot
        /\ \A t \in Tasks \ {Main} : pc'[t] = pc[t] /\ target'[t] = target[t]
        /\ pc' \in [Tasks -> Steps] /\ target' \in [Tasks -> Managers \cup {None}]
    BY <1>2, <2>1, <1>t DEF Goto, TypeOK, Steps
  <2>3. TypeOK'
    <3>1. \A t \in Tasks : pc'[t] = "reap" => child'[target'[t]] \in Engines
      BY <1>2, <2>2, <1>t DEF TypeOK
    <3> QED BY <3>1, <1>2, <2>2, <1>t DEF TypeOK
  <2>4. Roles'
    BY <2>2, <1>t DEF IInv, Safe, Roles, Stopping
  <2>5. \A t \in Tasks : Holds(t)'
    BY <1>2, <2>1, <2>2 DEF IInv, Safe, Holds, Stopping
  <2>6. Owned'
    BY <1>2, <1>t DEF IInv, Safe, Owned, Running, Alive
  <2>7. ASSUME ~raced' PROVE Serial'
    <3>1. Serial /\ \A t \in Tasks : ~InSwap(t)
      BY <2>7, <1>t DEF IInv, Safe, Busy
    <3>2. \A t \in Tasks \ {Main} : ~InSwap(t)' /\ pc'[t] \notin Stopping \cup {"publish", "probe", "spawn"}
      BY <2>2, <3>1 DEF InSwap, Stopping
    <3>3. \A m \in Managers : Handless(m)' <=> Handless(m)
      BY <2>7, <1>t, <1>2 DEF Handless
    <3> QED BY <1>2, <2>2, <3>1, <3>2, <3>3 DEF Serial, Stopping
  <2> QED BY <2>3, <2>4, <2>5, <2>6, <2>7 DEF IInv, Safe
<1> QED BY <1>1, <1>2 DEF Shutdown

-----------------------------------------------------------------------------
(* The invariant holds in every behaviour.                                 *)
THEOREM Invariance == Spec => []IInv
<1>1. IInv /\ [Next]_vars => IInv'
  <2> SUFFICES ASSUME IInv, [Next]_vars PROVE IInv'
    OBVIOUS
  <2>1. CASE UNCHANGED vars
    <3>1. UNCHANGED <<kind, http, close, engine, at, child, holder, slot, plan, port, pc, target,
                      saves, lives, ours, raced>>
      BY <2>1 DEF vars, config, process, managers, history
    <3>2. TypeOK'
      BY <3>1 DEF IInv, TypeOK
    <3>3. Safe'
      BY <3>1 DEF IInv, Safe, Roles, Holds, Owned, Serial, Handless, Running, InSwap, Alive
    <3> QED BY <3>2, <3>3 DEF IInv
  <2>2. CASE Next
    BY <2>2, EngineInv, StartInv, PublishInv, StopInv, SaveInv, ShutdownInv, KillInv, RestartInv
    DEF Next
  <2> QED BY <2>1, <2>2
<1> QED BY InitInv, <1>1, PTL DEF Spec

(* Every variable keeps its type, and who waits for a child has one.       *)
THEOREM TypeCorrect == Spec => []TypeOK
<1>1. IInv => TypeOK
  BY DEF IInv
<1> QED BY <1>1, Invariance, PTL

(* Unless saves overlap, the engine that this life launched runs under the *)
(* manager in the slot, or has outlived being killed.                      *)
THEOREM StrayCorrect == Spec => []NoStraySidecar
<1>1. IInv => NoStraySidecar
  <2> SUFFICES ASSUME IInv, Running, ~raced, NEW e \in ours, Alive(e)
               PROVE  slot # None /\ child[slot] = e
    BY DEF NoStraySidecar
  <2>1. Serial /\ Owned /\ e \in Engines
    BY DEF IInv, Safe, TypeOK
  <2>2. PICK m \in Managers : child[m] = e
    BY <2>1 DEF Owned
  <2> QED BY <2>1, <2>2, Names DEF Serial, Handless
<1> QED BY <1>1, Invariance, PTL

(* A server told to end with its engine leaves none it launched behind,    *)
(* but one that outlived being killed.                                     *)
THEOREM CloseCorrect == Spec => []ClosesWithCompanion
<1>1. IInv => ClosesWithCompanion
  BY DEF IInv, Safe, Serial, ClosesWithCompanion
<1> QED BY <1>1, Invariance, PTL
=============================================================================
