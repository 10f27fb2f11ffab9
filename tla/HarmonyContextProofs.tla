------------------------ MODULE HarmonyContextProofs -------------------------
(***************************************************************************)
(* What the update context of the Harmony port promises, for any versions, *)
(* calls and bounds.  The invariant says of each call what it may still    *)
(* activate, of each task what it keeps, and of a debt where it is stored. *)
(***************************************************************************)
EXTENDS HarmonyContext, StateCoreProofs, SequenceTheorems

(* A call that may still activate a version.                               *)
Pending == {"round", "waiting", "reading", "returning"}

(* A call that may still activate a version: somebody asked for it, since  *)
(* the last reset unless the reset was noticed, another attempt is left    *)
(* where one may start, and a cleanup that runs is noticed.                *)
CallFits(o, asked, flight) ==
    /\ o \in Op
    /\ o.at \in {"round", "waiting"} => o.attempt < MaxVerifyAttempts
    /\ o.at \in Pending =>
          o.version \in Version /\ (o.superseded = FALSE => o.version \in asked)
    /\ flight = TRUE /\ o.at \in {"reading", "returning"} => o.raced = TRUE

CallsFit(o, asked, flight) ==
    o \in [Call -> Op] /\ \A c \in Call : CallFits(o[c], asked, flight)

(* The tasks are typed, and a regular cleanup keeps what is active.        *)
Doable == {t \in Task : t.kind = "install" => t.version \in Version}
TasksFit(names) ==
    /\ running \in [task : Doable, keep : SUBSET Version]
    /\ chain \in Seq(Doable \ {NoTask}) /\ Len(chain) <= MaxTasks
    /\ running.task.kind = "cleanUp" => names \ {NoVersion} \subseteq running.keep

Names == {mem.st.current, mem.st.last, launchVersion}

DeadIsIdle == alive = FALSE => running = NothingRuns /\ \A c \in Call : op[c] = Idle

StoreFits(s) == s \in Store /\ Coherent(s.st)

(* What is owed is what memory and disk name, still to be launched first.  *)
Holds(s, v) == s.st.current = v /\ (v # NoVersion => s.st.firstTime = TRUE)
DebtIsStored == reported # Nothing => Holds(mem, reported) /\ Holds(disk, reported)

RestFits ==
    /\ build \in Binary /\ dirs \subseteq Version /\ alive \in BOOLEAN
    /\ launchVersion \in MaybeVersion /\ ignoreRollback \in BOOLEAN
    /\ background \in BOOLEAN /\ fallbackTimer \in BOOLEAN
    /\ reported \in MaybeVersion \cup {Nothing} /\ wanted \subseteq Version

ContextInv ==
    /\ RestFits /\ StoreFits(mem) /\ StoreFits(disk)
    /\ CallsFit(op, wanted, CleanupInFlight) /\ TasksFit(Names)
    /\ DeadIsIdle /\ ResetWins /\ DebtIsStored

(***************************************************************************)
(* The state machine of the store                                          *)
(***************************************************************************)
(* A store is a state that fits and a marker.                              *)
LEMMA StoreIs ==
    ASSUME NEW st, NEW m, st \in State /\ Coherent(st), m \in BOOLEAN
    PROVE  StoreFits([st |-> st, marker |-> m])
BY DEF StoreFits, Store

(* What a store that fits holds.                                           *)
LEMMA StoreHas ==
    ASSUME NEW s, StoreFits(s)
    PROVE  /\ s.st \in State /\ Coherent(s.st) /\ s.marker \in BOOLEAN
           /\ s.st.current \in MaybeVersion /\ s.st.last \in MaybeVersion
           /\ s.st.binary \in Binary /\ s.st.firstTime \in BOOLEAN
BY DEF StoreFits, Store, State

(* A rollback, and what a launch makes of the state: it names nothing new, *)
(* and launches a version that waits for its first launch if it is there.  *)
LEMMA RollbackNames ==
    ASSUME NEW st \in State
    PROVE  Rollback(st).current = st.last /\ Rollback(st).last = NoVersion
BY DEF Rollback, State

(* What a launch resolves to names nothing new, and launches a version that*)
(* waits for its first launch.                                             *)
LEMMA ResolvesNames ==
    ASSUME NEW st \in State, NEW i \in BOOLEAN
    PROVE  LET r == ResolveLaunchState(st, i)
           IN /\ {r.current, r.last} \subseteq {st.current, st.last, NoVersion}
              /\ st.firstTime = TRUE \/ st.current = NoVersion => r.current = st.current
<1>. DEFINE q == [st EXCEPT !.firstTime = FALSE]
<1>1. q.current = st.current /\ q.last = st.last
  BY DEF State
<1>. HIDE DEF q
<1>2. ResolveLaunchState(st, i) \in {Rollback(st), q, st}
  BY DEF ResolveLaunchState, q
<1>3. st.firstTime = TRUE \/ st.current = NoVersion => ResolveLaunchState(st, i) \in {q, st}
  BY DEF ResolveLaunchState, q, DidRollback, ShouldRollbackForBrokenFirstLoad
<1>. QED BY <1>1, <1>2, <1>3, RollbackNames

(* A version whose directory is gone is rolled back; any other stays.      *)
LEMMA RolledBackNames ==
    ASSUME NEW st \in State, Coherent(st)
    PROVE  LET r == RolledBackIfMissing(st)
           IN /\ r \in State /\ Coherent(r)
              /\ {r.current, r.last} \subseteq {st.current, st.last, NoVersion}
              /\ st.current \in dirs \cup {NoVersion} => r.current = st.current
BY RollbackNames, RollbackCoherent DEF RolledBackIfMissing

(* A launch as a whole: two rollbacks at most, and neither touches a       *)
(* version that waits for its first launch and is there.                   *)
LEMMA LaunchedNames ==
    ASSUME NEW st \in State, Coherent(st), ignoreRollback \in BOOLEAN
    PROVE  LET r == Launched(st)
           IN /\ r \in State /\ Coherent(r)
              /\ {r.current, r.last} \subseteq {st.current, st.last, NoVersion}
              /\ (st.firstTime = TRUE \/ st.current = NoVersion)
                    /\ st.current \in dirs \cup {NoVersion} => r.current = st.current
<1>. DEFINE a == ResolveLaunchState(st, ignoreRollback)
            b == RolledBackIfMissing(a)
<1>1. /\ a \in State /\ Coherent(a)
      /\ {a.current, a.last} \subseteq {st.current, st.last, NoVersion}
      /\ st.firstTime = TRUE \/ st.current = NoVersion => a.current = st.current
  BY ResolveLaunchStateCoherent, ResolvesNames
<1>. HIDE DEF a
<1>2. /\ b \in State /\ Coherent(b) /\ {b.current, b.last} \subseteq {a.current, a.last, NoVersion}
      /\ a.current \in dirs \cup {NoVersion} => b.current = a.current
  BY <1>1, RolledBackNames
<1>. HIDE DEF b
<1>3. Launched(st) = RolledBackIfMissing(b)
  BY DEF Launched, a, b
<1>. DEFINE r == RolledBackIfMissing(b)
<1>4. /\ r \in State /\ Coherent(r) /\ {r.current, r.last} \subseteq {b.current, b.last, NoVersion}
      /\ b.current \in dirs \cup {NoVersion} => r.current = b.current
  BY <1>2, RolledBackNames
<1>. HIDE DEF r
<1>5. Launched(st) = r
  BY <1>3 DEF r
<1>. QED BY <1>1, <1>2, <1>4, <1>5

(* A switch adds one name.                                                 *)
LEMMA SwitchNames ==
    ASSUME NEW st \in State, NEW v \in Version
    PROVE  {SwitchVersion(st, v).current, SwitchVersion(st, v).last} \subseteq
               {v, st.current, st.last}
BY DEF SwitchVersion, State

(* A confirmation adds none.                                               *)
LEMMA MarkSuccessNames ==
    ASSUME NEW st \in State
    PROVE  {MarkSuccess(st).current, MarkSuccess(st).last} \subseteq
               {st.current, st.last, NoVersion}
BY DEF MarkSuccess, StaleVersion, State

(* Consuming the rollback mark changes no name.                            *)
LEMMA ClearRollbackMarkNames ==
    ASSUME NEW st \in State
    PROVE  /\ ClearRollbackMark(st).current = st.current
           /\ ClearRollbackMark(st).last = st.last
           /\ ClearRollbackMark(st).firstTime = st.firstTime
BY DEF ClearRollbackMark, State

(* A reset leaves no name.                                                 *)
LEMMA FreshNames ==
    \A b : FreshState(b).current = NoVersion /\ FreshState(b).last = NoVersion
BY DEF FreshState

(* What writeState leaves in memory.                                       *)
LEMMA WrittenIs ==
    ASSUME NEW st, NEW m, WriteState(st, m)
    PROVE  mem'.st = st /\ mem'.marker = m /\ mem' = [st |-> st, marker |-> m]
BY DEF WriteState

(***************************************************************************)
(* The calls                                                               *)
(***************************************************************************)
(* A call that awaits nothing fits.                                        *)
LEMMA IdleFits == \A asked, flight : CallFits(Idle, asked, flight)
BY AttemptsAssumption DEF CallFits, Idle, Op, Pending, MaybeVersion

(* A reset is noticed by whoever may still activate.                       *)
LEMMA SupersedeFits ==
    ASSUME NEW o, NEW asked, NEW later, NEW flight, CallsFit(o, asked, flight)
    PROVE  CallsFit(Supersede(o), later, flight)
<1>. SUFFICES ASSUME NEW c \in Call
              PROVE  CallFits(Supersede(o)[c], later, flight)
  BY DEF CallsFit, CallFits, Supersede
<1>. DEFINE q == Supersede(o)[c]
<1>1. o[c] \in Op /\ CallFits(o[c], asked, flight)
  BY DEF CallsFit
<1>2. q = [o[c] EXCEPT !.superseded = @ \/ o[c].at \in Pending]
  BY DEF Supersede, Pending
<1>. HIDE DEF q
<1>3. /\ q \in Op /\ q.at = o[c].at /\ q.attempt = o[c].attempt /\ q.version = o[c].version
      /\ q.raced = o[c].raced /\ (o[c].at \in Pending => q.superseded = TRUE)
  BY <1>1, <1>2 DEF Op
<1>4. CallFits(q, later, flight)
  BY <1>1, <1>3 DEF CallFits
<1>. QED BY <1>4 DEF q

(* A cleanup that starts is noticed by whoever verifies.                   *)
LEMMA NoticedFits ==
    ASSUME NEW o, NEW asked, NEW flight, NEW task, CallsFit(o, asked, flight)
    PROVE  CallsFit(Noticed(o, task), asked, IsCleanup(task))
<1>1. CASE ~IsCleanup(task)
  BY <1>1 DEF Noticed, CallsFit, CallFits
<1>2. CASE IsCleanup(task)
  <2>. SUFFICES ASSUME NEW c \in Call
                PROVE  CallFits(Noticed(o, task)[c], asked, TRUE)
    BY <1>2 DEF CallsFit, CallFits, Noticed
  <2>. DEFINE q == Noticed(o, task)[c]
  <2>1. o[c] \in Op /\ CallFits(o[c], asked, flight)
    BY DEF CallsFit
  <2>2. q = [o[c] EXCEPT !.raced = @ \/ o[c].at \in {"reading", "returning"}]
    BY <1>2 DEF Noticed
  <2>. HIDE DEF q
  <2>3. /\ q \in Op /\ q.at = o[c].at /\ q.attempt = o[c].attempt /\ q.version = o[c].version
        /\ q.superseded = o[c].superseded
        /\ o[c].at \in {"reading", "returning"} => q.raced = TRUE
    BY <2>1, <2>2 DEF Op
  <2>4. CallFits(q, asked, TRUE)
    BY <2>1, <2>3 DEF CallFits
  <2>. QED BY <2>4 DEF q
<1>. QED BY <1>1, <1>2

(***************************************************************************)
(* The chain                                                               *)
(***************************************************************************)
(* Nothing that runs is a task, and not a cleanup.                         *)
LEMMA IdleChain == NothingRuns.task = NoTask /\ NothingRuns.keep = {} /\ ~IsCleanup(NoTask)
                   /\ NothingRuns \in [task : Doable, keep : SUBSET Version]
                   /\ NoTask.kind # "cleanUp"
BY DEF NothingRuns, NoTask, IsCleanup, Doable, Task, MaybeVersion

(* A task that starts: a regular cleanup keeps what is active then.        *)
LEMMA StartedFits ==
    ASSUME NEW task \in Doable, StoreFits(mem)', launchVersion \in MaybeVersion
    PROVE  /\ Started(task) \in [task : Doable, keep : SUBSET Version]
           /\ Started(task).task = task
           /\ task.kind = "cleanUp" =>
                 {mem'.st.current, mem'.st.last, launchVersion} \ {NoVersion}
                     \subseteq Started(task).keep
<1>1. mem'.st.current \in MaybeVersion /\ mem'.st.last \in MaybeVersion
  BY DEF StoreFits, Store, State
<1>2. KeepNames(task, mem'.st, launchVersion) \in SUBSET Version
  BY <1>1 DEF KeepNames, MaybeVersion
<1>. DEFINE keep == IF IsCleanup(task) THEN KeepNames(task, mem'.st, launchVersion) ELSE {}
<1>3. keep \in SUBSET Version
  BY <1>2
<1>4. task.kind = "cleanUp" =>
        {mem'.st.current, mem'.st.last, launchVersion} \ {NoVersion} \subseteq keep
  BY DEF IsCleanup, KeepNames
<1>. HIDE DEF keep
<1>5. Started(task) = [task |-> task, keep |-> keep]
  BY DEF Started, keep
<1>. QED BY <1>3, <1>4, <1>5

(* A task that is queued, or starts at once: while another runs, no name   *)
(* may be added that its keep list does not know.                          *)
LEMMA EnqueueFits ==
    ASSUME TasksFit(Names), StoreFits(mem)', launchVersion \in MaybeVersion,
           launchVersion' = launchVersion,
           running # NothingRuns => Names' \subseteq Names \cup {NoVersion},
           NEW task \in Doable \ {NoTask}, NEW o, NEW asked, CallsFit(o, asked, CleanupInFlight),
           Enqueue(task, o)
    PROVE  TasksFit(Names)' /\ CallsFit(op', asked, CleanupInFlight')
<1>. USE DEF CleanupInFlight
<1>1. CASE running = NothingRuns
  <2>1. running' = Started(task) /\ chain' = chain /\ op' = Noticed(o, task)
    BY <1>1 DEF Enqueue
  <2>2. CallsFit(op', asked, IsCleanup(running'.task))
    BY <2>1, NoticedFits, StartedFits
  <2>3. TasksFit(Names)'
    BY <2>1, StartedFits DEF TasksFit, Names
  <2>. QED BY <2>2, <2>3
<1>2. CASE running # NothingRuns
  <2>1. running' = running /\ chain' = Append(chain, task) /\ op' = o /\ Len(chain) < MaxTasks
    BY <1>2 DEF Enqueue
  <2>2. chain' \in Seq(Doable \ {NoTask}) /\ Len(chain') <= MaxTasks
    BY <2>1, OpsAssumption DEF TasksFit
  <2>. QED BY <1>2, <2>1, <2>2 DEF TasksFit
<1>. QED BY <1>1, <1>2

(* The task that ends makes room for the one behind it.                    *)
LEMMA FinishTaskFits ==
    ASSUME TasksFit(Names), StoreFits(mem), launchVersion \in MaybeVersion,
           mem' = mem, launchVersion' = launchVersion,
           NEW asked, CallsFit(op, asked, CleanupInFlight), FinishTask
    PROVE  TasksFit(Names)' /\ CallsFit(op', asked, CleanupInFlight')
<1>. USE DEF CleanupInFlight
<1>0. Names' = Names /\ StoreFits(mem)'
  BY DEF Names, StoreFits
<1>1. CASE chain = <<>>
  <2>1. running' = NothingRuns /\ chain' = chain /\ op' = op
    BY <1>1 DEF FinishTask
  <2>2. CallsFit(op', asked, IsCleanup(running'.task))
    BY <2>1, IdleChain DEF CallsFit, CallFits
  <2>. QED BY <2>1, <2>2, IdleChain DEF TasksFit
<1>2. CASE chain # <<>>
  <2>. DEFINE task == Head(chain)
  <2>1. running' = Started(task) /\ chain' = Tail(chain) /\ op' = Noticed(op, task)
    BY <1>2 DEF FinishTask
  <2>2. task \in Doable /\ chain' \in Seq(Doable \ {NoTask}) /\ Len(chain') <= MaxTasks
    <3>1. chain \in Seq(Doable \ {NoTask}) /\ Len(chain) <= MaxTasks
      BY DEF TasksFit
    <3>2. Len(chain') = Len(chain) - 1 /\ Len(chain) \in Nat
      BY <1>2, <2>1, <3>1
    <3>. QED BY <1>2, <2>1, <3>1, <3>2, OpsAssumption
  <2>. HIDE DEF task
  <2>3. CallsFit(op', asked, IsCleanup(running'.task))
    BY <1>0, <2>1, <2>2, NoticedFits, StartedFits
  <2>4. TasksFit(Names)'
    BY <1>0, <2>1, <2>2, StartedFits DEF TasksFit, Names
  <2>. QED BY <2>3, <2>4
<1>. QED BY <1>1, <1>2

(***************************************************************************)
(* The invariant                                                           *)
(***************************************************************************)
(* The invariant holds when the app runs for the first time.               *)
LEMMA ContextInitInv == ContextInit => ContextInv
<1>. SUFFICES ASSUME ContextInit PROVE ContextInv
  OBVIOUS
<1>1. PICK back \in MaybeVersion :
        /\ back = NoVersion \/ back # launchVersion
        /\ mem = [st |-> [FreshState(build) EXCEPT !.current = launchVersion,
                                                  !.rolledBack = back],
                  marker |-> FALSE]
  BY DEF ContextInit
<1>2. /\ build \in Binary /\ dirs \subseteq Version /\ launchVersion \in MaybeVersion
      /\ disk = mem /\ op = [c \in Call |-> Idle] /\ running = NothingRuns /\ chain = <<>>
      /\ wanted = {launchVersion} \ {NoVersion} /\ reported = Nothing /\ alive = TRUE
      /\ background = FALSE /\ fallbackTimer = FALSE /\ ignoreRollback = FALSE
  BY DEF ContextInit, MaybeVersion
<1>3. FreshState(build) \in State /\ Coherent(FreshState(build))
  BY <1>2, FreshStateCoherent
<1>. DEFINE st == [FreshState(build) EXCEPT !.current = launchVersion, !.rolledBack = back]
<1>4. /\ st \in State /\ st.current = launchVersion /\ st.last = FreshState(build).last
      /\ st.rolledBack = back /\ st.firstTime = FreshState(build).firstTime
      /\ st.firstTimeOk = FreshState(build).firstTimeOk
  BY <1>2, <1>3 DEF State
<1>5. /\ FreshState(build).last = NoVersion /\ FreshState(build).firstTime = FALSE
      /\ FreshState(build).firstTimeOk = TRUE
  BY DEF FreshState
<1>. HIDE DEF st
<1>6. Coherent(st)
  BY <1>1, <1>4, <1>5 DEF Coherent
<1>7. mem = [st |-> st, marker |-> FALSE] /\ mem.st = st
  BY <1>1 DEF st
<1>8. StoreFits(mem) /\ StoreFits(disk)
  BY <1>2, <1>4, <1>6, <1>7, StoreIs
<1>9. CallsFit(op, wanted, CleanupInFlight)
  <2>1. \A c \in Call : CallFits(op[c], wanted, CleanupInFlight) /\ op[c] \in Op
    BY <1>2, IdleFits DEF CallFits
  <2>. QED BY <1>2, <2>1 DEF CallsFit
<1>10. TasksFit(Names)
  <2>1. <<>> \in Seq(Doable \ {NoTask}) /\ Len(<<>>) = 0 /\ 0 <= MaxTasks
    BY OpsAssumption
  <2>. QED BY <1>2, <2>1, IdleChain DEF TasksFit
<1>11. RestFits
  BY <1>2 DEF RestFits, MaybeVersion
<1>12. DeadIsIdle /\ DebtIsStored
  BY <1>2 DEF DeadIsIdle, DebtIsStored
<1>13. ResetWins
  BY <1>2, <1>4, <1>5, <1>7 DEF ResetWins
<1>. QED BY <1>8, <1>9, <1>10, <1>11, <1>12, <1>13 DEF ContextInv

(* What the invariant says of the variables.                               *)
LEMMA InvHas ==
    ContextInv => /\ RestFits /\ StoreFits(mem) /\ StoreFits(disk)
                  /\ CallsFit(op, wanted, CleanupInFlight) /\ TasksFit(Names)
                  /\ DeadIsIdle /\ ResetWins /\ DebtIsStored
                  /\ Names \subseteq MaybeVersion /\ CallsFit(op, wanted, FALSE)
BY DEF ContextInv, Names, RestFits, StoreFits, Store, State, CallsFit, CallFits

(* Cleanups and installs.                                                  *)
LEMMA TaskMeans ==
    ASSUME RestFits, TasksFit(Names), ContextTasks
    PROVE  /\ UNCHANGED <<build, mem, disk, background, alive, launchVersion, ignoreRollback,
                         fallbackTimer, reported, wanted>>
           /\ dirs' \subseteq Version
           /\ UNCHANGED <<op, running, chain>> \/ FinishTask
           /\ running # NothingRuns
<1>1. ASSUME NEW v \in Version, CleanupDeletes(v)
      PROVE  /\ UNCHANGED <<build, mem, disk, background, alive, launchVersion, ignoreRollback,
                           fallbackTimer, reported, wanted, op, running, chain>>
             /\ dirs' \subseteq Version /\ running # NothingRuns
  BY <1>1, IdleChain
     DEF CleanupDeletes, TaskUnchanged, stores, process, tasks, RestFits, CleanupInFlight
<1>2. ASSUME CleanupEnds \/ InstallEnds
      PROVE  /\ UNCHANGED <<build, mem, disk, background, alive, launchVersion, ignoreRollback,
                           fallbackTimer, reported, wanted>>
             /\ FinishTask
  BY <1>2 DEF CleanupEnds, InstallEnds, TaskUnchanged, stores, process
<1>3. CASE CleanupEnds
  BY <1>2, <1>3, IdleChain DEF CleanupEnds, RestFits, CleanupInFlight
<1>4. CASE InstallEnds
  <2>1. running.task.kind = "install" /\ running.task.version \in Version
    BY <1>4 DEF InstallEnds, TasksFit, Doable
  <2>2. running # NothingRuns
    BY <2>1 DEF NothingRuns, NoTask
  <2>. QED BY <1>2, <1>4, <2>1, <2>2 DEF InstallEnds, RestFits
<1>. QED BY <1>1, <1>2, <1>3, <1>4 DEF ContextTasks

(* Cleanups and installs keep the invariant.                               *)
LEMMA TaskKeepsInv == ASSUME ContextInv, ContextTasks PROVE ContextInv'
<1>i. /\ RestFits /\ StoreFits(mem) /\ StoreFits(disk)
      /\ CallsFit(op, wanted, CleanupInFlight) /\ TasksFit(Names)
      /\ DeadIsIdle /\ ResetWins /\ DebtIsStored
  BY InvHas
<1>1. /\ UNCHANGED <<build, mem, disk, background, alive, launchVersion, ignoreRollback,
                     fallbackTimer, reported, wanted>>
      /\ dirs' \subseteq Version
      /\ UNCHANGED <<op, running, chain>> \/ FinishTask
      /\ running # NothingRuns
  BY <1>i, TaskMeans
<1>2. launchVersion \in MaybeVersion
  BY <1>i DEF RestFits
<1>3. TasksFit(Names)' /\ CallsFit(op', wanted, CleanupInFlight')
  <2>1. CASE UNCHANGED <<op, running, chain>>
    BY <1>i, <1>1, <2>1 DEF TasksFit, Names, CleanupInFlight
  <2>2. CASE FinishTask
    BY <1>i, <1>1, <1>2, <2>2, FinishTaskFits
  <2>. QED BY <1>1, <2>1, <2>2
<1>4. RestFits' /\ StoreFits(mem)' /\ StoreFits(disk)' /\ ResetWins' /\ DebtIsStored'
  BY <1>i, <1>1 DEF RestFits, StoreFits, ResetWins, DebtIsStored, Holds
<1>5. DeadIsIdle'
  BY <1>i, <1>1 DEF DeadIsIdle, RestFits
<1>. QED BY <1>1, <1>3, <1>4, <1>5 DEF ContextInv

(***************************************************************************)
(* What the assignments of a call's record do                              *)
(***************************************************************************)
(* Only one call changes.                                                  *)
LEMMA CallReplaced ==
    ASSUME NEW o, NEW asked, NEW flight, CallsFit(o, asked, flight),
           NEW c \in Call, NEW p \in [Call -> Op], CallFits(p[c], asked, flight),
           \A d \in Call \ {c} : p[d] = o[d]
    PROVE  CallsFit(p, asked, flight)
BY DEF CallsFit, CallFits

(* A call that begins: with a version it may activate, or past that point. *)
Beginning(kind, v, at, asked) ==
    /\ kind \in {"none", "setNeedUpdate", "reloadUpdate", "commit", "restartApp", "markSuccess",
                "reset"}
    /\ v \in MaybeVersion
    /\ \/ at \in {"flushing", "restarting"}
       \/ at \in {"round", "waiting"} /\ v \in Version /\ v \in asked

(* A call that begins.                                                     *)
LEMMA BegunFits ==
    ASSUME NEW asked, NEW flight, CallsFit(op, asked, flight), NEW c \in Call,
           NEW kind, NEW v, NEW at, Beginning(kind, v, at, asked)
    PROVE  CallsFit(Begin(c, kind, v, at), asked, flight)
<1>. DEFINE o == [Idle EXCEPT !.kind = kind, !.version = v, !.at = at]
            p == Begin(c, kind, v, at)
<1>0. Idle \in Op /\ Idle.attempt = 0
  BY AttemptsAssumption DEF Idle, Op, MaybeVersion
<1>1. o \in Op /\ o.version = v /\ o.at = at /\ o.attempt = 0
  BY <1>0 DEF Op, Beginning
<1>. HIDE DEF o
<1>2. CallFits(o, asked, flight)
  BY <1>1, AttemptsAssumption DEF CallFits, Pending, Beginning
<1>3. p = [op EXCEPT ![c] = o]
  BY DEF Begin, o
<1>. HIDE DEF p
<1>4. p \in [Call -> Op] /\ p[c] = o /\ \A d \in Call \ {c} : p[d] = op[d]
  BY <1>1, <1>3 DEF CallsFit
<1>5. CallsFit(p, asked, flight)
  BY <1>2, <1>4, CallReplaced
<1>. QED BY <1>5 DEF p

(* A call that ends.                                                       *)
LEMMA CallEnds ==
    ASSUME NEW asked, NEW flight, CallsFit(op, asked, flight), NEW c \in Call,
           op' = [op EXCEPT ![c] = Idle]
    PROVE  CallsFit(op', asked, flight)
<1>1. CallFits(Idle, asked, flight) /\ Idle \in Op
  BY IdleFits DEF CallFits
<1>2. op' \in [Call -> Op] /\ op'[c] = Idle /\ \A d \in Call \ {c} : op'[d] = op[d]
  BY <1>1 DEF CallsFit
<1>. QED BY <1>1, <1>2, CallReplaced

(* A round commits: a reset is noticed, or the round may still activate.   *)
LEMMA CommitStartsFits ==
    ASSUME NEW asked, NEW flight, CallsFit(op, asked, flight), NEW c \in Call,
           CommitStarts(c)
    PROVE  CallsFit(op', asked, flight)
<1>0. op[c].at = "round" /\ op \in [Call -> Op] /\ CallFits(op[c], asked, flight)
  BY DEF CommitStarts, CallsFit
<1>1. CASE op' = [op EXCEPT ![c] = Idle]
  BY <1>1, CallEnds
<1>2. CASE op' = [op EXCEPT ![c].at = "waiting"]
  <2>1. /\ op' \in [Call -> Op] /\ \A d \in Call \ {c} : op'[d] = op[d]
        /\ op'[c].at = "waiting" /\ op'[c].version = op[c].version
        /\ op'[c].attempt = op[c].attempt /\ op'[c].superseded = op[c].superseded
    BY <1>0, <1>2 DEF Op
  <2>2. CallFits(op'[c], asked, flight)
    BY <1>0, <2>1 DEF CallFits, Pending
  <2>. QED BY <2>1, <2>2, CallReplaced
<1>3. CASE op' = [op EXCEPT ![c].at = "flushing", ![c].version = NoVersion]
  <2>1. /\ op' \in [Call -> Op] /\ \A d \in Call \ {c} : op'[d] = op[d]
        /\ op'[c].at = "flushing"
    <3>1. NoVersion \in MaybeVersion
      BY DEF MaybeVersion
    <3>2. op \in [Call -> Op] /\ op[c] \in Op
      BY <1>0
    <3>. HIDE DEF MaybeVersion
    <3>3. op' \in [Call -> Op]
      BY <1>3, <3>1, <3>2 DEF Op
    <3>4. op'[c].at = "flushing" /\ \A d \in Call \ {c} : op'[d] = op[d]
      BY <1>3, <3>1, <3>2 DEF Op
    <3>. QED BY <3>3, <3>4
  <2>2. CallFits(op'[c], asked, flight)
    BY <1>0, <2>1 DEF CallFits, Pending
  <2>. QED BY <2>1, <2>2, CallReplaced
<1>. QED BY <1>1, <1>2, <1>3 DEF CommitStarts

(* A verification starts while no cleanup runs.                            *)
LEMMA VerifyStartsFits ==
    ASSUME NEW asked, CallsFit(op, asked, CleanupInFlight), NEW c \in Call, VerifyStarts(c)
    PROVE  CallsFit(op', asked, CleanupInFlight)
<1>0. /\ op[c].at = "waiting" /\ op \in [Call -> Op] /\ CleanupInFlight # TRUE
      /\ CallFits(op[c], asked, CleanupInFlight)
      /\ op' = [op EXCEPT ![c].at = "reading", ![c].raced = FALSE, ![c].attempt = @ + 1]
  BY DEF VerifyStarts, CallsFit
<1>1. op[c].attempt + 1 \in 0 .. MaxVerifyAttempts
  BY <1>0, AttemptsAssumption DEF CallFits, Op
<1>2. /\ op' \in [Call -> Op] /\ \A d \in Call \ {c} : op'[d] = op[d]
      /\ op'[c].at = "reading" /\ op'[c].version = op[c].version
      /\ op'[c].superseded = op[c].superseded
  <2>1. op \in [Call -> Op] /\ op[c] \in Op
    BY <1>0
  <2>2. op' \in [Call -> Op]
    BY <1>0, <1>1, <2>1 DEF Op
  <2>3. \A d \in Call \ {c} : op'[d] = op[d]
    BY <1>0, <2>1
  <2>4. /\ op'[c].at = "reading" /\ op'[c].version = op[c].version
        /\ op'[c].superseded = op[c].superseded
    BY <1>0, <2>1 DEF Op
  <2>. QED BY <2>2, <2>3, <2>4
<1>3. CallFits(op'[c], asked, CleanupInFlight)
  BY <1>0, <1>2 DEF CallFits, Pending
<1>. QED BY <1>2, <1>3, CallReplaced

(* A verification reads, and has noticed what it noticed.                  *)
LEMMA VerifyReadsFits ==
    ASSUME NEW asked, NEW flight, CallsFit(op, asked, flight), NEW c \in Call, VerifyReads(c)
    PROVE  CallsFit(op', asked, flight)
<1>0. /\ op[c].at = "reading" /\ op \in [Call -> Op] /\ CallFits(op[c], asked, flight)
      /\ op' = [op EXCEPT ![c].at = "returning", ![c].read = op[c].version \in dirs]
  BY DEF VerifyReads, CallsFit
<1>1. (op[c].version \in dirs) \in BOOLEAN
  OBVIOUS
<1>2. /\ op' \in [Call -> Op] /\ \A d \in Call \ {c} : op'[d] = op[d]
      /\ op'[c].at = "returning" /\ op'[c].version = op[c].version
      /\ op'[c].superseded = op[c].superseded /\ op'[c].raced = op[c].raced
  <2>1. op \in [Call -> Op] /\ op[c] \in Op
    BY <1>0
  <2>2. op' \in [Call -> Op]
    BY <1>0, <1>1, <2>1 DEF Op
  <2>3. \A d \in Call \ {c} : op'[d] = op[d]
    BY <1>0, <2>1
  <2>4. /\ op'[c].at = "returning" /\ op'[c].version = op[c].version
        /\ op'[c].superseded = op[c].superseded /\ op'[c].raced = op[c].raced
    BY <1>0, <2>1 DEF Op
  <2>. QED BY <2>2, <2>3, <2>4
<1>3. CallFits(op'[c], asked, flight)
  BY <1>0, <1>2 DEF CallFits, Pending
<1>. QED BY <1>2, <1>3, CallReplaced

(* A call restarts the app, or takes another attempt while one is left.    *)
LEMMA CallMovesFits ==
    ASSUME NEW asked, NEW flight, CallsFit(op, asked, flight), NEW c \in Call,
           \/ op' = [op EXCEPT ![c].at = "restarting"]
           \/ /\ op' = [op EXCEPT ![c].at = "waiting"]
              /\ op[c].at = "returning" /\ op[c].attempt < MaxVerifyAttempts
    PROVE  CallsFit(op', asked, flight)
<1>0. op \in [Call -> Op] /\ CallFits(op[c], asked, flight)
  BY DEF CallsFit
<1>1. /\ op' \in [Call -> Op] /\ \A d \in Call \ {c} : op'[d] = op[d]
      /\ op'[c].at \in {"restarting", "waiting"} /\ op'[c].version = op[c].version
      /\ op'[c].attempt = op[c].attempt /\ op'[c].superseded = op[c].superseded
      /\ op'[c].at = "waiting" => op[c].at = "returning" /\ op[c].attempt < MaxVerifyAttempts
  BY <1>0 DEF Op
<1>2. CallFits(op'[c], asked, flight)
  BY <1>0, <1>1 DEF CallFits, Pending
<1>. QED BY <1>1, <1>2, CallReplaced

(***************************************************************************)
(* Launches                                                                *)
(***************************************************************************)
(* A launch adds no name, owes nothing, and pays what was owed.            *)
LEMMA ResolvesKeeps ==
    ASSUME ContextInv, ResolvesLaunch
    PROVE  /\ StoreFits(mem') /\ Names' \subseteq Names \cup {NoVersion}
           /\ {mem'.st.current, mem'.st.last} \subseteq {mem.st.current, mem.st.last, NoVersion}
           /\ background' \in BOOLEAN /\ ignoreRollback' \in BOOLEAN
           /\ launchVersion' \in MaybeVersion /\ reported' = Nothing
           /\ reported # Nothing /\ reported \in dirs \cup {NoVersion}
                => mem'.st.current = reported
<1>i. RestFits /\ StoreFits(mem) /\ DebtIsStored /\ Names \subseteq MaybeVersion
  BY InvHas
<1>1. /\ mem.st \in State /\ Coherent(mem.st) /\ mem.marker \in BOOLEAN
      /\ ignoreRollback \in BOOLEAN /\ background \in BOOLEAN
  BY <1>i, StoreHas DEF RestFits
<1>. DEFINE consumed == ConsumedFirstTime(mem.st, ignoreRollback)
            r == Launched(mem.st)
<1>2. consumed \in BOOLEAN
  BY DEF ConsumedFirstTime
<1>3. /\ r \in State /\ Coherent(r)
      /\ {r.current, r.last} \subseteq {mem.st.current, mem.st.last, NoVersion}
      /\ (mem.st.firstTime = TRUE \/ mem.st.current = NoVersion)
            /\ mem.st.current \in dirs \cup {NoVersion} => r.current = mem.st.current
  BY <1>1, LaunchedNames
<1>4. mem' = [st |-> r, marker |-> mem.marker \/ consumed]
  BY DEF ResolvesLaunch, WriteState
<1>5. /\ background' = (background \/ mem' # mem) /\ ignoreRollback' = (ignoreRollback \/ consumed)
      /\ launchVersion' = IF mem'.st.current # NoVersion THEN mem'.st.current ELSE launchVersion
      /\ reported' = Nothing
  BY DEF ResolvesLaunch
<1>. HIDE DEF consumed, r
<1>6. (mem.marker \/ consumed) \in BOOLEAN
  BY <1>1, <1>2
<1>7. StoreFits(mem') /\ mem'.st = r
  BY <1>3, <1>4, <1>6, StoreIs
<1>8. background' \in BOOLEAN /\ ignoreRollback' \in BOOLEAN
  BY <1>1, <1>2, <1>5
<1>9. launchVersion' \in {launchVersion, r.current}
  BY <1>5, <1>7
<1>10. Names' \subseteq Names \cup {NoVersion} /\ launchVersion' \in MaybeVersion
  BY <1>i, <1>3, <1>7, <1>9 DEF Names, MaybeVersion
<1>11. reported # Nothing /\ reported \in dirs \cup {NoVersion} => mem'.st.current = reported
  BY <1>i, <1>3, <1>7 DEF DebtIsStored, Holds
<1>. QED BY <1>3, <1>5, <1>7, <1>8, <1>10, <1>11

(* A launch, and the end of the call that made it, if any.                 *)
LEMMA LaunchKeepsInv ==
    ASSUME ContextInv, ResolvesLaunch,
           UNCHANGED <<build, disk, dirs, alive, running, chain, wanted>>,
           fallbackTimer' \in BOOLEAN,
           op' = op \/ \E c \in Call : op' = [op EXCEPT ![c] = Idle]
    PROVE  ContextInv'
<1>i. /\ RestFits /\ StoreFits(mem) /\ StoreFits(disk)
      /\ CallsFit(op, wanted, CleanupInFlight) /\ TasksFit(Names)
      /\ DeadIsIdle /\ ResetWins /\ DebtIsStored
  BY InvHas
<1>1. /\ StoreFits(mem') /\ Names' \subseteq Names \cup {NoVersion}
      /\ {mem'.st.current, mem'.st.last} \subseteq {mem.st.current, mem.st.last, NoVersion}
      /\ background' \in BOOLEAN /\ ignoreRollback' \in BOOLEAN
      /\ launchVersion' \in MaybeVersion /\ reported' = Nothing
  BY ResolvesKeeps
<1>2. CallsFit(op', wanted', CleanupInFlight')
  BY <1>i, CallEnds DEF CleanupInFlight
<1>3. DeadIsIdle'
  BY <1>i DEF DeadIsIdle, CallsFit
<1>4. TasksFit(Names)'
  BY <1>i, <1>1 DEF TasksFit
<1>5. RestFits' /\ ResetWins' /\ DebtIsStored' /\ StoreFits(disk)'
  BY <1>i, <1>1 DEF RestFits, ResetWins, DebtIsStored
<1>. QED BY <1>1, <1>2, <1>3, <1>4, <1>5 DEF ContextInv

(* getConstants.                                                           *)
LEMMA GetConstantsKeepsInv == ASSUME ContextInv, GetConstants PROVE ContextInv'
<1>i. /\ RestFits /\ StoreFits(mem) /\ StoreFits(disk)
      /\ CallsFit(op, wanted, CleanupInFlight) /\ TasksFit(Names)
      /\ DeadIsIdle /\ ResetWins /\ DebtIsStored
  BY InvHas
<1>1. /\ alive /\ background' = TRUE
      /\ mem' = [st |-> ClearRollbackMark(mem.st), marker |-> FALSE]
      /\ UNCHANGED <<build, disk, dirs, alive, launchVersion, ignoreRollback, fallbackTimer,
                     reported, wanted>>
      /\ Enqueue(Queued("cleanUp"), op) \/ UNCHANGED <<op, running, chain>>
  BY DEF GetConstants, WriteState, process, tasks
<1>2. /\ ClearRollbackMark(mem.st).current = mem.st.current
      /\ ClearRollbackMark(mem.st).last = mem.st.last
      /\ ClearRollbackMark(mem.st).firstTime = mem.st.firstTime
      /\ ClearRollbackMark(mem.st) \in State /\ Coherent(ClearRollbackMark(mem.st))
  BY <1>i, StoreHas, ClearRollbackMarkNames, ClearRollbackMarkCoherent
<1>3. /\ StoreFits(mem') /\ mem'.st.current = mem.st.current /\ mem'.st.last = mem.st.last
      /\ mem'.st.firstTime = mem.st.firstTime
  BY <1>1, <1>2, StoreIs
<1>4. Names' = Names /\ launchVersion \in MaybeVersion
  BY <1>i, <1>1, <1>3 DEF Names, RestFits
<1>5. Queued("cleanUp") \in Doable \ {NoTask}
  BY DEF Queued, Doable, Task, NoTask, MaybeVersion
<1>6. TasksFit(Names)' /\ CallsFit(op', wanted, CleanupInFlight')
  <2>1. CASE UNCHANGED <<op, running, chain>>
    BY <1>i, <1>4, <2>1 DEF TasksFit, CleanupInFlight
  <2>2. CASE Enqueue(Queued("cleanUp"), op)
    BY <1>i, <1>1, <1>3, <1>4, <1>5, <2>2, EnqueueFits
  <2>. QED BY <1>1, <2>1, <2>2
<1>7. RestFits' /\ ResetWins' /\ DebtIsStored' /\ StoreFits(disk)' /\ DeadIsIdle'
  BY <1>i, <1>1, <1>3 DEF RestFits, ResetWins, DebtIsStored, Holds, DeadIsIdle
<1>. QED BY <1>1, <1>3, <1>6, <1>7 DEF ContextInv

(* Both cleanups are tasks.                                                *)
LEMMA QueuedIsDoable ==
    \A kind \in {"cleanUp", "wipe"} : Queued(kind) \in Doable \ {NoTask}
BY DEF Queued, Doable, Task, NoTask, MaybeVersion

(***************************************************************************)
(* Processes                                                               *)
(***************************************************************************)
(* A process starts: it asks for what the disk names.                      *)
LEMMA BootKeepsInv == ASSUME ContextInv, Boot PROVE ContextInv'
<1>i. /\ RestFits /\ StoreFits(mem) /\ StoreFits(disk)
      /\ CallsFit(op, wanted, CleanupInFlight) /\ TasksFit(Names)
      /\ DeadIsIdle /\ ResetWins /\ DebtIsStored
  BY InvHas
<1>0. /\ alive = FALSE /\ alive' = TRUE /\ running = NothingRuns /\ \A c \in Call : op[c] = Idle
      /\ UNCHANGED <<build, disk, dirs, launchVersion, ignoreRollback, fallbackTimer>>
      /\ wanted' = {mem'.st.current, mem'.st.last} \ {NoVersion}
      /\ launchVersion \in MaybeVersion /\ build \in Binary
  BY <1>i DEF Boot, DeadIsIdle, RestFits
<1>w. CallsFit(op, wanted', CleanupInFlight)
  BY <1>0, <1>i, IdleFits DEF CallsFit, CallFits
<1>1. CASE disk.st.binary = build
  <2>1. /\ mem' = disk /\ UNCHANGED <<background, op, running, chain, reported>>
    BY <1>1 DEF Boot, tasks
  <2>2. StoreFits(mem') /\ mem'.st.current \in MaybeVersion /\ mem'.st.last \in MaybeVersion
    BY <1>i, <2>1, StoreHas
  <2>3. TasksFit(Names)' /\ CallsFit(op', wanted', CleanupInFlight')
    BY <1>0, <1>i, <1>w, <2>1, IdleChain DEF TasksFit, CleanupInFlight
  <2>4. RestFits' /\ ResetWins'
    BY <1>0, <1>i, <2>1, <2>2 DEF RestFits, ResetWins, MaybeVersion
  <2>5. DebtIsStored' /\ StoreFits(disk)' /\ DeadIsIdle'
    BY <1>0, <1>i, <2>1 DEF DebtIsStored, Holds, DeadIsIdle
  <2>. QED BY <2>2, <2>3, <2>4, <2>5 DEF ContextInv
<1>2. CASE disk.st.binary # build
  <2>1. /\ mem' = [st |-> SyncBinaryVersion(disk.st, build), marker |-> FALSE]
        /\ background' = TRUE /\ reported' = Nothing /\ Enqueue(Queued("cleanUp"), op)
    BY <1>2 DEF Boot, WriteState
  <2>2. /\ SyncBinaryVersion(disk.st, build) \in State
        /\ Coherent(SyncBinaryVersion(disk.st, build))
    BY <1>0, <1>i, StoreHas, SyncBinaryVersionCoherent
  <2>3. StoreFits(mem')
    BY <2>1, <2>2, StoreIs
  <2>4. mem'.st.current \in MaybeVersion /\ mem'.st.last \in MaybeVersion
    BY <2>3, StoreHas
  <2>5. TasksFit(Names)' /\ CallsFit(op', wanted', CleanupInFlight')
    BY <1>0, <1>i, <1>w, <2>1, <2>3, QueuedIsDoable, EnqueueFits
  <2>6. RestFits' /\ ResetWins'
    BY <1>0, <1>i, <2>1, <2>4 DEF RestFits, ResetWins, MaybeVersion
  <2>7. DebtIsStored' /\ StoreFits(disk)' /\ DeadIsIdle'
    BY <1>0, <1>i, <2>1 DEF DebtIsStored, DeadIsIdle
  <2>. QED BY <2>3, <2>5, <2>6, <2>7 DEF ContextInv
<1>. QED BY <1>1, <1>2

(* A process ends, and with it whatever was awaited.                       *)
LEMMA GoneKeepsInv == ASSUME ContextInv, Gone PROVE ContextInv'
<1>i. /\ RestFits /\ StoreFits(mem) /\ StoreFits(disk)
      /\ CallsFit(op, wanted, CleanupInFlight) /\ TasksFit(Names)
      /\ DeadIsIdle /\ ResetWins /\ DebtIsStored
  BY InvHas
<1>1. /\ alive' = FALSE /\ launchVersion' = NoVersion /\ ignoreRollback' = FALSE
      /\ fallbackTimer' = FALSE /\ mem' = disk /\ background' = FALSE
      /\ op' = [c \in Call |-> Idle] /\ running' = NothingRuns /\ chain' = <<>> /\ wanted' = {}
      /\ UNCHANGED <<build, disk, dirs, reported>>
  BY DEF Gone
<1>2. CallsFit(op', wanted', CleanupInFlight')
  <2>1. \A c \in Call : CallFits(op'[c], wanted', CleanupInFlight') /\ op'[c] \in Op
    BY <1>1, IdleFits DEF CallFits
  <2>. QED BY <1>1, <2>1 DEF CallsFit
<1>3. TasksFit(Names)'
  <2>1. <<>> \in Seq(Doable \ {NoTask}) /\ Len(<<>>) = 0 /\ 0 <= MaxTasks
    BY OpsAssumption
  <2>. QED BY <1>1, <2>1, IdleChain DEF TasksFit
<1>4. RestFits' /\ DeadIsIdle' /\ ResetWins' /\ DebtIsStored'
  BY <1>i, <1>1 DEF RestFits, DeadIsIdle, ResetWins, DebtIsStored, MaybeVersion, Holds
<1>5. StoreFits(mem)' /\ StoreFits(disk)'
  BY <1>i, <1>1
<1>. QED BY <1>2, <1>3, <1>4, <1>5 DEF ContextInv

(* Another binary is installed.                                            *)
LEMMA UpgradeKeepsInv == ASSUME ContextInv, Upgrade PROVE ContextInv'
<1>i. /\ RestFits /\ StoreFits(mem) /\ StoreFits(disk)
      /\ CallsFit(op, wanted, CleanupInFlight) /\ TasksFit(Names)
      /\ DeadIsIdle /\ ResetWins /\ DebtIsStored
  BY InvHas
<1>1. /\ build' \in Binary
      /\ UNCHANGED <<mem, disk, background, dirs, alive, launchVersion, ignoreRollback,
                     fallbackTimer, op, running, chain, reported, wanted>>
  BY DEF Upgrade, stores, process, tasks
<1>. QED
  BY <1>i, <1>1
     DEF ContextInv, RestFits, CallsFit, TasksFit, Names, DeadIsIdle, ResetWins, DebtIsStored,
         CleanupInFlight, Holds

(***************************************************************************)
(* Calls                                                                   *)
(***************************************************************************)
(* A download is queued.                                                   *)
LEMMA DownloadKeepsInv == ASSUME ContextInv, NEW v \in Version, Download(v) PROVE ContextInv'
<1>i. /\ RestFits /\ StoreFits(mem) /\ StoreFits(disk)
      /\ CallsFit(op, wanted, CleanupInFlight) /\ TasksFit(Names)
      /\ DeadIsIdle /\ ResetWins /\ DebtIsStored
  BY InvHas
<1>. DEFINE task == [kind |-> "install", version |-> v]
<1>1. /\ alive = TRUE /\ Enqueue(task, op)
      /\ UNCHANGED <<build, mem, disk, background, dirs, alive, launchVersion, ignoreRollback,
                     fallbackTimer, reported, wanted>>
  BY <1>i DEF Download, stores, process, RestFits
<1>2. task \in Doable \ {NoTask}
  BY DEF Doable, Task, NoTask, MaybeVersion
<1>3. Names' = Names /\ launchVersion \in MaybeVersion /\ StoreFits(mem)'
  BY <1>i, <1>1 DEF Names, RestFits
<1>. HIDE DEF task
<1>4. TasksFit(Names)' /\ CallsFit(op', wanted, CleanupInFlight')
  BY <1>i, <1>1, <1>2, <1>3, EnqueueFits
<1>5. RestFits' /\ ResetWins' /\ DebtIsStored' /\ StoreFits(disk)' /\ DeadIsIdle'
  BY <1>i, <1>1 DEF RestFits, ResetWins, DebtIsStored, DeadIsIdle, Holds
<1>. QED BY <1>1, <1>3, <1>4, <1>5 DEF ContextInv

(* A call that only begins.                                                *)
LEMMA BeginKeepsInv ==
    ASSUME ContextInv, alive, CallsFit(op', wanted', CleanupInFlight),
           UNCHANGED <<build, mem, disk, dirs, alive, launchVersion, ignoreRollback,
                       fallbackTimer, running, chain, reported>>,
           background' \in BOOLEAN, wanted \subseteq wanted', wanted' \subseteq Version
    PROVE  ContextInv'
<1>i. /\ RestFits /\ StoreFits(mem) /\ StoreFits(disk)
      /\ CallsFit(op, wanted, CleanupInFlight) /\ TasksFit(Names)
      /\ DeadIsIdle /\ ResetWins /\ DebtIsStored
  BY InvHas
<1>1. alive = TRUE
  BY <1>i DEF RestFits
<1>. QED
  BY <1>i, <1>1
     DEF ContextInv, RestFits, TasksFit, Names, DeadIsIdle, ResetWins, DebtIsStored, Holds,
         CleanupInFlight

(* A switch or a round begins, and asks for its version.                   *)
LEMMA CallsBegin ==
    ASSUME ContextInv, NEW c \in Call, NEW v \in Version,
           CallSwitch(c, v) \/ StartRound(c, v)
    PROVE  ContextInv'
<1>i. /\ RestFits /\ StoreFits(mem) /\ StoreFits(disk)
      /\ CallsFit(op, wanted, CleanupInFlight) /\ TasksFit(Names)
      /\ DeadIsIdle /\ ResetWins /\ DebtIsStored
  BY InvHas
<1>. DEFINE more == wanted \cup {v}
<1>1. /\ alive /\ \/ /\ \E kind \in {"setNeedUpdate", "reloadUpdate"} :
                           op' = Begin(c, kind, v, "waiting")
                     /\ wanted' = more
                  \/ op' = Begin(c, "commit", v, "round") /\ wanted' = more
      /\ UNCHANGED <<build, mem, disk, background, dirs, alive, launchVersion, ignoreRollback,
                     fallbackTimer, running, chain, reported>>
  BY DEF CallSwitch, StartRound, Accepts, stores, process, tasks
<1>2. wanted \subseteq wanted' /\ wanted' \subseteq Version /\ background' \in BOOLEAN
  BY <1>i, <1>1 DEF RestFits
<1>3. CallsFit(op, wanted', CleanupInFlight) /\ op \in [Call -> Op]
  BY <1>i, <1>2 DEF CallsFit, CallFits
<1>4. CallsFit(op', wanted', CleanupInFlight)
  <2>0. v \in MaybeVersion /\ NoVersion \in MaybeVersion
    BY DEF MaybeVersion
  <2>1. PICK kind, u, at : op' = Begin(c, kind, u, at) /\ Beginning(kind, u, at, wanted')
    <3>1. CASE \E kind \in {"setNeedUpdate", "reloadUpdate"} : op' = Begin(c, kind, v, "waiting")
      BY <1>1, <2>0, <3>1 DEF Beginning
    <3>. QED BY <1>1, <2>0, <3>1 DEF Beginning
  <2>. QED BY <1>3, <2>1, BegunFits
<1>. QED BY <1>1, <1>2, <1>4, BeginKeepsInv

(* A restart begins.                                                       *)
LEMMA RestartBegins == ASSUME ContextInv, NEW c \in Call, CallRestart(c) PROVE ContextInv'
<1>i. CallsFit(op, wanted, CleanupInFlight) /\ RestFits
  BY InvHas
<1>1. /\ alive /\ op' = Begin(c, "restartApp", NoVersion, "restarting")
      /\ UNCHANGED <<build, mem, disk, background, dirs, alive, launchVersion, ignoreRollback,
                     fallbackTimer, running, chain, reported, wanted>>
  BY DEF CallRestart, Accepts, stores, process, tasks
<1>2. Beginning("restartApp", NoVersion, "restarting", wanted)
  BY DEF Beginning, MaybeVersion
<1>3. CallsFit(op', wanted', CleanupInFlight)
  BY <1>1, <1>2, <1>i, BegunFits
<1>4. background' \in BOOLEAN /\ wanted \subseteq wanted' /\ wanted' \subseteq Version
  BY <1>1, <1>i DEF RestFits
<1>. QED BY <1>1, <1>3, <1>4, BeginKeepsInv

(* A key or a configuration is set, which a round may have to notice.      *)
LEMMA SetKvKeepsInv ==
    ASSUME ContextInv, NEW supersedes \in BOOLEAN, CallSetKv(supersedes) PROVE ContextInv'
<1>i. /\ RestFits /\ StoreFits(mem) /\ StoreFits(disk)
      /\ CallsFit(op, wanted, CleanupInFlight) /\ TasksFit(Names)
      /\ DeadIsIdle /\ ResetWins /\ DebtIsStored
  BY InvHas
<1>1. /\ alive /\ op' \in {op, Supersede(op)} /\ background' = TRUE
      /\ UNCHANGED <<build, mem, disk, dirs, alive, launchVersion, ignoreRollback, fallbackTimer,
                     running, chain, reported, wanted>>
  BY DEF CallSetKv, tasks
<1>2. CallsFit(op', wanted', CleanupInFlight)
  BY <1>i, <1>1, SupersedeFits
<1>3. wanted \subseteq wanted' /\ wanted' \subseteq Version
  BY <1>i, <1>1 DEF RestFits
<1>. QED BY <1>1, <1>2, <1>3, BeginKeepsInv

(* A bundle is confirmed.                                                  *)
LEMMA MarkSuccessKeepsInv ==
    ASSUME ContextInv, NEW c \in Call, CallMarkSuccess(c) PROVE ContextInv'
<1>i. /\ RestFits /\ StoreFits(mem) /\ StoreFits(disk)
      /\ CallsFit(op, wanted, CleanupInFlight) /\ TasksFit(Names)
      /\ DeadIsIdle /\ ResetWins /\ DebtIsStored
  BY InvHas
<1>. DEFINE begun == Begin(c, "markSuccess", NoVersion, "flushing")
<1>1. /\ alive /\ mem' = [st |-> MarkSuccess(mem.st), marker |-> mem.marker]
      /\ Enqueue(Queued("cleanUp"), begun) /\ reported' = Nothing
      /\ UNCHANGED <<build, disk, background, dirs, alive, launchVersion, ignoreRollback,
                     fallbackTimer, wanted>>
  BY DEF CallMarkSuccess, Accepts, WriteState, process
<1>2. /\ MarkSuccess(mem.st) \in State /\ Coherent(MarkSuccess(mem.st)) /\ mem.marker \in BOOLEAN
      /\ {MarkSuccess(mem.st).current, MarkSuccess(mem.st).last} \subseteq
            {mem.st.current, mem.st.last, NoVersion}
  BY <1>i, StoreHas, MarkSuccessCoherent, MarkSuccessNames
<1>3. /\ StoreFits(mem')
      /\ {mem'.st.current, mem'.st.last} \subseteq {mem.st.current, mem.st.last, NoVersion}
  BY <1>1, <1>2, StoreIs
<1>4. /\ Names' \subseteq Names \cup {NoVersion} /\ launchVersion \in MaybeVersion /\ alive = TRUE
  BY <1>i, <1>1, <1>3 DEF Names, RestFits
<1>5. CallsFit(begun, wanted, CleanupInFlight)
  <2>1. Beginning("markSuccess", NoVersion, "flushing", wanted)
    BY DEF Beginning, MaybeVersion
  <2>. QED BY <1>i, <2>1, BegunFits
<1>. HIDE DEF begun
<1>6. TasksFit(Names)' /\ CallsFit(op', wanted, CleanupInFlight')
  BY <1>i, <1>1, <1>3, <1>4, <1>5, QueuedIsDoable, EnqueueFits
<1>7. RestFits' /\ ResetWins' /\ DebtIsStored' /\ StoreFits(disk)' /\ DeadIsIdle'
  BY <1>i, <1>1, <1>3, <1>4 DEF RestFits, ResetWins, DebtIsStored, DeadIsIdle
<1>. QED BY <1>1, <1>3, <1>6, <1>7 DEF ContextInv

(* A reset: nothing is asked for any more, and all that is pending notices.*)
LEMMA ResetKeepsInv == ASSUME ContextInv, NEW c \in Call, CallReset(c) PROVE ContextInv'
<1>i. /\ RestFits /\ StoreFits(mem) /\ StoreFits(disk)
      /\ CallsFit(op, wanted, CleanupInFlight) /\ TasksFit(Names)
      /\ DeadIsIdle /\ ResetWins /\ DebtIsStored
  BY InvHas
<1>. DEFINE begun == Begin(c, "reset", NoVersion, "flushing")
<1>1. /\ alive /\ mem' = [st |-> FreshState(build), marker |-> FALSE]
      /\ ignoreRollback' = FALSE /\ op' = Supersede(begun) /\ reported' = Nothing /\ wanted' = {}
      /\ UNCHANGED <<build, disk, background, dirs, alive, launchVersion, fallbackTimer, running,
                     chain>>
  BY DEF CallReset, Accepts, WriteState, tasks
<1>2. /\ FreshState(build) \in State /\ Coherent(FreshState(build)) /\ alive = TRUE
  BY <1>i, <1>1, FreshStateCoherent DEF RestFits
<1>3. StoreFits(mem') /\ mem'.st.current = NoVersion /\ mem'.st.last = NoVersion
  BY <1>1, <1>2, FreshNames, StoreIs
<1>5. CallsFit(begun, wanted, CleanupInFlight)
  <2>1. Beginning("reset", NoVersion, "flushing", wanted)
    BY DEF Beginning, MaybeVersion
  <2>. QED BY <1>i, <2>1, BegunFits
<1>. HIDE DEF begun
<1>6. CallsFit(op', wanted', CleanupInFlight')
  <2>1. CleanupInFlight' = CleanupInFlight
    BY <1>1 DEF CleanupInFlight
  <2>. QED BY <1>1, <1>5, <2>1, SupersedeFits
<1>7. TasksFit(Names)'
  BY <1>i, <1>1, <1>3 DEF TasksFit, Names
<1>8. RestFits' /\ ResetWins' /\ DebtIsStored' /\ StoreFits(disk)' /\ DeadIsIdle'
  BY <1>i, <1>1, <1>2, <1>3 DEF RestFits, ResetWins, DebtIsStored, DeadIsIdle
<1>. QED BY <1>1, <1>3, <1>6, <1>7, <1>8 DEF ContextInv

(***************************************************************************)
(* Verification                                                            *)
(***************************************************************************)
(* Whoever awaits something, the process runs.                             *)
LEMMA AwaitingIsAlive ==
    ASSUME ContextInv, NEW c \in Call, op[c].at # "idle"
    PROVE  alive = TRUE
<1>1. op[c] # Idle
  BY DEF Idle
<1>. QED BY <1>1, InvHas DEF DeadIsIdle, RestFits

(* The sections before the answer of a verification.                       *)
LEMMA VerificationKeepsInv ==
    ASSUME ContextInv, NEW c \in Call, CommitStarts(c) \/ VerifyStarts(c) \/ VerifyReads(c)
    PROVE  ContextInv'
<1>i. CallsFit(op, wanted, CleanupInFlight) /\ RestFits
  BY InvHas
<1>1. /\ UNCHANGED <<build, mem, disk, background, dirs, alive, launchVersion, ignoreRollback,
                     fallbackTimer, running, chain, reported, wanted>>
      /\ op[c].at # "idle"
  BY DEF CommitStarts, VerifyStarts, VerifyReads, OpUnchanged, stores, process, tasks
<1>2. CallsFit(op', wanted', CleanupInFlight)
  BY <1>i, <1>1, CommitStartsFits, VerifyStartsFits, VerifyReadsFits
<1>3. alive = TRUE
  BY <1>1, AwaitingIsAlive
<1>4. background' \in BOOLEAN /\ wanted \subseteq wanted' /\ wanted' \subseteq Version
  BY <1>i, <1>1 DEF RestFits
<1>. QED BY <1>1, <1>2, <1>3, <1>4, BeginKeepsInv

(* An activation that goes through: the version was asked for since the    *)
(* last reset, for no reset was noticed, and no cleanup runs, for none     *)
(* was noticed either.                                                     *)
LEMMA ActivationKeepsInv ==
    ASSUME ContextInv, NEW c \in Call, op[c].at = "returning",
           ~Raced(op[c]), ~Outdated(op[c]),
           WriteState(SwitchVersion(mem.st, op[c].version), mem.marker),
           ignoreRollback' = FALSE,
           op' = Begin(c, op[c].kind, op[c].version, "flushing"),
           reported' = Nothing,
           UNCHANGED <<build, disk, background, dirs, alive, launchVersion, fallbackTimer,
                       running, chain, wanted>>
    PROVE  ContextInv'
<1>i. /\ RestFits /\ StoreFits(mem) /\ StoreFits(disk)
      /\ CallsFit(op, wanted, CleanupInFlight) /\ TasksFit(Names)
      /\ DeadIsIdle /\ ResetWins /\ DebtIsStored
  BY InvHas
<1>. DEFINE v == op[c].version
            r == SwitchVersion(mem.st, v)
<1>1. /\ v \in Version /\ v \in wanted /\ CleanupInFlight # TRUE
      /\ Beginning(op[c].kind, v, "flushing", wanted)
  BY <1>i DEF CallsFit, CallFits, Pending, Raced, Outdated, Op, Beginning, MaybeVersion
<1>2. r \in State /\ Coherent(r) /\ {r.current, r.last} \subseteq {v, mem.st.current, mem.st.last}
  BY <1>1, <1>i, StoreHas, SwitchVersionCoherent, SwitchNames
<1>3. mem' = [st |-> r, marker |-> mem.marker] /\ mem.marker \in BOOLEAN
  BY <1>i, StoreHas DEF WriteState
<1>4. CallsFit(op', wanted, CleanupInFlight)
  BY <1>1, <1>i, BegunFits
<1>. HIDE DEF v, r
<1>5. StoreFits(mem') /\ {mem'.st.current, mem'.st.last} \subseteq {v, mem.st.current, mem.st.last}
  BY <1>2, <1>3, StoreIs
<1>6. alive = TRUE
  BY AwaitingIsAlive
<1>7. TasksFit(Names)'
  BY <1>1, <1>i DEF TasksFit, CleanupInFlight, IsCleanup
<1>8. CallsFit(op, wanted, CleanupInFlight)' /\ StoreFits(mem)' /\ StoreFits(disk)'
  BY <1>4, <1>5, <1>i DEF CleanupInFlight
<1>9. RestFits' /\ ResetWins' /\ DebtIsStored' /\ DeadIsIdle'
  BY <1>1, <1>5, <1>6, <1>i DEF RestFits, ResetWins, DebtIsStored, DeadIsIdle
<1>. QED BY <1>7, <1>8, <1>9 DEF ContextInv

(* The answer of a verification: another attempt, the end, or the switch.  *)
LEMMA VerifyReturnsKeepsInv ==
    ASSUME ContextInv, NEW c \in Call, VerifyReturns(c) PROVE ContextInv'
<1>i. CallsFit(op, wanted, CleanupInFlight) /\ RestFits
  BY InvHas
<1>0. /\ op[c].at = "returning"
      /\ UNCHANGED <<build, disk, background, dirs, alive, launchVersion, fallbackTimer,
                     running, chain, wanted>>
  BY DEF VerifyReturns, OpUnchanged, tasks
<1>1. ASSUME UNCHANGED <<mem, ignoreRollback, reported>>,
             \/ op' = [op EXCEPT ![c].at = "waiting"] /\ op[c].attempt < MaxVerifyAttempts
             \/ op' = [op EXCEPT ![c] = Idle]
      PROVE  ContextInv'
  <2>1. CallsFit(op', wanted', CleanupInFlight)
    BY <1>0, <1>1, <1>i, CallMovesFits, CallEnds
  <2>2. alive = TRUE
    BY <1>0, AwaitingIsAlive
  <2>3. background' \in BOOLEAN /\ wanted \subseteq wanted' /\ wanted' \subseteq Version
    BY <1>0, <1>i DEF RestFits
  <2>. QED BY <1>0, <1>1, <2>1, <2>2, <2>3, BeginKeepsInv
<1>2. CASE /\ op[c].read /\ Raced(op[c]) /\ MayRetry(op[c])
           /\ op' = [op EXCEPT ![c].at = "waiting"]
           /\ UNCHANGED <<mem, ignoreRollback, reported>>
  BY <1>1, <1>2 DEF MayRetry
<1>3. CASE op' = [op EXCEPT ![c] = Idle] /\ UNCHANGED <<mem, ignoreRollback, reported>>
  BY <1>1, <1>3
<1>4. CASE /\ op[c].read /\ ~Raced(op[c]) /\ ~Outdated(op[c])
           /\ WriteState(SwitchVersion(mem.st, op[c].version), mem.marker)
           /\ ignoreRollback' = FALSE
           /\ op' = Begin(c, op[c].kind, op[c].version, "flushing")
           /\ reported' = Nothing
  BY <1>0, <1>4, ActivationKeepsInv
<1>. QED BY <1>2, <1>3, <1>4 DEF VerifyReturns

(***************************************************************************)
(* Flushes                                                                 *)
(***************************************************************************)
(* What a call that succeeds owes, memory names: the flush put it on disk. *)
LEMMA OwedHolds ==
    ASSUME ContextInv, NEW c \in Call
    PROVE  /\ Owed(c) \in MaybeVersion \cup {Nothing}
           /\ Owed(c) # Nothing => Holds(mem, Owed(c))
<1>1. op[c].version \in MaybeVersion /\ reported \in MaybeVersion \cup {Nothing}
  BY InvHas DEF CallsFit, CallFits, Op, RestFits
<1>2. mem.st.firstTime \in BOOLEAN
  BY InvHas, StoreHas
<1>3. reported # Nothing => Holds(mem, reported)
  BY InvHas DEF DebtIsStored
<1>. QED BY <1>1, <1>2, <1>3 DEF Owed, Holds

(* A flush: memory stays, the disk holds what it held or what memory has.  *)
LEMMA FlushKeepsInv ==
    ASSUME ContextInv, disk' \in {mem, disk}, alive = TRUE,
           UNCHANGED <<build, mem, dirs, alive, launchVersion, ignoreRollback, fallbackTimer,
                       wanted>>,
           background' \in BOOLEAN, TasksFit(Names)', CallsFit(op', wanted, CleanupInFlight'),
           reported' \in MaybeVersion \cup {Nothing},
           \/ reported' = reported
           \/ disk' = mem /\ (reported' # Nothing => Holds(mem, reported'))
    PROVE  ContextInv'
<1>i. /\ RestFits /\ StoreFits(mem) /\ StoreFits(disk)
      /\ DeadIsIdle /\ ResetWins /\ DebtIsStored
  BY InvHas
<1>1. StoreFits(mem)' /\ StoreFits(disk)' /\ CallsFit(op, wanted, CleanupInFlight)'
  BY <1>i
<1>2. DebtIsStored'
  <2>1. CASE reported' = reported
    <3>1. reported # Nothing => Holds(mem, reported) /\ Holds(disk, reported)
      BY <1>i DEF DebtIsStored
    <3>. QED BY <2>1, <3>1 DEF DebtIsStored
  <2>2. CASE disk' = mem /\ (reported' # Nothing => Holds(mem, reported'))
    BY <2>2 DEF DebtIsStored
  <2>. QED BY <2>1, <2>2
<1>3. RestFits' /\ ResetWins' /\ DeadIsIdle'
  BY <1>i DEF RestFits, ResetWins, DeadIsIdle
<1>. QED BY <1>1, <1>2, <1>3 DEF ContextInv

(* A flush succeeds, and the call is told.                                 *)
LEMMA FlushEndsKeepsInv == ASSUME ContextInv, NEW c \in Call, FlushEnds(c) PROVE ContextInv'
<1>i. /\ CallsFit(op, wanted, CleanupInFlight) /\ TasksFit(Names) /\ RestFits /\ StoreFits(mem)
  BY InvHas
<1>0. /\ disk' = mem /\ reported' = Owed(c) /\ op[c].at = "flushing"
      /\ UNCHANGED <<build, mem, background, dirs, alive, launchVersion, ignoreRollback,
                     fallbackTimer, wanted>>
  BY DEF FlushEnds, Succeeds, process
<1>1. Names' = Names /\ launchVersion \in MaybeVersion /\ StoreFits(mem)' /\ background' \in BOOLEAN
  BY <1>0, <1>i DEF Names, RestFits
<1>2. TasksFit(Names)' /\ CallsFit(op', wanted, CleanupInFlight')
  <2>1. CASE UNCHANGED tasks /\ op' = [op EXCEPT ![c].at = "restarting"]
    BY <1>1, <1>i, <2>1, CallMovesFits DEF TasksFit, tasks, CleanupInFlight
  <2>2. CASE UNCHANGED tasks /\ op' = [op EXCEPT ![c] = Idle]
    BY <1>1, <1>i, <2>2, CallEnds DEF TasksFit, tasks, CleanupInFlight
  <2>3. CASE Enqueue(Queued("wipe"), [op EXCEPT ![c] = Idle])
    <3>. DEFINE o == [op EXCEPT ![c] = Idle]
    <3>1. o \in [Call -> Op] /\ CallFits(o[c], wanted, CleanupInFlight)
          /\ \A d \in Call \ {c} : o[d] = op[d]
      BY <1>i, IdleFits DEF CallsFit, CallFits
    <3>. HIDE DEF o
    <3>2. CallsFit(o, wanted, CleanupInFlight)
      BY <1>i, <3>1, CallReplaced
    <3>3. Enqueue(Queued("wipe"), o)
      BY <2>3 DEF o
    <3>. QED BY <1>0, <1>1, <1>i, <3>2, <3>3, QueuedIsDoable, EnqueueFits
  <2>. QED BY <2>1, <2>2, <2>3 DEF FlushEnds
<1>3. alive = TRUE
  BY <1>0, AwaitingIsAlive
<1>4. /\ reported' \in MaybeVersion \cup {Nothing}
      /\ reported' # Nothing => Holds(mem, reported')
  BY <1>0, OwedHolds
<1>. QED BY <1>0, <1>1, <1>2, <1>3, <1>4, FlushKeepsInv

(* A flush fails, and the call is told.                                    *)
LEMMA FlushFailsKeepsInv == ASSUME ContextInv, NEW c \in Call, FlushFails(c) PROVE ContextInv'
<1>i. /\ CallsFit(op, wanted, CleanupInFlight) /\ TasksFit(Names) /\ RestFits
  BY InvHas
<1>0. /\ disk' \in {mem, disk} /\ op[c].at = "flushing" /\ op' = [op EXCEPT ![c] = Idle]
      /\ UNCHANGED <<build, mem, background, dirs, alive, launchVersion, ignoreRollback,
                     fallbackTimer, wanted, running, chain, reported>>
  BY DEF FlushFails, OpUnchanged, process, tasks
<1>1. TasksFit(Names)' /\ CallsFit(op', wanted, CleanupInFlight')
  BY <1>0, <1>i, CallEnds DEF TasksFit, Names, CleanupInFlight
<1>2. alive = TRUE
  BY <1>0, AwaitingIsAlive
<1>3. background' \in BOOLEAN /\ reported' \in MaybeVersion \cup {Nothing}
  BY <1>0, <1>i DEF RestFits
<1>. QED BY <1>0, <1>1, <1>2, <1>3, FlushKeepsInv

(* A flush that nobody awaits ends; the process may end first.             *)
LEMMA BackgroundFlushKeepsInv == ASSUME ContextInv, BackgroundFlushEnds PROVE ContextInv'
<1>i. /\ RestFits /\ StoreFits(mem) /\ StoreFits(disk)
      /\ CallsFit(op, wanted, CleanupInFlight) /\ TasksFit(Names)
      /\ DeadIsIdle /\ ResetWins /\ DebtIsStored
  BY InvHas
<1>0. /\ disk' \in {mem, disk} /\ background' = FALSE
      /\ UNCHANGED <<build, mem, dirs, alive, launchVersion, ignoreRollback,
                     fallbackTimer, wanted, running, chain, op, reported>>
  BY DEF BackgroundFlushEnds, OpUnchanged, process, tasks
<1>. QED
  BY <1>0, <1>i
     DEF ContextInv, RestFits, CallsFit, TasksFit, Names, DeadIsIdle, ResetWins, DebtIsStored,
         CleanupInFlight, Holds

(* A restart that did nothing leaves a timer.                              *)
LEMMA RestartSuppressedKeepsInv ==
    ASSUME ContextInv, NEW c \in Call, RestartSuppressed(c) PROVE ContextInv'
<1>i. /\ CallsFit(op, wanted, CleanupInFlight) /\ RestFits /\ StoreFits(mem) /\ StoreFits(disk)
      /\ TasksFit(Names) /\ DeadIsIdle /\ ResetWins /\ DebtIsStored
  BY InvHas
<1>0. /\ op[c].at = "restarting" /\ op' = [op EXCEPT ![c] = Idle] /\ fallbackTimer' = TRUE
      /\ UNCHANGED <<build, mem, disk, background, dirs, alive, launchVersion, ignoreRollback,
                     wanted, running, chain, reported>>
  BY DEF RestartSuppressed, OpUnchanged, stores, tasks
<1>1. CallsFit(op', wanted, CleanupInFlight)
  BY <1>0, <1>i, CallEnds
<1>2. alive = TRUE
  BY <1>0, AwaitingIsAlive
<1>. QED
  BY <1>0, <1>1, <1>2, <1>i
     DEF ContextInv, RestFits, TasksFit, Names, DeadIsIdle, ResetWins, DebtIsStored,
         CleanupInFlight, Holds

(***************************************************************************)
(* The steps                                                               *)
(***************************************************************************)
(* The launches.                                                           *)
LEMMA LaunchesKeepInv == ASSUME ContextInv, Launches PROVE ContextInv'
<1>i. RestFits
  BY InvHas
<1>1. CASE GetBundleUrl
  BY <1>1, <1>i, LaunchKeepsInv DEF GetBundleUrl, tasks, RestFits
<1>2. CASE FallbackFires
  BY <1>2, <1>i, LaunchKeepsInv DEF FallbackFires, SoftRestart, tasks
<1>3. CASE \E c \in Call : RestartRefused(c)
  BY <1>3, <1>i, LaunchKeepsInv DEF RestartRefused, SoftRestart, tasks, RestFits
<1>. QED BY <1>1, <1>2, <1>3 DEF Launches

(* The calls.                                                              *)
LEMMA CallsKeepInv == ASSUME ContextInv, ContextCalls PROVE ContextInv'
<1>1. ASSUME NEW c \in Call, NEW v \in Version, CallSwitch(c, v) \/ StartRound(c, v)
      PROVE  ContextInv'
  BY <1>1, CallsBegin
<1>2. ASSUME NEW c \in Call, CallRestart(c)
      PROVE  ContextInv'
  BY <1>2, RestartBegins
<1>. QED BY <1>1, <1>2, MarkSuccessKeepsInv, ResetKeepsInv DEF ContextCalls

(* What calls await.                                                       *)
LEMMA AnswersKeepInv == ASSUME ContextInv, ContextAnswers PROVE ContextInv'
<1>1. ASSUME NEW c \in Call, RestartsProcess(c)
      PROVE  ContextInv'
  BY <1>1, GoneKeepsInv DEF RestartsProcess
<1>2. ASSUME NEW c \in Call, RestartRefused(c)
      PROVE  ContextInv'
  BY <1>2, LaunchesKeepInv DEF Launches
<1>. QED
  BY <1>1, <1>2, VerificationKeepsInv, VerifyReturnsKeepsInv, FlushEndsKeepsInv,
     FlushFailsKeepsInv, RestartSuppressedKeepsInv
     DEF ContextAnswers

(* Every step keeps the invariant.                                         *)
LEMMA ContextStepInv == ContextInv /\ [ContextNext]_contextVars => ContextInv'
<1>. SUFFICES ASSUME ContextInv, [ContextNext]_contextVars PROVE ContextInv'
  OBVIOUS
<1>1. CASE UNCHANGED contextVars
  BY <1>1
     DEF contextVars, stores, process, tasks, ContextInv, RestFits, CallsFit, TasksFit, Names,
         DeadIsIdle, ResetWins, DebtIsStored, CleanupInFlight, Holds
<1>2. CASE ContextCalls \/ ContextAnswers \/ ContextTasks
  BY <1>2, CallsKeepInv, AnswersKeepInv, TaskKeepsInv
<1>3. CASE \E v \in Version : Download(v)
  BY <1>3, DownloadKeepsInv
<1>4. CASE \E supersedes \in BOOLEAN : CallSetKv(supersedes)
  BY <1>4, SetKvKeepsInv
<1>5. CASE GetBundleUrl \/ FallbackFires
  BY <1>5, LaunchesKeepInv DEF Launches
<1>6. CASE Die
  BY <1>6, GoneKeepsInv DEF Die
<1>. QED
  BY <1>1, <1>2, <1>3, <1>4, <1>5, <1>6, GetConstantsKeepsInv, BootKeepsInv, UpgradeKeepsInv,
     BackgroundFlushKeepsInv
     DEF ContextNext

(***************************************************************************)
(* The theorems                                                            *)
(***************************************************************************)
(* The invariant holds in every behaviour of UpdateContext.ts.             *)
THEOREM ContextInvariant == ContextSpec => []ContextInv
BY ContextInitInv, ContextStepInv, PTL DEF ContextSpec

(* Every variable of the context keeps its type.                           *)
THEOREM ContextTypeCorrect == ContextSpec => []ContextTypeOK
<1>1. ContextInv => ContextTypeOK
  <2>. SUFFICES ASSUME ContextInv PROVE ContextTypeOK
    OBVIOUS
  <2>1. RestFits /\ mem \in Store /\ disk \in Store /\ op \in [Call -> Op] /\ TasksFit(Names)
    BY InvHas DEF StoreFits, CallsFit
  <2>2. running \in [task : Task, keep : SUBSET Version] /\ Len(chain) <= MaxTasks
    BY <2>1 DEF TasksFit, Doable
  <2>3. chain \in Seq(Task \ {NoTask})
    <3>1. chain \in Seq(Doable \ {NoTask})
      BY <2>1 DEF TasksFit
    <3>2. Doable \ {NoTask} \subseteq Task \ {NoTask}
      BY DEF Doable
    <3>. QED BY <3>1, <3>2
  <2>. QED BY <2>1, <2>2, <2>3 DEF ContextTypeOK, RestFits
<1>. QED BY <1>1, ContextInvariant, PTL

(* What resetToPackagedBundle revoked stays out of memory, however long a  *)
(* verification or a round begun before it takes.                          *)
THEOREM ResetAlwaysWins == ContextSpec => []ResetWins
<1>1. ContextInv => ResetWins
  BY DEF ContextInv
<1>. QED BY <1>1, ContextInvariant, PTL

(* Only a cleanup deletes a directory.                                     *)
LEMMA OnlyCleanupsDelete ==
    ASSUME ContextInv, [ContextNext]_contextVars
    PROVE  \/ dirs \subseteq dirs'
           \/ \E v \in Version \ running.keep : dirs' = dirs \ {v}
<1>1. CASE UNCHANGED contextVars
  BY <1>1 DEF contextVars
<1>2. CASE ContextCalls
  BY <1>2 DEF ContextCalls, CallSwitch, StartRound, CallRestart, CallMarkSuccess, CallReset
<1>3. CASE ContextAnswers
  BY <1>3
     DEF ContextAnswers, CommitStarts, VerifyStarts, VerifyReads, VerifyReturns, FlushEnds,
         FlushFails, RestartsProcess, RestartRefused, RestartSuppressed, OpUnchanged, Gone,
         SoftRestart
<1>4. CASE ContextTasks
  <2>1. ASSUME NEW v \in Version, CleanupDeletes(v)
        PROVE  v \notin running.keep /\ dirs' = dirs \ {v}
    BY <2>1 DEF CleanupDeletes
  <2>2. CleanupEnds \/ InstallEnds => dirs \subseteq dirs'
    BY DEF CleanupEnds, InstallEnds
  <2>. QED BY <1>4, <2>1, <2>2 DEF ContextTasks
<1>5. CASE \/ \E v \in Version : Download(v)
           \/ \E supersedes \in BOOLEAN : CallSetKv(supersedes)
           \/ GetBundleUrl \/ GetConstants \/ Boot \/ Die \/ Upgrade
           \/ BackgroundFlushEnds \/ FallbackFires
  BY <1>5
     DEF Download, CallSetKv, GetBundleUrl, GetConstants, Boot, Die, Gone, Upgrade,
         BackgroundFlushEnds, FallbackFires, SoftRestart, OpUnchanged
<1>. QED BY <1>1, <1>2, <1>3, <1>4, <1>5 DEF ContextNext

(* A regular cleanup spares what is active, whatever is activated while it *)
(* is queued or runs.                                                      *)
THEOREM CleanupsSpareActive == ContextSpec => CleanupSparesActive
<1>1. ASSUME ContextInv, [ContextNext]_contextVars
      PROVE  [CleanupInFlight /\ running.task.kind = "cleanUp"
                => dirs \cap Active \subseteq dirs']_contextVars
  <2>1. running.task.kind = "cleanUp" => Active \subseteq running.keep
    BY <1>1, InvHas DEF TasksFit, Names, Active
  <2>. QED BY <1>1, <2>1, OnlyCleanupsDelete
<1>. QED BY <1>1, ContextInvariant, PTL DEF ContextSpec, CleanupSparesActive

(* What a caller was told is switched or reset is what the next launch     *)
(* resolves to, in this process or the next one.                           *)
THEOREM ReportedStaysLaunched == ContextSpec => ReportedIsLaunched
<1>1. ASSUME ContextInv
      PROVE  reported # Nothing /\ reported \in dirs \cup {NoVersion} /\ Launches
                => mem'.st.current = reported
  <2>1. Launches => ResolvesLaunch
    BY DEF Launches, GetBundleUrl, FallbackFires, RestartRefused, SoftRestart
  <2>. QED BY <1>1, <2>1, ResolvesKeeps
<1>2. ASSUME ContextInv
      PROVE  [reported # Nothing /\ reported \in dirs \cup {NoVersion} /\ Launches
                => mem'.st.current = reported]_contextVars
  BY <1>1, <1>2
<1>. QED BY <1>2, ContextInvariant, PTL DEF ContextSpec, ReportedIsLaunched
=============================================================================
