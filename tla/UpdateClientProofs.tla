-------------------------- MODULE UpdateClientProofs --------------------------
(***************************************************************************)
(* Switches, resets and downloads, for any callers, versions, plans and    *)
(* number of calls.  Generations only grow within a context, so whoever    *)
(* holds the present one is the only one to lower the flag; a download is  *)
(* its owner's, and who joins it waits on that owner.                      *)
(***************************************************************************)
EXTENDS UpdateClient, SelectionProofs

-----------------------------------------------------------------------------
(***************************************************************************)
(* The lease behind applyingUpdate                                         *)
(***************************************************************************)
LeaseTypes ==
    /\ act \in [Caller -> ActCall]
    /\ timers \subseteq [generation : Nat, queued : BOOLEAN]
    /\ reloading \in BOOLEAN
    /\ applyingUpdate \in BOOLEAN
    /\ generation \in Nat
    /\ reloadWatchdog \in Nat

(* No switch and no timer is of a generation that is still to come, and    *)
(* NoTimer is no timer's generation.                                       *)
GenerationsArePast ==
    /\ \A c \in Caller : Switching(c) => act[c].generation <= generation
    /\ \A t \in timers : t.generation # NoTimer /\ t.generation <= generation
    /\ \A c \in Caller : Switching(c) => act[c].generation # NoTimer

(* What a switch, a reset or a watchdog may rely on about the flag.        *)
LeaseInv == LeaseTypes /\ GenerationsArePast /\ FlagHasOneOwner

leaseVars == <<act, timers, reloading, applyingUpdate, generation, reloadWatchdog>>

(* The fields of a caller that does nothing.                               *)
LEMMA NotActingIsCall == NotActing \in ActCall /\ NotActing.at = "idle"
BY DEF NotActing, ActCall, Place, MaybeHash

(* The client starts with nobody owning the flag.                          *)
LEMMA LeaseInit == ClientStateInit /\ ActInit => LeaseInv
<1>. SUFFICES ASSUME ClientStateInit, ActInit PROVE LeaseInv
  OBVIOUS
<1>1. /\ act = [c \in Caller |-> NotActing] /\ timers = {} /\ reloading = FALSE
      /\ applyingUpdate = FALSE /\ generation = 0 /\ reloadWatchdog = 0
  BY DEF ClientStateInit, ActInit, NoTimer
<1>2. LeaseTypes
  BY <1>1, NotActingIsCall DEF LeaseTypes
<1>3. \A c \in Caller : ~Switching(c) /\ ~IsOwner(c)
  BY <1>1, NotActingIsCall DEF Switching, IsOwner
<1>4. GenerationsArePast
  BY <1>1, <1>3 DEF GenerationsArePast
<1>5. FlagHasOneOwner
  BY <1>1, <1>3 DEF FlagHasOneOwner, WatchdogIsOwner
<1>. QED BY <1>2, <1>4, <1>5 DEF LeaseInv

(* A call that goes to another place, or returns, and no other call.       *)
LEMMA GoesTo ==
    ASSUME LeaseTypes, NEW c \in Caller, NEW place \in Place, Goes(c, place)
    PROVE  /\ act' \in [Caller -> ActCall]
           /\ act'[c].at = place /\ act'[c].generation = act[c].generation
           /\ \A d \in Caller : d # c => act'[d] = act[d]
BY DEF LeaseTypes, Goes, ActCall

(* A caller that returns is idle, and it alone changes.                    *)
LEMMA ReturnsIdle ==
    ASSUME LeaseTypes, NEW c \in Caller, Returns(c)
    PROVE  /\ act' \in [Caller -> ActCall]
           /\ act'[c] = NotActing /\ act'[c].at = "idle"
           /\ \A d \in Caller : d # c => act'[d] = act[d]
BY DEF LeaseTypes, Returns, ActCall, NotActing, Place, MaybeHash

(* What is past stays past when the next generation begins.                *)
LEMMA LaterGeneration ==
    ASSUME LeaseTypes, GenerationsArePast
    PROVE  /\ \A c \in Caller : Switching(c) => act[c].generation <= generation + 1
           /\ \A t \in timers : t.generation # NoTimer /\ t.generation <= generation + 1
<1>1. \A c \in Caller : act[c].generation \in Nat
  BY DEF LeaseTypes, ActCall
<1>2. generation \in Nat /\ \A t \in timers : t.generation \in Nat
  BY DEF LeaseTypes
<1>. QED BY <1>1, <1>2 DEF GenerationsArePast

(* What neither raises nor lowers the flag, and whose own call was or      *)
(* becomes no switch, leaves the lease as it is.                           *)
LEMMA OtherCallsKeepLease ==
    ASSUME LeaseInv, NEW c \in Caller, act' \in [Caller -> ActCall],
           ~Switching(c), ~Switching(c)', \A d \in Caller : d # c => act'[d] = act[d],
           UNCHANGED <<timers, applyingUpdate, generation, reloadWatchdog>>,
           reloading' \in BOOLEAN
    PROVE  LeaseInv'
<1>1. LeaseTypes'
  BY DEF LeaseInv, LeaseTypes
<1>2. \A d \in Caller : (Switching(d)' <=> Switching(d)) /\ (Switching(d) => act'[d] = act[d])
  BY DEF Switching
<1>3. GenerationsArePast'
  BY <1>2 DEF LeaseInv, GenerationsArePast
<1>4. (\A d \in Caller : IsOwner(d)' <=> IsOwner(d)) /\ (WatchdogIsOwner' <=> WatchdogIsOwner)
  BY <1>2 DEF IsOwner, WatchdogIsOwner
<1>5. FlagHasOneOwner'
  BY <1>4 DEF LeaseInv, FlagHasOneOwner
<1>. QED BY <1>1, <1>3, <1>5 DEF LeaseInv

(* BeginApplyingUpdate: the switch that raises the flag is its owner.      *)
LEMMA SwitchTakesLease ==
    ASSUME LeaseInv, NEW c \in Caller, NEW h \in Hash, SwitchVersion(c, h)
    PROVE  LeaseInv'
<1>1. /\ act' \in [Caller -> ActCall] /\ act'[c].at = "switchHook"
      /\ act'[c].generation = generation + 1
      /\ \A d \in Caller : d # c => act'[d] = act[d]
  <2>. DEFINE call == [at |-> "switchHook", hash |-> h, generation |-> generation + 1, restart |-> FALSE]
  <2>1. call \in ActCall /\ call.at = "switchHook" /\ call.generation = generation + 1
    BY DEF LeaseInv, LeaseTypes, ActCall, MaybeHash, Place
  <2>2. act \in [Caller -> ActCall] /\ act' = [act EXCEPT ![c] = call]
    BY DEF LeaseInv, LeaseTypes, SwitchVersion
  <2>. HIDE DEF call
  <2>. QED BY <2>1, <2>2
<1>2. /\ ~applyingUpdate /\ applyingUpdate' = TRUE /\ generation' = generation + 1
      /\ reloadWatchdog' = NoTimer /\ timers' \subseteq timers /\ reloading' = reloading
  BY DEF SwitchVersion, BeginApplyingUpdate, Cancelled
<1>3. LeaseTypes'
  BY <1>1, <1>2 DEF LeaseInv, LeaseTypes, NoTimer
<1>4. GenerationsArePast'
  <2>1. \A d \in Caller : d # c /\ Switching(d)' =>
            act'[d].generation <= generation + 1 /\ act'[d].generation # NoTimer
    BY <1>1, LaterGeneration DEF LeaseInv, GenerationsArePast, Switching
  <2>2. \A t \in timers' : t.generation # NoTimer /\ t.generation <= generation + 1
    BY <1>2, LaterGeneration DEF LeaseInv
  <2>3. generation + 1 # NoTimer /\ generation + 1 <= generation + 1
    BY DEF LeaseInv, LeaseTypes, NoTimer
  <2>. QED BY <1>1, <1>2, <2>1, <2>2, <2>3 DEF GenerationsArePast
<1>5. IsOwner(c)' /\ \A d \in Caller : d # c => ~IsOwner(d)'
  BY <1>1, <1>2 DEF LeaseInv, LeaseTypes, GenerationsArePast, IsOwner, Switching
<1>6. ~WatchdogIsOwner'
  BY <1>2 DEF LeaseInv, LeaseTypes, WatchdogIsOwner, NoTimer
<1>7. FlagHasOneOwner'
  BY <1>2, <1>5, <1>6 DEF FlagHasOneOwner
<1>. QED BY <1>3, <1>4, <1>7 DEF LeaseInv

(* InvalidateApplyingUpdate: a reset leaves the flag down, and no owner.   *)
LEMMA ResetVoidsLease ==
    ASSUME LeaseInv, NEW c \in Caller, ResetResolves(c)
    PROVE  LeaseInv'
<1>1. act' \in [Caller -> ActCall] /\ ~Switching(c)' /\ \A d \in Caller : d # c => act'[d] = act[d]
  <2>1. CASE act[c].restart
    <3>1. Goes(c, "restartHook") /\ "restartHook" \in Place
      BY <2>1 DEF ResetResolves, Place
    <3>. QED BY <3>1, GoesTo DEF LeaseInv, Switching
  <2>2. CASE ~act[c].restart
    BY <2>2, ReturnsIdle DEF ResetResolves, LeaseInv, Switching
  <2>. QED BY <2>1, <2>2
<1>2. /\ applyingUpdate' = FALSE /\ generation' = generation + 1
      /\ reloadWatchdog' = NoTimer /\ timers' \subseteq timers /\ reloading' = reloading
  BY DEF ResetResolves, InvalidateApplyingUpdate, Cancelled
<1>3. LeaseTypes'
  <2>1. generation + 1 \in Nat /\ timers' \subseteq [generation : Nat, queued : BOOLEAN]
    BY <1>2 DEF LeaseInv, LeaseTypes
  <2>. QED BY <1>1, <1>2, <2>1 DEF LeaseInv, LeaseTypes, NoTimer
<1>4. GenerationsArePast'
  <2>1. \A d \in Caller : Switching(d)' =>
            act'[d].generation <= generation + 1 /\ act'[d].generation # NoTimer
    BY <1>1, LaterGeneration DEF LeaseInv, GenerationsArePast, Switching
  <2>2. \A t \in timers' : t.generation # NoTimer /\ t.generation <= generation + 1
    BY <1>2, LaterGeneration DEF LeaseInv
  <2>. QED BY <1>2, <2>1, <2>2 DEF GenerationsArePast
<1>5. \A d \in Caller : ~IsOwner(d)'
  BY <1>1, <1>2 DEF LeaseInv, LeaseTypes, GenerationsArePast, IsOwner, Switching
<1>6. ~WatchdogIsOwner'
  BY <1>2 DEF LeaseInv, LeaseTypes, WatchdogIsOwner, NoTimer
<1>7. FlagHasOneOwner'
  BY <1>2, <1>5, <1>6 DEF FlagHasOneOwner
<1>. QED BY <1>3, <1>4, <1>7 DEF LeaseInv

(* The owner's call returns: it lowers the flag; any other lowers nothing. *)
LEMMA SwitchEndsLease ==
    ASSUME LeaseInv, NEW c \in Caller, Switching(c), SwitchEnds(c)
    PROVE  LeaseInv'
<1>. DEFINE g == act[c].generation
<1>1. /\ Switching(c) /\ act' \in [Caller -> ActCall] /\ ~Switching(c)'
      /\ \A d \in Caller : d # c => act'[d] = act[d]
  BY ReturnsIdle DEF LeaseInv, SwitchEnds, Switching
<1>2. generation' = generation /\ reloading' = reloading /\ timers' \subseteq timers
  BY DEF SwitchEnds, FinishApplyingUpdate, Cancelled
<1>3. CASE OwnsApplyingUpdate(g)
  <2>1. applyingUpdate' = FALSE /\ reloadWatchdog' = NoTimer
    BY <1>3 DEF SwitchEnds, FinishApplyingUpdate
  <2>2. LeaseTypes'
    BY <1>1, <1>2, <2>1 DEF LeaseInv, LeaseTypes, NoTimer
  <2>3. GenerationsArePast'
    BY <1>1, <1>2 DEF LeaseInv, GenerationsArePast, Switching
  <2>4. IsOwner(c)
    BY <1>1, <1>3 DEF OwnsApplyingUpdate, IsOwner
  <2>5. \A d \in Caller : ~IsOwner(d)'
    BY <1>1, <1>2, <2>4 DEF LeaseInv, FlagHasOneOwner, IsOwner, Switching
  <2>6. ~WatchdogIsOwner'
    BY <1>2, <2>1 DEF LeaseInv, GenerationsArePast, WatchdogIsOwner
  <2>7. FlagHasOneOwner'
    BY <2>1, <2>5, <2>6 DEF FlagHasOneOwner
  <2>. QED BY <2>2, <2>3, <2>7 DEF LeaseInv
<1>4. CASE ~OwnsApplyingUpdate(g)
  <2>1. UNCHANGED <<reloadWatchdog, timers, applyingUpdate>>
    BY <1>4 DEF SwitchEnds, FinishApplyingUpdate
  <2>2. LeaseTypes'
    BY <1>1, <1>2, <2>1 DEF LeaseInv, LeaseTypes
  <2>3. GenerationsArePast'
    BY <1>1, <1>2 DEF LeaseInv, GenerationsArePast, Switching
  <2>4. ~IsOwner(c)
    BY <1>4 DEF OwnsApplyingUpdate, IsOwner, LeaseInv, FlagHasOneOwner
  <2>5. \A d \in Caller : IsOwner(d)' <=> IsOwner(d)
    BY <1>1, <1>2, <2>4 DEF IsOwner, Switching
  <2>6. WatchdogIsOwner' <=> WatchdogIsOwner
    BY <1>2, <2>1 DEF WatchdogIsOwner
  <2>7. FlagHasOneOwner'
    BY <2>1, <2>5, <2>6 DEF LeaseInv, FlagHasOneOwner
  <2>. QED BY <2>2, <2>3, <2>7 DEF LeaseInv
<1>. QED BY <1>3, <1>4

(* ArmReloadWatchdog: the owner hands the flag to the watchdog.            *)
LEMMA ReloadPassesLease ==
    ASSUME LeaseInv, NEW c \in Caller, ReloadResolves(c)
    PROVE  LeaseInv'
<1>. DEFINE g == act[c].generation
            armed == [generation |-> g, queued |-> FALSE]
<1>1. /\ Switching(c) /\ act' \in [Caller -> ActCall] /\ ~Switching(c)'
      /\ \A d \in Caller : d # c => act'[d] = act[d]
  BY ReturnsIdle DEF LeaseInv, ReloadResolves, Switching
<1>2. UNCHANGED <<generation, applyingUpdate>> /\ reloading' \in BOOLEAN
  BY DEF ReloadResolves, LeaseInv, LeaseTypes
<1>3. CASE OwnsApplyingUpdate(g)
  <2>1. /\ g = generation /\ applyingUpdate /\ reloadWatchdog' = g
        /\ armed \in timers' /\ timers' \subseteq timers \cup {armed}
    BY <1>3 DEF ReloadResolves, ArmReloadWatchdog, OwnsApplyingUpdate, Cancelled
  <2>2. armed \in [generation : Nat, queued : BOOLEAN] /\ armed.generation = generation
    BY <2>1 DEF LeaseInv, LeaseTypes
  <2>3. LeaseTypes'
    BY <1>1, <1>2, <2>1, <2>2 DEF LeaseInv, LeaseTypes
  <2>4. GenerationsArePast'
    BY <1>1, <1>2, <2>1, <2>2 DEF LeaseInv, LeaseTypes, GenerationsArePast, Switching
  <2>5. IsOwner(c)
    BY <1>1, <2>1 DEF IsOwner
  <2>6. \A d \in Caller : ~IsOwner(d)'
    BY <1>1, <1>2, <2>5 DEF LeaseInv, FlagHasOneOwner, IsOwner, Switching
  <2>7. WatchdogIsOwner'
    BY <1>2, <2>1, <2>2 DEF WatchdogIsOwner
  <2>8. FlagHasOneOwner'
    BY <1>2, <2>1, <2>6, <2>7 DEF FlagHasOneOwner
  <2>. QED BY <2>3, <2>4, <2>8 DEF LeaseInv
<1>4. CASE ~OwnsApplyingUpdate(g)
  <2>1. UNCHANGED <<reloadWatchdog, timers>>
    BY <1>4 DEF ReloadResolves, ArmReloadWatchdog
  <2>2. LeaseTypes'
    BY <1>1, <1>2, <2>1 DEF LeaseInv, LeaseTypes
  <2>3. GenerationsArePast'
    BY <1>1, <1>2, <2>1 DEF LeaseInv, GenerationsArePast, Switching
  <2>4. ~IsOwner(c)
    BY <1>4 DEF OwnsApplyingUpdate, IsOwner, LeaseInv, FlagHasOneOwner
  <2>5. \A d \in Caller : IsOwner(d)' <=> IsOwner(d)
    BY <1>1, <1>2, <2>4 DEF IsOwner, Switching
  <2>6. WatchdogIsOwner' <=> WatchdogIsOwner
    BY <1>2, <2>1 DEF WatchdogIsOwner
  <2>7. FlagHasOneOwner'
    BY <1>2, <2>5, <2>6 DEF LeaseInv, FlagHasOneOwner
  <2>. QED BY <2>2, <2>3, <2>7 DEF LeaseInv
<1>. QED BY <1>3, <1>4

(* The hook answers: only the owner goes on to the reload.                 *)
LEMMA HookKeepsLease ==
    ASSUME LeaseInv, NEW c \in Caller, HookAllows(c)
    PROVE  LeaseInv'
<1>1. Switching(c) /\ UNCHANGED <<timers, reloading, applyingUpdate, generation, reloadWatchdog>>
  BY DEF HookAllows, Switching, UnchangedByOthers, sharedVars
<1>2. CASE OwnsApplyingUpdate(act[c].generation)
  <2>1. Goes(c, "reload") /\ "reload" \in Place
    BY <1>2 DEF HookAllows, AfterHook, Place
  <2>2. /\ act' \in [Caller -> ActCall]
        /\ \A d \in Caller : Switching(d)' <=> Switching(d)
        /\ \A d \in Caller : act'[d].generation = act[d].generation
    BY <1>1, <2>1, GoesTo DEF LeaseInv, Switching
  <2>3. LeaseTypes' /\ GenerationsArePast'
    BY <1>1, <2>2 DEF LeaseInv, LeaseTypes, GenerationsArePast
  <2>4. (\A d \in Caller : IsOwner(d)' <=> IsOwner(d)) /\ (WatchdogIsOwner' <=> WatchdogIsOwner)
    BY <1>1, <2>2 DEF IsOwner, WatchdogIsOwner
  <2>5. FlagHasOneOwner'
    BY <1>1, <2>4 DEF LeaseInv, FlagHasOneOwner
  <2>. QED BY <2>3, <2>5 DEF LeaseInv
<1>3. CASE ~OwnsApplyingUpdate(act[c].generation)
  <2>1. /\ act' \in [Caller -> ActCall] /\ ~Switching(c)'
        /\ \A d \in Caller : d # c => act'[d] = act[d]
    BY <1>3, ReturnsIdle DEF LeaseInv, HookAllows, AfterHook, Switching
  <2>2. LeaseTypes' /\ GenerationsArePast'
    BY <1>1, <2>1 DEF LeaseInv, LeaseTypes, GenerationsArePast, Switching
  <2>3. ~IsOwner(c)
    BY <1>3 DEF OwnsApplyingUpdate, IsOwner, LeaseInv, FlagHasOneOwner
  <2>4. (\A d \in Caller : IsOwner(d)' <=> IsOwner(d)) /\ (WatchdogIsOwner' <=> WatchdogIsOwner)
    BY <1>1, <2>1, <2>3 DEF IsOwner, Switching, WatchdogIsOwner
  <2>5. FlagHasOneOwner'
    BY <1>1, <2>4 DEF LeaseInv, FlagHasOneOwner
  <2>. QED BY <2>2, <2>5 DEF LeaseInv
<1>. QED BY <1>2, <1>3

(* A timer that becomes due is the same watchdog.                          *)
LEMMA DueKeepsLease ==
    ASSUME LeaseInv, NEW t \in timers, TimerDue(t)
    PROVE  LeaseInv'
<1>. DEFINE due == [t EXCEPT !.queued = TRUE]
<1>1. /\ timers' = (timers \ {t}) \cup {due}
      /\ UNCHANGED <<act, reloading, applyingUpdate, generation, reloadWatchdog>>
  BY DEF TimerDue, UnchangedByOthers, sharedVars
<1>2. due \in [generation : Nat, queued : BOOLEAN] /\ due.generation = t.generation
  BY DEF LeaseInv, LeaseTypes
<1>. HIDE DEF due
<1>3. LeaseTypes'
  BY <1>1, <1>2 DEF LeaseInv, LeaseTypes
<1>4. GenerationsArePast'
  BY <1>1, <1>2 DEF LeaseInv, GenerationsArePast, Switching
<1>5. (\A d \in Caller : IsOwner(d)' <=> IsOwner(d)) /\ (WatchdogIsOwner' <=> WatchdogIsOwner)
  BY <1>1, <1>2 DEF IsOwner, Switching, WatchdogIsOwner
<1>6. FlagHasOneOwner'
  BY <1>1, <1>5 DEF LeaseInv, FlagHasOneOwner
<1>. QED BY <1>3, <1>4, <1>6 DEF LeaseInv

(* The watchdog lowers the flag if it owns it, and only then.              *)
LEMMA FiresEndsLease ==
    ASSUME LeaseInv, NEW t \in timers, TimerFires(t)
    PROVE  LeaseInv'
<1>1. timers' = timers \ {t} /\ UNCHANGED <<act, reloading, generation>>
  BY DEF TimerFires
<1>2. GenerationsArePast'
  BY <1>1 DEF LeaseInv, GenerationsArePast, Switching
<1>3. \A d \in Caller : IsOwner(d)' <=> IsOwner(d)
  BY <1>1 DEF IsOwner, Switching
<1>4. CASE StillTheWatchdog(t)
  <2>1. reloadWatchdog' = NoTimer /\ applyingUpdate' = FALSE
    BY <1>4 DEF TimerFires
  <2>2. LeaseTypes'
    BY <1>1, <2>1 DEF LeaseInv, LeaseTypes, NoTimer
  <2>3. WatchdogIsOwner
    BY <1>4 DEF StillTheWatchdog, OwnsApplyingUpdate, WatchdogIsOwner
  <2>4. ~WatchdogIsOwner'
    BY <1>1, <2>1 DEF LeaseInv, GenerationsArePast, WatchdogIsOwner
  <2>5. FlagHasOneOwner'
    BY <1>3, <2>1, <2>3, <2>4 DEF LeaseInv, FlagHasOneOwner
  <2>. QED BY <1>2, <2>2, <2>5 DEF LeaseInv
<1>5. CASE ~StillTheWatchdog(t)
  <2>1. UNCHANGED <<reloadWatchdog, applyingUpdate>>
    BY <1>5 DEF TimerFires
  <2>2. LeaseTypes'
    BY <1>1, <2>1 DEF LeaseInv, LeaseTypes
  <2>3. ASSUME WatchdogIsOwner PROVE t.generation # generation
    BY <1>5, <2>3 DEF StillTheWatchdog, OwnsApplyingUpdate, LeaseInv, FlagHasOneOwner, WatchdogIsOwner
  <2>4. WatchdogIsOwner' <=> WatchdogIsOwner
    BY <1>1, <2>1, <2>3 DEF WatchdogIsOwner
  <2>5. FlagHasOneOwner'
    BY <1>3, <2>1, <2>4 DEF LeaseInv, FlagHasOneOwner
  <2>. QED BY <1>2, <2>2, <2>5 DEF LeaseInv
<1>. QED BY <1>4, <1>5

(* A restart or a call to native code that is no switch.                   *)
LEMMA RestartKeepsLease ==
    ASSUME LeaseInv, NEW c \in Caller,
           \/ RestartApp(c) \/ RestartHook(c) \/ RestartEnds(c)
           \/ \E restart \in BOOLEAN : ResetToPackagedBundle(c, restart)
           \/ NativeReset(c) \/ ResetFails(c)
    PROVE  LeaseInv'
<1>1. /\ ~Switching(c)
      /\ UNCHANGED <<timers, applyingUpdate, generation, reloadWatchdog>> /\ reloading' \in BOOLEAN
  BY DEF RestartApp, RestartHook, RestartEnds, ResetToPackagedBundle, NativeReset, ResetFails,
         Switching, UnchangedByOthers, sharedVars, LeaseInv, LeaseTypes
<1>2. act' \in [Caller -> ActCall] /\ ~Switching(c)' /\ \A d \in Caller : d # c => act'[d] = act[d]
  <2>1. ASSUME NEW restart \in BOOLEAN, ResetToPackagedBundle(c, restart)
        PROVE  act' \in [Caller -> ActCall] /\ ~Switching(c)' /\ \A d \in Caller : d # c => act'[d] = act[d]
    BY <2>1 DEF ResetToPackagedBundle, LeaseInv, LeaseTypes, ActCall, NotActing, Place, MaybeHash, Switching
  <2>2. ASSUME Returns(c)
        PROVE  act' \in [Caller -> ActCall] /\ ~Switching(c)' /\ \A d \in Caller : d # c => act'[d] = act[d]
    BY <2>2, ReturnsIdle DEF LeaseInv, Switching
  <2>3. ASSUME NEW place \in {"restartHook", "restart", "resetDone"}, Goes(c, place)
        PROVE  act' \in [Caller -> ActCall] /\ ~Switching(c)' /\ \A d \in Caller : d # c => act'[d] = act[d]
    BY <2>3, GoesTo DEF LeaseInv, Switching, Place
  <2>. QED BY <2>1, <2>2, <2>3 DEF RestartApp, RestartHook, RestartEnds, NativeReset, ResetFails
<1>. QED BY <1>1, <1>2, OtherCallsKeepLease

(* Each of the calls, answers and timers keeps the flag with one owner.    *)
LEMMA LeaseStep == LeaseInv /\ [ActNext]_activationVars => LeaseInv'
<1>. SUFFICES ASSUME LeaseInv, [ActNext]_activationVars PROVE LeaseInv'
  OBVIOUS
<1>1. ASSUME NEW c \in Caller, NEW h \in Hash, SwitchVersion(c, h) PROVE LeaseInv'
  BY <1>1, SwitchTakesLease
<1>2. ASSUME NEW c \in Caller,
             \/ Switching(c) /\ SwitchEnds(c)
             \/ ReloadResolves(c) \/ HookAllows(c) \/ ResetResolves(c)
      PROVE  LeaseInv'
  BY <1>2, SwitchEndsLease, ReloadPassesLease, HookKeepsLease, ResetVoidsLease
<1>3. ASSUME NEW c \in Caller,
             \/ RestartApp(c) \/ RestartHook(c) \/ RestartEnds(c)
             \/ \E restart \in BOOLEAN : ResetToPackagedBundle(c, restart)
             \/ NativeReset(c) \/ ResetFails(c)
      PROVE  LeaseInv'
  BY <1>3, RestartKeepsLease
<1>4. CASE ActTimer
  BY <1>4, DueKeepsLease, FiresEndsLease DEF ActTimer
<1>5. CASE UNCHANGED leaseVars
  BY <1>5 DEF leaseVars, LeaseInv, LeaseTypes, GenerationsArePast, FlagHasOneOwner,
              Switching, IsOwner, WatchdogIsOwner
<1>6. CASE MarkSuccess \/ PerformMarkSuccess \/ (\E h \in Hash : DownloadArrives(h))
  BY <1>5, <1>6 DEF MarkSuccess, PerformMarkSuccess, DownloadArrives, actVars, leaseVars
<1>7. CASE ContextReplaced
  BY <1>7 DEF ContextReplaced, FreshShared, LeaseInv, LeaseTypes, GenerationsArePast, FlagHasOneOwner,
              ActCall, NotActing, Place, MaybeHash, Switching, IsOwner, WatchdogIsOwner, NoTimer
<1>8. CASE UNCHANGED activationVars
  BY <1>5, <1>8 DEF activationVars, sharedVars, actVars, leaseVars
<1>. QED BY <1>1, <1>2, <1>3, <1>4, <1>6, <1>7, <1>8 DEF ActNext, ActStep, ActReply, ActHook, HookDeclines, ReloadFails,
          Switching

(* clientActivation.ts, whatever is called in whatever order, however      *)
(* hooks and native calls end and timers run late: applyingUpdate is up    *)
(* exactly as long as one party is to lower it.                            *)
THEOREM FlagAlwaysHasOneOwner == ActSpec => []FlagHasOneOwner
<1>1. LeaseInv => FlagHasOneOwner
  BY DEF LeaseInv
<1>. QED BY LeaseInit, LeaseStep, <1>1, PTL DEF ActSpec

(* Of another caller's call no step changes anything but the flag and what *)
(* belongs to it.                                                          *)
LEMMA OnlyOwnCallMoves ==
    ASSUME LeaseInv, ActNext, ~reloading, NEW c \in Caller, Switching(c), act'[c] # act[c]
    PROVE  HookAllows(c) \/ SwitchEnds(c) \/ ReloadResolves(c)
<1>1. ASSUME NEW d \in Caller, NEW h \in Hash, SwitchVersion(d, h) PROVE act'[c] = act[c]
  BY <1>1 DEF SwitchVersion, Switching, LeaseInv, LeaseTypes
<1>2. ASSUME NEW d \in Caller, RestartApp(d) \/ RestartHook(d) \/ RestartEnds(d)
      PROVE  act'[c] = act[c]
  BY <1>2 DEF RestartApp, RestartHook, RestartEnds, Goes, Returns, Switching, LeaseInv, LeaseTypes
<1>3. ASSUME NEW d \in Caller, NEW restart \in BOOLEAN, ResetToPackagedBundle(d, restart)
      PROVE  act'[c] = act[c]
  BY <1>3 DEF ResetToPackagedBundle, Switching, LeaseInv, LeaseTypes
<1>4. ASSUME NEW d \in Caller, NativeReset(d) \/ ResetFails(d) \/ ResetResolves(d)
      PROVE  act'[c] = act[c]
  BY <1>4 DEF NativeReset, ResetFails, ResetResolves, Goes, Returns, Switching, LeaseInv, LeaseTypes
<1>5. ASSUME NEW d \in Caller, d # c, HookAllows(d) \/ SwitchEnds(d) \/ ReloadResolves(d)
      PROVE  act'[c] = act[c]
  BY <1>5 DEF HookAllows, AfterHook, SwitchEnds, ReloadResolves, Goes, Returns, LeaseInv, LeaseTypes
<1>6. ASSUME ActTimer \/ MarkSuccess \/ PerformMarkSuccess \/ (\E h \in Hash : DownloadArrives(h))
      PROVE  act' = act
  BY <1>6 DEF ActTimer, TimerDue, TimerFires, MarkSuccess, PerformMarkSuccess, DownloadArrives, actVars
<1>. QED BY <1>1, <1>2, <1>3, <1>4, <1>5, <1>6 DEF ActNext, ActStep, ActReply, ActHook, HookDeclines, ReloadFails

(* A switch a reset overtook only returns: it touches nothing shared.      *)
LEMMA SupersededStep ==
    ASSUME LeaseInv, ActNext, NEW c \in Caller, Switching(c), act[c].generation # generation,
           act'[c] # act[c], ~reloading
    PROVE  act'[c] = NotActing /\ UNCHANGED <<applyingUpdate, generation, reloadWatchdog>>
<1>1. ~OwnsApplyingUpdate(act[c].generation)
  BY DEF OwnsApplyingUpdate
<1>2. HookAllows(c) \/ SwitchEnds(c) \/ ReloadResolves(c)
  BY OnlyOwnCallMoves
<1>3. Returns(c)
  BY <1>1, <1>2 DEF HookAllows, AfterHook, SwitchEnds, ReloadResolves
<1>4. UNCHANGED <<applyingUpdate, generation, reloadWatchdog>>
  BY <1>1, <1>2 DEF HookAllows, SwitchEnds, FinishApplyingUpdate, ReloadResolves, ArmReloadWatchdog,
                    UnchangedByOthers, sharedVars
<1>. QED BY <1>3, <1>4, ReturnsIdle DEF LeaseInv

(* clientActivation.ts: a switch that a reset superseded asks for nothing  *)
(* and releases nothing that a newer switch holds, however late its hook   *)
(* or its native call ends.                                                *)
THEOREM SupersededSwitchStaysInert == ActSpec => SupersededSwitchIsInert
<1>1. LeaseInv /\ [ActNext]_activationVars =>
        [\A c \in Caller :
            (Switching(c) /\ act[c].generation # generation /\ act'[c] # act[c] /\ ~reloading) =>
                /\ act'[c] = NotActing
                /\ UNCHANGED <<applyingUpdate, generation, reloadWatchdog>>]_activationVars
  BY SupersededStep
<1>. QED BY LeaseInit, LeaseStep, <1>1, PTL DEF ActSpec, SupersededSwitchIsInert
-----------------------------------------------------------------------------
(***************************************************************************)
(* Downloads, switches and resets                                          *)
(***************************************************************************)
Shaped(t) == DOMAIN t = DOMAIN NoTask
SameTask(t, u) == Shaped(u) /\ u.hash = t.hash /\ u.with = t.with

(* The fields of a download task.                                          *)
LEMMA TaskFields == {"at", "hash", "attempt", "next", "ranked", "order", "exhausted", "tried",
                     "spoiled", "with", "plan"} = DOMAIN NoTask
BY DEF NoTask

(* Setting a field that is neither the place, the version nor the one      *)
(* waited for keeps those.                                                 *)
LEMMA SetsField ==
    ASSUME NEW t, Shaped(t), NEW v,
           NEW f \in {"attempt", "next", "ranked", "order", "exhausted", "tried", "spoiled", "plan"}
    PROVE  SameTask(t, [t EXCEPT ![f] = v]) /\ [t EXCEPT ![f] = v].at = t.at
BY TaskFields DEF Shaped, SameTask

(* Setting the place keeps what the task is of.                            *)
LEMMA SetsPlace ==
    ASSUME NEW t, Shaped(t), NEW v
    PROVE  SameTask(t, [t EXCEPT !.at = v]) /\ [t EXCEPT !.at = v].at = v
BY TaskFields DEF Shaped, SameTask

(* The next strategy is for the same version, at one of four places.       *)
LEMMA NextStrategyKeeps ==
    ASSUME NEW t, Shaped(t)
    PROVE  /\ SameTask(t, NextStrategy(t))
           /\ NextStrategy(t).at \in {"rank", "native", "failed", "backoff"}
BY TaskFields DEF Shaped, SameTask, NextStrategy

(* Ranking mirrors keeps what the task is of and where it is.              *)
LEMMA DemotedKeeps ==
    ASSUME NEW t, Shaped(t)
    PROVE  SameTask(t, Demoted(t)) /\ SameTask(t, Tried(t)) /\ Demoted(t).at = t.at
           /\ Tried(t).at = t.at
BY TaskFields DEF Shaped, SameTask, Demoted, Tried

(* A native failure leaves the task with its version, at one of four       *)
(* places.                                                                 *)
LEMMA AfterFailureKeeps ==
    ASSUME NEW t, Shaped(t), t.at = "native", NEW code
    PROVE  /\ SameTask(t, AfterFailure(t, code))
           /\ AfterFailure(t, code).at \in {"rank", "native", "failed", "backoff"}
<1>. DEFINE spent == [t EXCEPT !.order = <<>>, !.next = @ + 1,
                                !.exhausted = @ \cup {t.plan[t.next].type},
                                !.spoiled = @ \cup {t.plan[t.next].type}]
            over == [t EXCEPT !.order = <<>>, !.next = @ + 1]
<1>1. SameTask(t, spent) /\ SameTask(t, over)
  BY TaskFields DEF Shaped, SameTask
<1>. HIDE DEF spent, over
<1>2. /\ SameTask(t, NextStrategy(spent))
      /\ NextStrategy(spent).at \in {"rank", "native", "failed", "backoff"}
  BY <1>1, NextStrategyKeeps DEF SameTask
<1>3. /\ SameTask(t, NextStrategy(over))
      /\ NextStrategy(over).at \in {"rank", "native", "failed", "backoff"}
  BY <1>1, NextStrategyKeeps DEF SameTask
<1>4. SameTask(t, [t EXCEPT !.order = Tail(@)]) /\ [t EXCEPT !.order = Tail(@)].at = t.at
  BY TaskFields DEF Shaped, SameTask
<1>. QED BY <1>2, <1>3, <1>4 DEF AfterFailure, NextMirror, spent, over

(* The caller runs the download of its version.                            *)
Active(c) == task[c].at \in {"rank", "native", "backoff", "persist", "settled", "failed"}

(* The fields of the downloads and of who waits for them.                  *)
DownloadShapes ==
    /\ DOMAIN task = Caller /\ \A c \in Caller : Shaped(task[c])
    /\ downloadingTasks \in [Hash -> Caller \cup {NoCaller}]
    /\ progressCallbacks \in [Hash -> SUBSET Caller]
    /\ \A c \in Caller : task[c].at # "idle" => task[c].hash \in Hash

(* Who downloads a version is whom its task is of.                         *)
OwnersHoldTheirTask ==
    /\ \A c \in Caller : Active(c) => downloadingTasks[task[c].hash] = c
    /\ \A h \in Hash, c \in Caller : downloadingTasks[h] = c => Active(c) /\ task[c].hash = h

(* Who waits for another waits for a download of its own version.          *)
JoinedShareOne ==
    /\ \A d \in Caller : /\ task[d].with \in Caller \cup {NoCaller}
                         /\ task[d].at = "joined" => task[d].with # NoCaller
    /\ \A d, c \in Caller : task[d].with = c =>
          task[d].at = "joined" /\ Active(c) /\ task[c].hash = task[d].hash

ProgressIsTold ==
    \A c \in Caller : Transferring(c) =>
        /\ c \in progressCallbacks[task[c].hash]
        /\ \A d \in Caller : task[d].with = c => d \in progressCallbacks[task[c].hash]

(* One download of a version at a time, and everybody who waits hears of   *)
(* it.                                                                     *)
SharingInv == DownloadShapes /\ OwnersHoldTheirTask /\ JoinedShareOne /\ ProgressIsTold

(* The invariant has the property in it.                                   *)
LEMMA SharingMeans == SharingInv => DownloadsAreShared
<1>. SUFFICES ASSUME SharingInv, NEW c \in Caller, NEW d \in Caller
     PROVE  /\ Running(c) /\ Running(d) /\ task[c].hash = task[d].hash => c = d
            /\ Transferring(c) /\ (d = c \/ (task[d].at = "joined" /\ task[d].with = c))
                  => d \in progressCallbacks[task[c].hash]
  BY DEF DownloadsAreShared
<1>1. Running(c) /\ Running(d) /\ task[c].hash = task[d].hash => c = d
  BY DEF SharingInv, OwnersHoldTheirTask, Running, Active
<1>2. Transferring(c) /\ (d = c \/ (task[d].at = "joined" /\ task[d].with = c))
        => d \in progressCallbacks[task[c].hash]
  BY DEF SharingInv, ProgressIsTold
<1>. QED BY <1>1, <1>2

(* What no task is.                                                        *)
LEMMA NoTaskShape ==
    Shaped(NoTask) /\ NoTask.at = "idle" /\ NoTask.with = NoCaller /\ NoTask.hash = NoHash
BY DEF NoTask, Shaped

(* One call changes and no other.                                          *)
LEMMA OneTaskChanges ==
    ASSUME DownloadShapes, NEW c \in Caller, NEW t, task' = [task EXCEPT ![c] = t]
    PROVE  DOMAIN task' = Caller /\ task'[c] = t /\ \A d \in Caller \ {c} : task'[d] = task[d]
BY DEF DownloadShapes

(* A download goes on: while it transfers its listeners stay.              *)
LEMMA ContinuesShares ==
    ASSUME SharingInv, NEW c \in Caller, Active(c), NEW t, SameTask(task[c], t),
           t.at \in {"rank", "native", "backoff", "persist", "settled", "failed"},
           t.at \in {"rank", "native", "backoff"} => Transferring(c),
           Continues(c, t)
    PROVE  SharingInv'
<1>. DEFINE h == task[c].hash
            over == t.at \in {"persist", "settled", "failed"}
<1>1. h \in Hash /\ downloadingTasks[h] = c /\ task[c].at # "joined"
  BY DEF SharingInv, DownloadShapes, OwnersHoldTheirTask, Active
<1>2. task[c].with = NoCaller
  BY <1>1, NoCallerAssumption DEF SharingInv, JoinedShareOne
<1>3. t.hash = h /\ t.with = NoCaller /\ Shaped(t)
  BY <1>2 DEF SameTask
<1>4. DOMAIN task' = Caller /\ task'[c] = t /\ \A d \in Caller \ {c} : task'[d] = task[d]
  BY OneTaskChanges DEF SharingInv, Continues
<1>5. /\ progressCallbacks' = [progressCallbacks EXCEPT ![h] = IF over THEN {} ELSE @]
      /\ downloadingTasks' = downloadingTasks
  BY <1>3 DEF Continues
<1>6. /\ progressCallbacks' \in [Hash -> SUBSET Caller]
      /\ progressCallbacks'[h] = IF over THEN {} ELSE progressCallbacks[h]
      /\ \A g \in Hash \ {h} : progressCallbacks'[g] = progressCallbacks[g]
  BY <1>1, <1>5 DEF SharingInv, DownloadShapes
<1>7. DownloadShapes'
  BY <1>1, <1>3, <1>4, <1>5, <1>6 DEF SharingInv, DownloadShapes
<1>8. \A d \in Caller : Active(d)' <=> Active(d)
  BY <1>4 DEF Active
<1>9. OwnersHoldTheirTask'
  BY <1>3, <1>4, <1>5, <1>8 DEF SharingInv, OwnersHoldTheirTask
<1>10. \A d \in Caller : task'[d].with = task[d].with /\ task'[d].hash = task[d].hash
       /\ (task'[d].at = "joined" <=> task[d].at = "joined")
  BY <1>1, <1>2, <1>3, <1>4 DEF Active
<1>11. JoinedShareOne'
  BY <1>8, <1>10 DEF SharingInv, JoinedShareOne
<1>12. ProgressIsTold'
  <2>. SUFFICES ASSUME NEW d \in Caller, Transferring(d)'
       PROVE  /\ d \in progressCallbacks'[task'[d].hash]
              /\ \A e \in Caller : task'[e].with = d => e \in progressCallbacks'[task'[d].hash]
    BY DEF ProgressIsTold
  <2>1. CASE d = c
    <3>1. ~over /\ Transferring(c)
      BY <2>1, <1>4 DEF Transferring
    <3>2. progressCallbacks'[h] = progressCallbacks[h]
      BY <3>1, <1>6
    <3>. QED BY <2>1, <3>1, <3>2, <1>10 DEF SharingInv, ProgressIsTold
  <2>2. CASE d # c
    <3>1. Transferring(d) /\ Active(d)
      BY <2>2, <1>4 DEF Transferring, Active
    <3>2. task[d].hash \in Hash \ {h}
      BY <2>2, <3>1, <1>1 DEF SharingInv, OwnersHoldTheirTask, DownloadShapes, Active
    <3>3. progressCallbacks'[task[d].hash] = progressCallbacks[task[d].hash]
      BY <3>2, <1>6
    <3>. QED BY <3>1, <3>3, <1>10 DEF SharingInv, ProgressIsTold
  <2>. QED BY <2>1, <2>2
<1>. QED BY <1>7, <1>9, <1>11, <1>12 DEF SharingInv

(* A call that neither downloads nor waits begins or gives up.             *)
LEMMA IdlingShares ==
    ASSUME SharingInv, NEW c \in Caller, task[c].at \in {"idle", "hook"}, NEW t,
           Shaped(t), t.at \in {"idle", "hook"}, t.with = NoCaller,
           t.at = "hook" => t.hash \in Hash,
           task' = [task EXCEPT ![c] = t], UNCHANGED <<downloadingTasks, progressCallbacks>>
    PROVE  SharingInv'
<1>1. DOMAIN task' = Caller /\ task'[c] = t /\ \A d \in Caller \ {c} : task'[d] = task[d]
  BY OneTaskChanges DEF SharingInv
<1>2. \A d \in Caller : Active(d)' <=> Active(d)
  BY <1>1 DEF Active
<1>3. DownloadShapes'
  BY <1>1 DEF SharingInv, DownloadShapes
<1>4. OwnersHoldTheirTask'
  BY <1>1, <1>2 DEF SharingInv, OwnersHoldTheirTask, Active
<1>5. JoinedShareOne'
  BY <1>1, <1>2, NoCallerAssumption DEF SharingInv, JoinedShareOne, Active
<1>6. ProgressIsTold'
  <2>1. \A d \in Caller : Transferring(d)' => Transferring(d) /\ d # c
    BY <1>1 DEF Transferring
  <2>2. \A d, e \in Caller : task'[e].with = d => task[e].with = d
    BY <1>1, NoCallerAssumption
  <2>. QED BY <2>1, <2>2, <1>1 DEF SharingInv, ProgressIsTold
<1>. QED BY <1>3, <1>4, <1>5, <1>6 DEF SharingInv

(* A call joins the download that is already under way.                    *)
LEMMA JoiningShares ==
    ASSUME SharingInv, NEW c \in Caller, AfterDownloadHook(c),
           NEW h, h = task[c].hash, NEW o \in Caller, downloadingTasks[h] = o
    PROVE  SharingInv'
<1>. DEFINE t == [NoTask EXCEPT !.at = "joined", !.hash = h, !.with = o]
<1>1. h \in Hash /\ task[c].at = "hook"
  BY DEF AfterDownloadHook, SharingInv, DownloadShapes
<1>2. Active(o) /\ task[o].hash = h /\ o # c
  BY <1>1 DEF SharingInv, OwnersHoldTheirTask, Active
<1>3. t.at = "joined" /\ t.hash = h /\ t.with = o /\ Shaped(t)
  BY TaskFields DEF NoTask, Shaped
<1>4. /\ task' = [task EXCEPT ![c] = t] /\ downloadingTasks' = downloadingTasks
      /\ progressCallbacks' = [progressCallbacks EXCEPT ![h] = JoinedBy(c, h)]
  BY NoCallerAssumption DEF AfterDownloadHook
<1>. HIDE DEF t
<1>5. DOMAIN task' = Caller /\ task'[c] = t /\ \A d \in Caller \ {c} : task'[d] = task[d]
  BY <1>4, OneTaskChanges DEF SharingInv
<1>6. /\ progressCallbacks' \in [Hash -> SUBSET Caller]
      /\ progressCallbacks'[h] = JoinedBy(c, h)
      /\ \A g \in Hash : progressCallbacks[g] \subseteq progressCallbacks'[g]
  BY <1>1, <1>4 DEF SharingInv, DownloadShapes, JoinedBy
<1>7. \A d \in Caller : (Active(d)' <=> Active(d)) /\ (Active(d) => d # c)
  BY <1>1, <1>3, <1>5 DEF Active
<1>8. DownloadShapes'
  BY <1>1, <1>3, <1>4, <1>5, <1>6 DEF SharingInv, DownloadShapes
<1>9. OwnersHoldTheirTask'
  BY <1>4, <1>5, <1>7 DEF SharingInv, OwnersHoldTheirTask
<1>10. JoinedShareOne'
  <2>1. \A e \in Caller : task'[c].with = e =>
          task'[c].at = "joined" /\ Active(e)' /\ task'[e].hash = task'[c].hash
    BY <1>2, <1>3, <1>5, <1>7
  <2>2. \A d \in Caller \ {c}, e \in Caller : task'[d].with = e =>
          task'[d].at = "joined" /\ Active(e)' /\ task'[e].hash = task'[d].hash
    BY <1>5, <1>7 DEF SharingInv, JoinedShareOne
  <2>3. \A d \in Caller : /\ task'[d].with \in Caller \cup {NoCaller}
                          /\ task'[d].at = "joined" => task'[d].with # NoCaller
    BY <1>3, <1>5, NoCallerAssumption DEF SharingInv, JoinedShareOne
  <2>. QED BY <2>1, <2>2, <2>3 DEF JoinedShareOne
<1>11. ProgressIsTold'
  <2>. SUFFICES ASSUME NEW d \in Caller, Transferring(d)'
       PROVE  /\ d \in progressCallbacks'[task'[d].hash]
              /\ \A e \in Caller : task'[e].with = d => e \in progressCallbacks'[task'[d].hash]
    BY DEF ProgressIsTold
  <2>1. d # c /\ Transferring(d) /\ task'[d] = task[d] /\ task[d].hash \in Hash
    BY <1>3, <1>5 DEF Transferring, SharingInv, DownloadShapes
  <2>2. d \in progressCallbacks[task[d].hash]
        /\ \A e \in Caller : task[e].with = d => e \in progressCallbacks[task[d].hash]
    BY <2>1 DEF SharingInv, ProgressIsTold
  <2>3. task'[c].with = d => c \in progressCallbacks'[task'[d].hash]
    <3>. SUFFICES ASSUME task'[c].with = d PROVE c \in progressCallbacks'[h]
      BY <2>1, <1>2, <1>3, <1>5
    <3>1. d = o
      BY <1>3, <1>5
    <3>2. progressCallbacks[h] # {}
      BY <3>1, <2>2, <1>2
    <3>. QED BY <3>2, <1>6 DEF JoinedBy
  <2>4. \A e \in Caller \ {c} : task'[e].with = task[e].with
    BY <1>5
  <2>. QED BY <2>1, <2>2, <2>3, <2>4, <1>6
<1>. QED BY <1>8, <1>9, <1>10, <1>11 DEF SharingInv

(* A call that finds no download under way starts one of its own.          *)
LEMMA PerformingShares ==
    ASSUME SharingInv, NEW c \in Caller, AfterDownloadHook(c),
           NEW h, h = task[c].hash, downloadingTasks[h] = NoCaller
    PROVE  SharingInv'
<1>. DEFINE s == [task[c] EXCEPT !.ranked = [i \in DOMAIN task[c].plan |-> <<>>]]
            t == NextStrategy(s)
<1>1. h \in Hash /\ task[c].at = "hook" /\ Shaped(task[c]) /\ c \in DOMAIN task
  BY DEF AfterDownloadHook, SharingInv, DownloadShapes
<1>2. task[c].with = NoCaller
  BY <1>1, NoCallerAssumption DEF SharingInv, JoinedShareOne
<1>3. SameTask(task[c], s)
  BY <1>1, TaskFields DEF Shaped, SameTask
<1>4. /\ task' = [task EXCEPT ![c] = t]
      /\ progressCallbacks' = [progressCallbacks EXCEPT ![h] = {c}]
      /\ downloadingTasks' = [downloadingTasks EXCEPT ![h] = c]
  BY <1>1 DEF AfterDownloadHook, PerformDownload
<1>. HIDE DEF s
<1>5. t.hash = h /\ t.with = NoCaller /\ Shaped(t)
      /\ t.at \in {"rank", "native", "failed", "backoff"}
  BY <1>2, <1>3, NextStrategyKeeps DEF SameTask
<1>. HIDE DEF t
<1>6. DOMAIN task' = Caller /\ task'[c] = t /\ \A d \in Caller \ {c} : task'[d] = task[d]
  BY <1>4, OneTaskChanges DEF SharingInv
<1>7. /\ progressCallbacks' \in [Hash -> SUBSET Caller] /\ progressCallbacks'[h] = {c}
      /\ \A g \in Hash \ {h} : progressCallbacks'[g] = progressCallbacks[g]
      /\ downloadingTasks' \in [Hash -> Caller \cup {NoCaller}] /\ downloadingTasks'[h] = c
      /\ \A g \in Hash \ {h} : downloadingTasks'[g] = downloadingTasks[g]
  BY <1>1, <1>4 DEF SharingInv, DownloadShapes
<1>8. \A d \in Caller : Active(d) => task[d].hash \in Hash \ {h} /\ d # c
  BY <1>1, NoCallerAssumption DEF Active, SharingInv, OwnersHoldTheirTask, DownloadShapes
<1>9. Active(c)' /\ \A d \in Caller \ {c} : Active(d)' <=> Active(d)
  BY <1>5, <1>6 DEF Active
<1>10. \A d \in Caller : task[d].with # c
  BY <1>8 DEF SharingInv, JoinedShareOne
<1>11. DownloadShapes'
  BY <1>1, <1>5, <1>6, <1>7 DEF SharingInv, DownloadShapes
<1>12. OwnersHoldTheirTask'
  <2>1. ASSUME NEW d \in Caller, Active(d)' PROVE downloadingTasks'[task'[d].hash] = d
    BY <2>1, <1>5, <1>6, <1>7, <1>8, <1>9 DEF SharingInv, OwnersHoldTheirTask
  <2>2. ASSUME NEW g \in Hash, NEW d \in Caller, downloadingTasks'[g] = d
        PROVE  Active(d)' /\ task'[d].hash = g
    <3>1. CASE g = h
      BY <2>2, <3>1, <1>5, <1>6, <1>7, <1>9
    <3>2. CASE g # h
      <4>1. Active(d) /\ task[d].hash = g
        BY <2>2, <3>2, <1>7 DEF SharingInv, OwnersHoldTheirTask
      <4>. QED BY <4>1, <1>6, <1>8, <1>9
    <3>. QED BY <3>1, <3>2
  <2>. QED BY <2>1, <2>2 DEF OwnersHoldTheirTask
<1>13. JoinedShareOne'
  <2>1. \A d \in Caller \ {c}, e \in Caller : task'[d].with = e =>
          task'[d].at = "joined" /\ Active(e)' /\ task'[e].hash = task'[d].hash
    BY <1>6, <1>8, <1>9 DEF SharingInv, JoinedShareOne
  <2>2. \A e \in Caller : task'[c].with # e
    BY <1>5, <1>6, NoCallerAssumption
  <2>3. \A d \in Caller : /\ task'[d].with \in Caller \cup {NoCaller}
                          /\ task'[d].at = "joined" => task'[d].with # NoCaller
    BY <1>5, <1>6 DEF SharingInv, JoinedShareOne
  <2>. QED BY <2>1, <2>2, <2>3 DEF JoinedShareOne
<1>14. ProgressIsTold'
  <2>. SUFFICES ASSUME NEW d \in Caller, Transferring(d)'
       PROVE  /\ d \in progressCallbacks'[task'[d].hash]
              /\ \A e \in Caller : task'[e].with = d => e \in progressCallbacks'[task'[d].hash]
    BY DEF ProgressIsTold
  <2>1. \A e \in Caller : task'[e].with = d => task[e].with = d
    BY <1>5, <1>6, NoCallerAssumption
  <2>2. CASE d = c
    BY <2>1, <2>2, <1>5, <1>6, <1>7, <1>10
  <2>3. CASE d # c
    <3>1. Transferring(d) /\ Active(d) /\ task'[d] = task[d]
      BY <2>3, <1>6 DEF Transferring, Active
    <3>2. progressCallbacks'[task[d].hash] = progressCallbacks[task[d].hash]
      BY <3>1, <1>7, <1>8
    <3>. QED BY <2>1, <3>1, <3>2 DEF SharingInv, ProgressIsTold
  <2>. QED BY <2>2, <2>3
<1>. QED BY <1>11, <1>12, <1>13, <1>14 DEF SharingInv

(* The download is over for its owner and for all who waited with it.      *)
LEMMA SettlingShares ==
    ASSUME SharingInv, NEW c \in Caller, DownloadSettles(c), NEW h, h = task[c].hash,
           NEW gone, gone = {d \in Caller : d = c \/ task[d].with = c}
    PROVE  SharingInv'
<1>1. h \in Hash /\ Active(c) /\ downloadingTasks[h] = c
  BY DEF DownloadSettles, SharingInv, DownloadShapes, OwnersHoldTheirTask, Active
<1>2. /\ task' = [d \in Caller |-> IF d = c \/ task[d].with = c THEN NoTask ELSE task[d]]
      /\ downloadingTasks' = [downloadingTasks EXCEPT ![h] = NoCaller]
      /\ progressCallbacks' = progressCallbacks
  BY DEF DownloadSettles, TaskReturns
<1>3. /\ downloadingTasks' \in [Hash -> Caller \cup {NoCaller}] /\ downloadingTasks'[h] = NoCaller
      /\ \A g \in Hash \ {h} : downloadingTasks'[g] = downloadingTasks[g]
  BY <1>1, <1>2 DEF SharingInv, DownloadShapes
<1>4. DOMAIN task' = Caller /\ (\A d \in gone : task'[d] = NoTask)
      /\ \A d \in Caller \ gone : task'[d] = task[d]
  BY <1>2
<1>5. c \in gone /\ \A d \in gone : d = c \/ (task[d].at = "joined" /\ task[d].hash = h)
  BY NoCallerAssumption DEF SharingInv, JoinedShareOne
<1>6. \A d \in Caller \ gone : d # c /\ task[d].with # c
  OBVIOUS
<1>7. \A d \in gone : ~Active(d)' /\ ~Transferring(d)' /\ task'[d].with = NoCaller
                        /\ task'[d].at = "idle"
  BY <1>4, NoTaskShape DEF Active, Transferring
<1>8. \A d \in Caller \ gone : (Active(d)' <=> Active(d)) /\ (Transferring(d)' <=> Transferring(d))
  BY <1>4 DEF Active, Transferring
<1>9. \A d \in Caller : Active(d) /\ d # c => d \notin gone /\ task[d].hash # h
  BY <1>1, <1>5 DEF SharingInv, OwnersHoldTheirTask, Active
<1>10. DownloadShapes'
  BY <1>2, <1>3, <1>4, <1>7, NoTaskShape DEF SharingInv, DownloadShapes
<1>11. OwnersHoldTheirTask'
  <2>1. ASSUME NEW d \in Caller, Active(d)' PROVE downloadingTasks'[task'[d].hash] = d
    <3>1. d \in Caller \ gone /\ Active(d) /\ d # c /\ task'[d] = task[d]
      BY <2>1, <1>4, <1>6, <1>7, <1>8
    <3>2. task[d].hash \in Hash \ {h}
      BY <3>1, <1>9 DEF SharingInv, DownloadShapes, Active
    <3>. QED BY <3>1, <3>2, <1>3 DEF SharingInv, OwnersHoldTheirTask
  <2>2. ASSUME NEW g \in Hash, NEW d \in Caller, downloadingTasks'[g] = d
        PROVE  Active(d)' /\ task'[d].hash = g
    <3>1. g # h /\ downloadingTasks[g] = d
      BY <2>2, <1>3, NoCallerAssumption
    <3>2. Active(d) /\ task[d].hash = g /\ d # c
      BY <3>1 DEF SharingInv, OwnersHoldTheirTask
    <3>. QED BY <3>2, <1>4, <1>8, <1>9
  <2>. QED BY <2>1, <2>2 DEF OwnersHoldTheirTask
<1>12. JoinedShareOne'
  <2>1. \A d \in Caller : /\ task'[d].with \in Caller \cup {NoCaller}
                          /\ task'[d].at = "joined" => task'[d].with # NoCaller
    BY <1>4, <1>7 DEF SharingInv, JoinedShareOne
  <2>2. ASSUME NEW d \in Caller, NEW e \in Caller, task'[d].with = e
        PROVE  task'[d].at = "joined" /\ Active(e)' /\ task'[e].hash = task'[d].hash
    <3>1. d \in Caller \ gone /\ task'[d] = task[d] /\ task[d].with = e /\ e # c
      BY <2>2, <1>4, <1>6, <1>7, NoCallerAssumption
    <3>2. task[d].at = "joined" /\ Active(e) /\ task[e].hash = task[d].hash
      BY <3>1 DEF SharingInv, JoinedShareOne
    <3>3. e \in Caller \ gone
      BY <3>1, <3>2, <1>9
    <3>. QED BY <3>1, <3>2, <3>3, <1>4, <1>8
  <2>. QED BY <2>1, <2>2 DEF JoinedShareOne
<1>13. ProgressIsTold'
  <2>1. \A d, e \in Caller : task'[e].with = d => task[e].with = d
    BY <1>4, <1>7, NoCallerAssumption
  <2>. SUFFICES ASSUME NEW d \in Caller, Transferring(d)'
       PROVE  /\ d \in progressCallbacks'[task'[d].hash]
              /\ \A e \in Caller : task'[e].with = d => e \in progressCallbacks'[task'[d].hash]
    BY DEF ProgressIsTold
  <2>2. Transferring(d) /\ task'[d] = task[d]
    BY <1>4, <1>7, <1>8
  <2>. QED BY <2>1, <2>2, <1>2 DEF SharingInv, ProgressIsTold
<1>. QED BY <1>10, <1>11, <1>12, <1>13 DEF SharingInv

(* A download that has not settled goes on with the same version, and to   *)
(* storing its metadata only when its transfer succeeded.                  *)
GoesOn(c, t) ==
    /\ SameTask(task[c], t) /\ Active(c)
    /\ t.at \in {"rank", "native", "backoff", "persist", "settled", "failed"}
    /\ t.at \in {"rank", "native", "backoff"} => Transferring(c)
    /\ t.at = "persist" <=> NativeDownloadSucceeds(c)

(* A step of a download that does not settle it moves it on.               *)
LEMMA ProgressMoves ==
    ASSUME SharingInv, NEW c \in Caller, DownloadProgresses(c), ~DownloadSettles(c)
    PROVE  \E t : GoesOn(c, t) /\ Continues(c, t)
<1>1. Shaped(task[c])
  BY DEF SharingInv, DownloadShapes
<1>3. CASE RankDownloadUrls(c)
  <2>1. PICK urls \in {task[c].plan[task[c].next].urls} : \E w \in TestUrls(urls) :
            Continues(c, [task[c] EXCEPT !.at = "native", !.order = Ranked(urls, w),
                                         !.ranked[task[c].next] = Ranked(urls, w)])
    BY <1>3 DEF RankDownloadUrls
  <2>2. PICK order : Continues(c, [task[c] EXCEPT !.at = "native", !.order = order,
                                                  !.ranked[task[c].next] = order])
    BY <2>1
  <2>. DEFINE t == [task[c] EXCEPT !.at = "native", !.order = order,
                                   !.ranked[task[c].next] = order]
  <2>3. SameTask(task[c], t) /\ t.at = "native"
    BY <1>1, TaskFields DEF Shaped, SameTask
  <2>. HIDE DEF t
  <2>4. Continues(c, t)
    BY <2>2 DEF t
  <2>. QED
    BY <2>3, <2>4, <1>3
    DEF GoesOn, RankDownloadUrls, NativeDownloadSucceeds, Active, Transferring
<1>4. CASE NativeDownloadFails(c)
  <2>. DEFINE f == Demoted(Tried(task[c]))
  <2>1. SameTask(task[c], f) /\ f.at = "native" /\ Shaped(f)
    <3>1. SameTask(task[c], Tried(task[c])) /\ Tried(task[c]).at = "native"
      BY <1>1, <1>4, DemotedKeeps DEF NativeDownloadFails
    <3>. QED BY <3>1, DemotedKeeps DEF SameTask
  <2>. HIDE DEF f
  <2>2. PICK code : Continues(c, AfterFailure(f, code))
    BY <1>4 DEF NativeDownloadFails, f
  <2>. DEFINE t == AfterFailure(f, code)
  <2>3. SameTask(task[c], t) /\ t.at \in {"rank", "native", "failed", "backoff"}
    BY <2>1, AfterFailureKeeps DEF SameTask
  <2>. HIDE DEF t
  <2>4. Continues(c, t)
    BY <2>2 DEF t
  <2>5. ~NativeDownloadSucceeds(c)
    <3>1. task' = [task EXCEPT ![c] = t]
      BY <2>4 DEF Continues
    <3>2. task'[c].at # "persist"
      BY <3>1, <2>3, OneTaskChanges DEF SharingInv
    <3>3. SUFFICES ASSUME NativeDownloadSucceeds(c) PROVE FALSE
      OBVIOUS
    <3>. DEFINE p == [Tried(task[c]) EXCEPT !.at = "persist", !.order = <<>>]
    <3>4. task' = [task EXCEPT ![c] = p]
      BY <3>3 DEF NativeDownloadSucceeds, Continues
    <3>5. p.at = "persist"
      BY <1>1, DemotedKeeps, TaskFields DEF Shaped, SameTask
    <3>. HIDE DEF p
    <3>. QED BY <3>2, <3>4, <3>5, OneTaskChanges DEF SharingInv
  <2>. QED BY <2>3, <2>4, <1>4, <2>5 DEF GoesOn, NativeDownloadFails, Active, Transferring
<1>5. CASE NativeDownloadSucceeds(c)
  <2>. DEFINE t == [Tried(task[c]) EXCEPT !.at = "persist", !.order = <<>>]
  <2>1. SameTask(task[c], Tried(task[c])) /\ Shaped(Tried(task[c]))
    BY <1>1, DemotedKeeps DEF SameTask
  <2>2. SameTask(task[c], t) /\ t.at = "persist"
    BY <2>1, TaskFields DEF Shaped, SameTask
  <2>3. Continues(c, t)
    BY <1>5 DEF NativeDownloadSucceeds
  <2>. HIDE DEF t
  <2>. QED BY <2>2, <2>3, <1>5, <2>3 DEF GoesOn, NativeDownloadSucceeds, Active
<1>6. CASE BackoffOver(c)
  <2>. DEFINE s == [task[c] EXCEPT !.attempt = @ + 1, !.next = 1, !.tried = {}]
              t == NextStrategy(s)
  <2>1. SameTask(task[c], s)
    BY <1>1, TaskFields DEF Shaped, SameTask
  <2>2. Continues(c, t)
    BY <1>6 DEF BackoffOver
  <2>. HIDE DEF s
  <2>3. SameTask(task[c], t) /\ t.at \in {"rank", "native", "failed", "backoff"}
    BY <2>1, NextStrategyKeeps DEF SameTask
  <2>. HIDE DEF t
  <2>. QED BY <2>2, <2>3, <1>6 DEF GoesOn, NativeDownloadSucceeds, BackoffOver, Active, Transferring
<1>7. CASE PersistHashInfo(c)
  <2>1. /\ SameTask(task[c], [task[c] EXCEPT !.at = "settled"])
        /\ [task[c] EXCEPT !.at = "settled"].at = "settled"
    BY <1>1, SetsPlace
  <2>2. Continues(c, [task[c] EXCEPT !.at = "settled"])
    BY <1>7 DEF PersistHashInfo
  <2>. QED BY <2>1, <2>2, <1>7 DEF GoesOn, NativeDownloadSucceeds, PersistHashInfo, Active
<1>. QED BY <1>3, <1>4, <1>5, <1>6, <1>7 DEF DownloadProgresses

(* A step of a download keeps the sharing.                                 *)
LEMMA ProgressShares ==
    ASSUME SharingInv, NEW c \in Caller, DownloadProgresses(c)
    PROVE  SharingInv'
<1>1. CASE DownloadSettles(c)
  BY <1>1, SettlingShares
<1>2. CASE ~DownloadSettles(c)
  <2>1. PICK t : GoesOn(c, t) /\ Continues(c, t)
    BY <1>2, ProgressMoves
  <2>. QED BY <2>1, ContinuesShares DEF GoesOn
<1>. QED BY <1>1, <1>2

(* Every step of the downloads keeps the sharing.                          *)
LEMMA DownloadStepShares ==
    ASSUME SharingInv, DownloadStep
    PROVE  SharingInv'
<1>1. ASSUME NEW c \in Caller, NEW h \in Hash, NEW plan \in Plan, DownloadUpdate(c, h, plan)
      PROVE  SharingInv'
  <2>. DEFINE t == [NoTask EXCEPT !.at = "hook", !.hash = h, !.plan = plan]
  <2>1. Shaped(t) /\ t.at = "hook" /\ t.with = NoCaller /\ t.hash = h
    BY TaskFields DEF NoTask, Shaped
  <2>2. task' = [task EXCEPT ![c] = t] /\ task[c].at = "idle"
        /\ UNCHANGED <<downloadingTasks, progressCallbacks>>
    BY <1>1 DEF DownloadUpdate
  <2>. HIDE DEF t
  <2>. QED BY <2>1, <2>2, IdlingShares
<1>2. ASSUME NEW c \in Caller, DownloadSkipped(c) PROVE SharingInv'
  BY <1>2, IdlingShares, NoTaskShape DEF DownloadSkipped
<1>3. ASSUME NEW c \in Caller, AfterDownloadHook(c) PROVE SharingInv'
  <2>1. downloadingTasks[task[c].hash] \in Caller \cup {NoCaller}
    BY <1>3 DEF SharingInv, DownloadShapes, AfterDownloadHook
  <2>. QED BY <1>3, <2>1, JoiningShares, PerformingShares
<1>4. CASE DownloadAndInstallApk \/ ApkAnswers
  <2>1. UNCHANGED <<task, downloadingTasks, progressCallbacks>>
    BY <1>4 DEF DownloadAndInstallApk, ApkAnswers
  <2>. QED BY <2>1 DEF SharingInv, DownloadShapes, OwnersHoldTheirTask, JoinedShareOne,
                       ProgressIsTold, Active, Transferring
<1>. QED BY <1>1, <1>2, <1>3, <1>4, ProgressShares DEF DownloadStep

(* A JS context without downloads shares nothing.                          *)
LEMMA FreshShares ==
    ASSUME task = [c \in Caller |-> NoTask], downloadingTasks = [h \in Hash |-> NoCaller],
           progressCallbacks = [h \in Hash |-> {}]
    PROVE  SharingInv
<1>1. \A c \in Caller : task[c] = NoTask
  OBVIOUS
<1>. QED BY <1>1, NoTaskShape, NoCallerAssumption
         DEF SharingInv, DownloadShapes, OwnersHoldTheirTask, JoinedShareOne, ProgressIsTold,
             Active, Transferring

(* What is persisted is on disk unless a reset fell into it.               *)
PersistedIsThere ==
    \A c \in Caller : task[c].at = "persist" /\ c \notin wiped => task[c].hash \in installed

DiskInv == PersistedIsThere /\ DownloadedIsOnDisk

(* Only a transfer that succeeded brings a task to where its metadata is   *)
(* stored.                                                                 *)
LEMMA PersistedByTransfer ==
    ASSUME SharingInv, DownloadStep, NEW d \in Caller, task'[d].at = "persist"
    PROVE  \/ task'[d] = task[d] /\ (d \in wiped => d \in wiped')
           \/ NativeDownloadSucceeds(d) /\ task'[d].hash = task[d].hash
<1>1. ASSUME NEW c \in Caller, NEW t, task' = [task EXCEPT ![c] = t], t.at # "persist",
             wiped \ {c} \subseteq wiped'
      PROVE  task'[d] = task[d] /\ (d \in wiped => d \in wiped')
  BY <1>1, OneTaskChanges DEF SharingInv
<1>2. ASSUME NEW c \in Caller, NEW h \in Hash, NEW plan \in Plan, DownloadUpdate(c, h, plan)
      PROVE  task'[d] = task[d] /\ (d \in wiped => d \in wiped')
  <2>. DEFINE t == [NoTask EXCEPT !.at = "hook", !.hash = h, !.plan = plan]
  <2>1. t.at # "persist"
    BY DEF NoTask
  <2>2. task' = [task EXCEPT ![c] = t] /\ wiped' = wiped \ {c}
    BY <1>2 DEF DownloadUpdate
  <2>. HIDE DEF t
  <2>. QED BY <1>1, <2>1, <2>2
<1>3. ASSUME NEW c \in Caller, DownloadSkipped(c)
      PROVE  task'[d] = task[d] /\ (d \in wiped => d \in wiped')
  BY <1>1, <1>3, NoTaskShape DEF DownloadSkipped, UnchangedByTask
<1>4. ASSUME NEW c \in Caller, AfterDownloadHook(c)
      PROVE  task'[d] = task[d] /\ (d \in wiped => d \in wiped')
  <2>1. wiped' = wiped /\ Shaped(task[c]) /\ c \in DOMAIN task
    BY <1>4 DEF AfterDownloadHook, UnchangedByTask, SharingInv, DownloadShapes
  <2>. DEFINE h == task[c].hash
              j == [NoTask EXCEPT !.at = "joined", !.hash = h, !.with = downloadingTasks[h]]
              s == [task[c] EXCEPT !.ranked = [i \in DOMAIN task[c].plan |-> <<>>]]
              t == NextStrategy(s)
  <2>2. task' = [task EXCEPT ![c] = j] \/ task' = [task EXCEPT ![c] = t]
    BY <1>4, <2>1 DEF AfterDownloadHook, PerformDownload
  <2>3. Shaped(s)
    BY <2>1, TaskFields DEF Shaped
  <2>4. j.at = "joined"
    BY DEF NoTask
  <2>. HIDE DEF s, j
  <2>5. t.at # "persist"
    BY <2>3, NextStrategyKeeps
  <2>. HIDE DEF t
  <2>. QED BY <1>1, <2>1, <2>2, <2>4, <2>5
<1>5. ASSUME NEW c \in Caller, DownloadProgresses(c), ~DownloadSettles(c)
      PROVE  \/ task'[d] = task[d] /\ (d \in wiped => d \in wiped')
             \/ NativeDownloadSucceeds(d) /\ task'[d].hash = task[d].hash
  <2>1. PICK t : GoesOn(c, t) /\ Continues(c, t)
    BY <1>5, ProgressMoves
  <2>2. task' = [task EXCEPT ![c] = t]
    BY <2>1 DEF Continues
  <2>3. wiped \ {c} \subseteq wiped'
    BY <1>5 DEF DownloadProgresses, RankDownloadUrls, NativeDownloadFails, NativeDownloadSucceeds,
               BackoffOver, PersistHashInfo, UnchangedByTask
  <2>4. CASE t.at # "persist"
    BY <1>1, <2>2, <2>3, <2>4
  <2>5. CASE t.at = "persist"
    <3>1. NativeDownloadSucceeds(c) /\ t.hash = task[c].hash
      BY <2>1, <2>5 DEF GoesOn, SameTask
    <3>2. task'[c] = t /\ (d # c => task'[d] = task[d])
      BY <2>2, OneTaskChanges DEF SharingInv
    <3>3. wiped' = wiped
      BY <3>1 DEF NativeDownloadSucceeds
    <3>. QED BY <3>1, <3>2, <3>3
  <2>. QED BY <2>4, <2>5
<1>6. ASSUME NEW c \in Caller, DownloadSettles(c)
      PROVE  task'[d] = task[d] /\ (d \in wiped => d \in wiped')
  <2>1. task'[d] = task[d] \/ task'[d] = NoTask
    BY <1>6 DEF DownloadSettles, TaskReturns
  <2>. QED BY <1>6, <2>1, NoTaskShape DEF DownloadSettles, UnchangedByTask
<1>7. CASE DownloadAndInstallApk \/ ApkAnswers
  BY <1>7 DEF DownloadAndInstallApk, ApkAnswers
<1>. QED BY <1>2, <1>3, <1>4, <1>5, <1>6, <1>7 DEF DownloadStep

(* Every step of the downloads keeps what the disk promises.               *)
LEMMA DownloadStepDisk ==
    ASSUME SharingInv, DiskInv, DownloadStep, UNCHANGED act
    PROVE  DiskInv'
<1>1. installed \subseteq installed'
  BY DEF DownloadStep, DownloadUpdate, DownloadSkipped, AfterDownloadHook, DownloadProgresses,
     RankDownloadUrls, NativeDownloadFails, NativeDownloadSucceeds, BackoffOver, PersistHashInfo,
     DownloadSettles, DownloadAndInstallApk, ApkAnswers, UnchangedByTask, nativeFiles
<1>2. PersistedIsThere'
  <2>. SUFFICES ASSUME NEW d \in Caller, task'[d].at = "persist", d \notin wiped'
       PROVE  task'[d].hash \in installed'
    BY DEF PersistedIsThere
  <2>1. CASE task'[d] = task[d] /\ (d \in wiped => d \in wiped')
    BY <2>1, <1>1 DEF DiskInv, PersistedIsThere
  <2>2. CASE NativeDownloadSucceeds(d) /\ task'[d].hash = task[d].hash
    BY <2>2 DEF NativeDownloadSucceeds
  <2>. QED BY <2>1, <2>2, PersistedByTransfer
<1>3. DownloadedIsOnDisk'
  <2>1. CASE \E c \in Caller : PersistHashInfo(c) /\ downloadedHash' = task[c].hash
                /\ named' = named \cup {task[c].hash} /\ tainted' = (c \in wiped)
    BY <2>1, <1>1 DEF DiskInv, PersistedIsThere, DownloadedIsOnDisk, PersistHashInfo
  <2>2. CASE UNCHANGED <<downloadedHash, named, tainted>>
    BY <2>2, <1>1 DEF DiskInv, DownloadedIsOnDisk
  <2>3. UNCHANGED <<downloadedHash, named, tainted>> \/ \E c \in Caller : PersistHashInfo(c)
    BY DEF DownloadStep, DownloadUpdate, DownloadSkipped, AfterDownloadHook, DownloadProgresses,
       RankDownloadUrls, NativeDownloadFails, NativeDownloadSucceeds, BackoffOver,
       DownloadSettles, DownloadAndInstallApk, ApkAnswers, UnchangedByTask, nativeFiles
  <2>. QED BY <2>1, <2>2, <2>3 DEF PersistHashInfo
<1>. QED BY <1>2, <1>3 DEF DiskInv

(* Only a reset takes versions away, and while it has yet to say so to JS  *)
(* nothing else ends its call.                                             *)
LEMMA OnlyResetsTake ==
    ASSUME LeaseInv, ActStep
    PROVE  /\ UNCHANGED <<downloadingTasks, progressCallbacks>>
           /\ \/ \E c \in Caller : NativeReset(c)
              \/ \E c \in Caller : ResetResolves(c)
              \/ /\ UNCHANGED <<downloadedHash, installed, named>>
                 /\ \A d \in Caller : act[d].at = "resetDone" => act'[d].at = "resetDone"
<1>. DEFINE Keeps == /\ UNCHANGED <<downloadedHash, installed, named>>
                     /\ UNCHANGED <<downloadingTasks, progressCallbacks>>
                     /\ \A d \in Caller : act[d].at = "resetDone" => act'[d].at = "resetDone"
<1>1. ASSUME NEW c \in Caller, NEW h \in Hash, SwitchVersion(c, h) PROVE Keeps
  BY <1>1 DEF SwitchVersion, UnchangedBySwitch, nativeFiles, LeaseInv, LeaseTypes
<1>2. ASSUME NEW c \in Caller, RestartApp(c) \/ RestartHook(c) \/ RestartEnds(c) PROVE Keeps
  BY <1>2 DEF RestartApp, RestartHook, RestartEnds, Goes, Returns, UnchangedByOthers, sharedVars,
              nativeFiles, LeaseInv, LeaseTypes
<1>3. ASSUME NEW c \in Caller, NEW restart \in BOOLEAN, ResetToPackagedBundle(c, restart)
      PROVE  Keeps
  BY <1>3 DEF ResetToPackagedBundle, UnchangedByOthers, sharedVars,
              nativeFiles, LeaseInv, LeaseTypes
<1>4. ASSUME NEW c \in Caller, HookAllows(c) \/ ResetFails(c) PROVE Keeps
  BY <1>4 DEF HookAllows, AfterHook, ResetFails, Goes, Returns, UnchangedByOthers, sharedVars,
              nativeFiles, LeaseInv, LeaseTypes
<1>5. ASSUME NEW c \in Caller, (Switching(c) /\ SwitchEnds(c)) \/ ReloadResolves(c) PROVE Keeps
  BY <1>5 DEF Switching, SwitchEnds, ReloadResolves, Returns, UnchangedBySwitch, nativeFiles, LeaseInv,
              LeaseTypes
<1>6. ASSUME ActTimer PROVE Keeps
  BY <1>6 DEF ActTimer, TimerDue, TimerFires, UnchangedByOthers, UnchangedBySwitch, sharedVars,
              nativeFiles
<1>7. ASSUME NEW c \in Caller, NativeReset(c) \/ ResetResolves(c)
      PROVE  UNCHANGED <<downloadingTasks, progressCallbacks>>
  BY <1>7 DEF NativeReset, ResetResolves, sharedVars
<1>. QED BY <1>1, <1>2, <1>3, <1>4, <1>5, <1>6, <1>7 DEF ActStep, ActReply, ActHook, HookDeclines, ReloadFails,
          Switching

(* A switch or a reset beside the downloads keeps both.                    *)
LEMMA BesideDownloadsDisk ==
    ASSUME LeaseInv, SharingInv, DiskInv, ActStep, BesideDownloads
    PROVE  SharingInv' /\ DiskInv'
<1>1. UNCHANGED <<task, downloadingTasks, progressCallbacks, tainted>> /\ wiped \subseteq wiped'
  BY OnlyResetsTake DEF BesideDownloads
<1>2. SharingInv'
  BY <1>1 DEF SharingInv, DownloadShapes, OwnersHoldTheirTask, JoinedShareOne, ProgressIsTold,
              Active, Transferring
<1>3. ASSUME NEW c \in Caller, NativeReset(c) PROVE DiskInv'
  <2>1. act'[c].at = "resetDone" /\ NativeResetNow
    BY <1>3, GoesTo DEF NativeReset, Place, NativeResetNow, LeaseInv
  <2>2. \A d \in Caller : task[d].at = "persist" => d \in wiped'
    BY <2>1 DEF BesideDownloads, Exposed
  <2>. QED BY <1>1, <2>1, <2>2 DEF DiskInv, PersistedIsThere, DownloadedIsOnDisk
<1>4. ASSUME NEW c \in Caller, ResetResolves(c) PROVE DiskInv'
  BY <1>1, <1>4 DEF ResetResolves, nativeFiles, DiskInv, PersistedIsThere, DownloadedIsOnDisk
<1>5. ASSUME UNCHANGED <<downloadedHash, installed, named>>,
             \A d \in Caller : act[d].at = "resetDone" => act'[d].at = "resetDone"
      PROVE  DiskInv'
  BY <1>1, <1>5 DEF DiskInv, PersistedIsThere, DownloadedIsOnDisk
<1>. QED BY <1>2, <1>3, <1>4, <1>5, OnlyResetsTake

(* A JS context that downloaded nothing promises nothing.                  *)
LEMMA FreshDisk ==
    ASSUME \A c \in Caller : task[c] = NoTask, downloadedHash = NoHash
    PROVE  DiskInv
BY NoTaskShape DEF DiskInv, PersistedIsThere, DownloadedIsOnDisk

UpdatesInv == LeaseInv /\ SharingInv /\ DiskInv

(* The invariant holds when the app starts.                                *)
LEMMA UpdatesInitInv == UpdateClientInit => UpdatesInv
<1>. SUFFICES ASSUME UpdateClientInit PROVE UpdatesInv
  OBVIOUS
<1>1. LeaseInv
  BY LeaseInit DEF UpdateClientInit
<1>2. /\ task = [c \in Caller |-> NoTask] /\ downloadingTasks = [h \in Hash |-> NoCaller]
      /\ progressCallbacks = [h \in Hash |-> {}] /\ downloadedHash = NoHash
  BY DEF UpdateClientInit, ClientStateInit, DownloaderInit
<1>. QED BY <1>1, <1>2, FreshShares, FreshDisk DEF UpdatesInv

(* A reload replaces the JS context and keeps the invariant.               *)
LEMMA ReplacedInv ==
    ASSUME ContextReplaced, task' = [c \in Caller |-> NoTask]
    PROVE  SharingInv' /\ DiskInv'
<1>1. downloadingTasks' = [h \in Hash |-> NoCaller] /\ progressCallbacks' = [h \in Hash |-> {}]
      /\ downloadedHash' = NoHash
  BY DEF ContextReplaced, FreshShared
<1>2. \A c \in Caller : task'[c] = NoTask
  OBVIOUS
<1>3. SharingInv'
  BY <1>1, <1>2, NoTaskShape, NoCallerAssumption
     DEF SharingInv, DownloadShapes, OwnersHoldTheirTask, JoinedShareOne, ProgressIsTold,
         Active, Transferring
<1>4. DiskInv'
  BY <1>1, <1>2, NoTaskShape DEF DiskInv, PersistedIsThere, DownloadedIsOnDisk
<1>. QED BY <1>3, <1>4

(* Every step of downloads, switches and resets keeps the invariant.       *)
LEMMA UpdatesStep == UpdatesInv /\ [UpdateClientNext]_updateClientVars => UpdatesInv'
<1>. SUFFICES ASSUME UpdatesInv, [UpdateClientNext]_updateClientVars PROVE UpdatesInv'
  OBVIOUS
<1>. USE DEF UpdatesInv
<1>1. CASE ActStep /\ BesideDownloads
  <2>1. LeaseInv'
    BY <1>1, LeaseStep DEF ActNext
  <2>. QED BY <1>1, <2>1, BesideDownloadsDisk
<1>2. CASE DownloadStep /\ UNCHANGED actVars
  <2>1. UNCHANGED leaseVars
    BY <1>2 DEF DownloadStep, DownloadUpdate, DownloadSkipped, AfterDownloadHook,
       DownloadProgresses, RankDownloadUrls, NativeDownloadFails, NativeDownloadSucceeds,
       BackoffOver, PersistHashInfo,
       DownloadSettles, DownloadAndInstallApk, ApkAnswers, UnchangedByTask, UnchangedByDownload,
       actVars, leaseVars
  <2>2. LeaseInv'
    BY <2>1 DEF leaseVars, LeaseInv, LeaseTypes, GenerationsArePast, FlagHasOneOwner,
                WatchdogIsOwner, IsOwner, Switching
  <2>3. UNCHANGED act
    BY <1>2 DEF actVars
  <2>. QED BY <1>2, <2>2, <2>3, DownloadStepShares, DownloadStepDisk
<1>3. CASE reloading /\ ContextReplaced /\ DownloadsOrphaned
  <2>1. LeaseInv'
    BY <1>3, LeaseStep DEF ActNext
  <2>. QED BY <1>3, <2>1, ReplacedInv DEF DownloadsOrphaned
<1>4. CASE UNCHANGED updateClientVars
  <2>1. UNCHANGED <<task, wiped, tainted, downloadedHash, installed, named, act,
                    downloadingTasks, progressCallbacks>> /\ UNCHANGED leaseVars
    BY <1>4 DEF updateClientVars, sharedVars, nativeFiles, actVars, taskVars, leaseVars
  <2>2. LeaseInv'
    BY <2>1 DEF leaseVars, LeaseInv, LeaseTypes, GenerationsArePast, FlagHasOneOwner,
                WatchdogIsOwner, IsOwner, Switching
  <2>3. SharingInv'
    BY <2>1 DEF SharingInv, DownloadShapes, OwnersHoldTheirTask, JoinedShareOne, ProgressIsTold,
                Active, Transferring
  <2>4. DiskInv'
    BY <2>1 DEF DiskInv, PersistedIsThere, DownloadedIsOnDisk
  <2>. QED BY <2>2, <2>3, <2>4
<1>. QED BY <1>1, <1>2, <1>3, <1>4 DEF UpdateClientNext

(* The switches of a client that downloads nothing.                        *)
LEMMA SwitchesStep ==
    ASSUME UpdatesInv, ActNext, UNCHANGED taskVars, task = [c \in Caller |-> NoTask]
    PROVE  UpdatesInv'
<1>1. LeaseInv'
  BY LeaseStep DEF UpdatesInv
<1>2. \A c \in Caller : task'[c] = NoTask /\ task[c] = NoTask
  BY DEF taskVars
<1>3. PersistedIsThere'
  BY <1>2, NoTaskShape DEF PersistedIsThere
<1>4. CASE ActStep
  <2>1. SharingInv'
    <3>1. UNCHANGED <<task, downloadingTasks, progressCallbacks>>
      BY <1>4, OnlyResetsTake DEF taskVars, UpdatesInv
    <3>. QED BY <3>1 DEF UpdatesInv, SharingInv, DownloadShapes, OwnersHoldTheirTask,
                         JoinedShareOne, ProgressIsTold, Active, Transferring
  <2>2. DownloadedIsOnDisk'
    <3>1. ASSUME NEW c \in Caller, NativeReset(c) PROVE DownloadedIsOnDisk'
      BY <3>1, GoesTo DEF NativeReset, Place, UpdatesInv, LeaseInv, DownloadedIsOnDisk
    <3>2. ASSUME NEW c \in Caller, ResetResolves(c) PROVE DownloadedIsOnDisk'
      BY <3>2 DEF ResetResolves, DownloadedIsOnDisk
    <3>3. ASSUME UNCHANGED <<downloadedHash, installed, named>>,
                 \A d \in Caller : act[d].at = "resetDone" => act'[d].at = "resetDone"
          PROVE  DownloadedIsOnDisk'
      BY <3>3 DEF taskVars, UpdatesInv, DiskInv, DownloadedIsOnDisk
    <3>. QED BY <1>4, <3>1, <3>2, <3>3, OnlyResetsTake DEF UpdatesInv
  <2>. QED BY <1>1, <1>3, <2>1, <2>2 DEF UpdatesInv, DiskInv
<1>5. CASE MarkSuccess \/ PerformMarkSuccess \/ \E h \in Hash : DownloadArrives(h)
  <2>1. UNCHANGED <<task, downloadingTasks, progressCallbacks, tainted, act>>
    BY <1>5 DEF MarkSuccess, PerformMarkSuccess, DownloadArrives, taskVars, actVars
  <2>2. SharingInv'
    BY <2>1 DEF UpdatesInv, SharingInv, DownloadShapes, OwnersHoldTheirTask, JoinedShareOne,
                ProgressIsTold, Active, Transferring
  <2>3. DownloadedIsOnDisk'
    BY <1>5, <2>1 DEF UpdatesInv, DiskInv, DownloadedIsOnDisk, MarkSuccess, PerformMarkSuccess,
                      DownloadArrives, nativeFiles
  <2>. QED BY <1>1, <1>3, <2>2, <2>3 DEF UpdatesInv, DiskInv
<1>6. CASE ContextReplaced
  BY <1>1, <1>6, ReplacedInv DEF taskVars, UpdatesInv
<1>. QED BY <1>4, <1>5, <1>6 DEF ActNext

-----------------------------------------------------------------------------
(***************************************************************************)
(* What an attempt tries                                                   *)
(***************************************************************************)
Kind == {"diff", "pdiff", "full"}
Plans == Seq([type : Kind, urls : Seq(Candidate)])
Kinds == SUBSET Kind
Rankings == Seq(Seq(Candidate))
Tries == SUBSET (Kind \X Candidate)
Task == [at : TaskPlace, hash : MaybeHash, plan : Plan \cup {<<>>}, attempt : 0..MaxRetries,
         next : Nat, ranked : Rankings, order : Seq(Candidate), exhausted : Kinds,
         tried : Tries, spoiled : Kinds, with : Caller \cup {NoCaller}]

(* A strategy there is nothing left to try of.                             *)
Over(t, i) ==
    \/ t.plan[i].type \in t.spoiled
    \/ \A u \in Contents(t.plan[i].urls) : <<t.plan[i].type, u>> \in t.tried

(* However mirrors were ranked or demoted, none of them was lost.          *)
NoneIsLost(t) ==
    /\ DOMAIN t.ranked = DOMAIN t.plan
    /\ \A i \in DOMAIN t.plan :
          t.ranked[i] = <<>> \/ Contents(t.plan[i].urls) \subseteq Contents(t.ranked[i])
    /\ t.exhausted = t.spoiled

(* What comes before the next strategy is over.                            *)
SoFar(t) ==
    t.next \in Nat \ {0} /\ \A i \in DOMAIN t.plan : i < t.next => Over(t, i)

(* The mirrors of the strategy under way are tried or still to be tried.   *)
ToTry(t) ==
    /\ t.order # <<>>
    /\ \A u \in Contents(t.plan[t.next].urls) :
          u \in Contents(t.order) \/ <<t.plan[t.next].type, u>> \in t.tried

(* A task has its fields and has lost no mirror of its plan so far.        *)
AttemptInv(t) ==
    /\ t \in Task
    /\ t.exhausted \subseteq Type(t.plan)
    /\ t.at = "hook" => t.exhausted = {} /\ t.spoiled = {} /\ t.next = 1
    /\ t.at \in {"rank", "native", "backoff"} => NoneIsLost(t)
    /\ t.at \in {"rank", "native"} => t.next \in DOMAIN t.plan /\ SoFar(t)
    /\ t.at = "native" => ToTry(t)
    /\ t.at = "backoff" => t.attempt < MaxRetries
    /\ t.at \in {"backoff", "failed"} => \A i \in DOMAIN t.plan : Over(t, i)

(* A plan is a list of strategies.                                         *)
LEMMA PlansAre ==
    ASSUME NEW plan \in Plan \cup {<<>>}
    PROVE  /\ plan \in Plans /\ Len(plan) \in Nat /\ DOMAIN plan = 1..Len(plan)
           /\ \A i \in DOMAIN plan : /\ plan[i].type \in Kind /\ plan[i].type \in Type(plan)
                                     /\ plan[i].urls \in Seq(Candidate)
<1>. DEFINE Entry == [type : Kind, urls : Seq(Urls)]
            Wider == [type : Kind, urls : Seq(Candidate)]
<1>0. plan \in Seq(Entry)
  <2>1. \A p \in Plan : p \in Seq(Entry)
    BY PlanAssumption, Zenon DEF PlanAssumption, Kind
  <2>2. ASSUME NEW X PROVE <<>> \in Seq(X)
    OBVIOUS
  <2>3. <<>> \in Seq(Entry)
    BY <2>2
  <2>. QED BY <2>1, <2>3
<1>4. Entry \subseteq Wider
  <2>1. \A s \in Seq(Urls) : s \in Seq(Candidate)
    BY SeqDef DEF Candidate
  <2>. QED BY <2>1
<1>. HIDE DEF Entry, Wider
<1>1. plan \in Plans
  <2>1. plan \in Seq(Wider)
    BY <1>0, <1>4, SeqDef
  <2>. QED BY <2>1 DEF Wider, Plans
<1>2. Len(plan) \in Nat /\ DOMAIN plan = 1..Len(plan)
  BY <1>0, ListOf
<1>3. ASSUME NEW i \in DOMAIN plan
      PROVE  plan[i].type \in Kind /\ plan[i].urls \in Seq(Candidate)
  <2>1. plan[i] \in Wider
    BY <1>0, <1>2, <1>4
  <2>. QED BY <2>1 DEF Wider
<1>. QED BY <1>1, <1>2, <1>3 DEF Type

(* Positions that are any have a first one.                                *)
LEMMA FirstOne ==
    ASSUME NEW n \in Nat, NEW kept \in SUBSET (1..n), kept # {}
    PROVE  \E i \in kept : \A j \in kept : i <= j
<1>1. Positions(kept)
  <2>1. IsFiniteSet(1..n)
    BY FS_Interval
  <2>2. kept \subseteq 1..n /\ kept \subseteq Nat
    OBVIOUS
  <2>. QED BY <2>1, <2>2, FS_Subset DEF Positions
<1>2. Cardinality(kept) \in Nat /\ Cardinality(kept) # 0 /\ IsFiniteSet(kept)
  BY <1>1, PositionsAreFinite, FS_EmptySet DEF Positions
<1>3. 1 \in 1..Cardinality(kept)
  BY <1>2
<1>4. PICK i \in kept : Cardinality(Upto(kept, i)) = 1
  BY <1>1, <1>3, EveryRankIsTaken
<1>5. ASSUME NEW j \in kept PROVE i <= j
  <2>1. CASE j < i
    <3>1. Cardinality(Upto(kept, j)) < 1
      BY <1>1, <1>4, <2>1, LaterHasMore
    <3>2. Cardinality(Upto(kept, j)) \in 1..Cardinality(kept)
      BY <1>1, PositionsAreFinite
    <3>. QED BY <1>2, <3>1, <3>2
  <2>2. i \in Nat /\ j \in Nat
    OBVIOUS
  <2>. QED BY <2>1, <2>2
<1>. QED BY <1>5

(* The fields of a task that has its type.                                 *)
LEMMA TaskIs ==
    ASSUME NEW t \in Task
    PROVE  /\ t.at \in TaskPlace /\ t.hash \in MaybeHash /\ t.plan \in Plan \cup {<<>>}
           /\ t.attempt \in 0..MaxRetries /\ t.next \in Nat /\ t.ranked \in Rankings
           /\ t.order \in Seq(Candidate) /\ t.exhausted \in Kinds /\ t.tried \in Tries
           /\ t.spoiled \in Kinds /\ t.with \in Caller \cup {NoCaller}
BY DEF Task

(* Where the next strategy is.                                             *)
ToRank(t, i) == [t EXCEPT !.at = "rank", !.next = i]
ToNative(t, i, o) == [t EXCEPT !.at = "native", !.next = i, !.order = o]
To(t, p) == [t EXCEPT !.at = p]

(* The fields of a task that has its next strategy to rank.                *)
LEMMA GoesRank ==
    ASSUME NEW t \in Task, NEW i \in Nat, NEW u, u = ToRank(t, i)
    PROVE  /\ u \in Task /\ u.at = "rank" /\ u.next = i /\ u.plan = t.plan
           /\ u.exhausted = t.exhausted /\ u.spoiled = t.spoiled /\ u.tried = t.tried
           /\ u.ranked = t.ranked
BY DEF Task, TaskPlace, ToRank

(* The fields of a task that has its next mirror to ask.                   *)
LEMMA GoesNative ==
    ASSUME NEW t \in Task, NEW i \in Nat, NEW o \in Seq(Candidate),
           NEW u, u = ToNative(t, i, o)
    PROVE  /\ u \in Task /\ u.at = "native" /\ u.next = i /\ u.plan = t.plan
           /\ u.exhausted = t.exhausted /\ u.spoiled = t.spoiled /\ u.tried = t.tried
           /\ u.ranked = t.ranked /\ u.order = o
BY DEF Task, TaskPlace, ToNative

(* The fields of a task that goes elsewhere.                               *)
LEMMA GoesAway ==
    ASSUME NEW t \in Task, NEW p \in TaskPlace, NEW u, u = To(t, p)
    PROVE  /\ u \in Task /\ u.at = p /\ u.plan = t.plan
           /\ u.exhausted = t.exhausted /\ u.spoiled = t.spoiled /\ u.tried = t.tried
           /\ u.ranked = t.ranked /\ u.attempt = t.attempt
BY DEF Task, To

(* The next strategy is the first one left, and what is before it was      *)
(* tried or is exhausted.                                                  *)
LEMMA NextStrategyInv ==
    ASSUME NEW t \in Task, t.exhausted \subseteq Type(t.plan), NoneIsLost(t), SoFar(t)
    PROVE  AttemptInv(NextStrategy(t))
<1>. DEFINE u == NextStrategy(t)
            first == CHOOSE i \in Left(t) : \A j \in Left(t) : i <= j
<1>1. /\ t.plan \in Plan \cup {<<>>} /\ t.next \in Nat /\ t.ranked \in Rankings
      /\ t.attempt \in 0..MaxRetries /\ MaxRetries \in Nat
  BY TaskIs, PlanAssumption
<1>2. Len(t.plan) \in Nat /\ DOMAIN t.plan = 1..Len(t.plan)
  BY <1>1, PlansAre
<1>3. ASSUME NEW i \in DOMAIN t.plan, i \notin Left(t) PROVE Over(t, i)
  <2>1. CASE i < t.next
    BY <2>1 DEF SoFar
  <2>2. CASE ~(i < t.next)
    <3>1. t.plan[i].type \in t.exhausted
      BY <1>1, <1>2, <1>3, <2>2 DEF Left
    <3>. QED BY <3>1 DEF NoneIsLost, Over
  <2>. QED BY <2>1, <2>2
<1>4. CASE Left(t) # {}
  <2>1. first \in Left(t) /\ \A j \in Left(t) : first <= j
    <3>1. Left(t) \in SUBSET (1..Len(t.plan))
      BY <1>2 DEF Left
    <3>2. \E i \in Left(t) : \A j \in Left(t) : i <= j
      BY <1>2, <1>4, <3>1, FirstOne
    <3>. QED BY <3>2
  <2>. HIDE DEF first
  <2>2. first \in DOMAIN t.plan /\ first \in Nat \ {0}
    BY <1>2, <2>1 DEF Left
  <2>3. ASSUME NEW i \in DOMAIN t.plan, i < first PROVE Over(t, i)
    <3>1. i \notin Left(t)
      BY <1>2, <2>1, <2>2, <2>3
    <3>. QED BY <1>3, <3>1
  <2>4. CASE t.ranked[first] = <<>>
    <3>1. u = ToRank(t, first)
      BY <1>4, <2>4 DEF NextStrategy, first, ToRank
    <3>. HIDE DEF u
    <3>2. /\ u \in Task /\ u.at = "rank" /\ u.next = first /\ u.plan = t.plan
          /\ u.exhausted = t.exhausted /\ u.spoiled = t.spoiled /\ u.tried = t.tried
          /\ u.ranked = t.ranked
      BY <2>2, <3>1, GoesRank
    <3>3. AttemptInv(u)
      BY <2>2, <2>3, <3>2 DEF AttemptInv, NoneIsLost, SoFar, Over
    <3>. QED BY <3>3 DEF u
  <2>5. CASE t.ranked[first] # <<>>
    <3>1. u = ToNative(t, first, t.ranked[first])
      BY <1>4, <2>5 DEF NextStrategy, first, ToNative
    <3>. HIDE DEF u
    <3>2. t.ranked[first] \in Seq(Candidate)
      <4>1. DOMAIN t.ranked = DOMAIN t.plan
        BY DEF NoneIsLost
      <4>. QED BY <1>1, <2>2, <4>1 DEF Rankings
    <3>3. /\ u \in Task /\ u.at = "native" /\ u.next = first /\ u.plan = t.plan
          /\ u.exhausted = t.exhausted /\ u.spoiled = t.spoiled /\ u.tried = t.tried
          /\ u.ranked = t.ranked /\ u.order = t.ranked[first]
      BY <2>2, <3>1, <3>2, GoesNative
    <3>4. Contents(t.plan[first].urls) \subseteq Contents(t.ranked[first])
      BY <2>2, <2>5 DEF NoneIsLost
    <3>5. ToTry(u)
      BY <2>5, <3>3, <3>4 DEF ToTry
    <3>6. AttemptInv(u)
      BY <2>2, <2>3, <3>3, <3>5 DEF AttemptInv, NoneIsLost, SoFar, Over
    <3>. QED BY <3>6 DEF u
  <2>. QED BY <2>4, <2>5
<1>5. CASE Left(t) = {}
  <2>1. \A i \in DOMAIN t.plan : Over(t, i)
    BY <1>3, <1>5
  <2>2. PICK place \in {"failed", "backoff"} :
           /\ u = To(t, place)
           /\ place = "backoff" => t.attempt # MaxRetries
    BY <1>5 DEF NextStrategy, To
  <2>. HIDE DEF u
  <2>3. /\ u \in Task /\ u.at = place /\ u.plan = t.plan
        /\ u.exhausted = t.exhausted /\ u.spoiled = t.spoiled /\ u.tried = t.tried
        /\ u.ranked = t.ranked /\ u.attempt = t.attempt
    BY <2>2, GoesAway DEF TaskPlace
  <2>4. place = "backoff" => u.attempt < MaxRetries
    BY <1>1, <2>2, <2>3
  <2>5. AttemptInv(u)
    BY <2>1, <2>2, <2>3, <2>4 DEF AttemptInv, NoneIsLost, Over
  <2>. QED BY <2>5 DEF u
<1>. QED BY <1>4, <1>5

(* What is left of a list after its first entry.                           *)
LEMMA RestOf ==
    ASSUME NEW X, NEW s \in Seq(X), s # <<>>
    PROVE  /\ Tail(s) \in Seq(X) /\ s[1] \in X /\ Head(s) = s[1]
           /\ Len(s) \in Nat /\ Len(Tail(s)) = Len(s) - 1
           /\ \A x \in Contents(s) : x = s[1] \/ x \in Contents(Tail(s))
<1>1. Len(s) \in Nat /\ DOMAIN s = 1..Len(s) /\ Len(s) # 0
  BY EmptySeq, LenProperties
<1>2. /\ Tail(s) \in Seq(X) /\ Len(Tail(s)) = Len(s) - 1
      /\ \A i \in 1..(Len(s) - 1) : Tail(s)[i] = s[i + 1]
  BY HeadTailProperties
<1>3. DOMAIN Tail(s) = 1..(Len(s) - 1)
  BY <1>2, LenProperties
<1>4. s[1] \in X /\ Head(s) = s[1]
  BY <1>1
<1>5. ASSUME NEW i \in 1..Len(s), i # 1 PROVE s[i] \in Contents(Tail(s))
  <2>1. i - 1 \in 1..(Len(s) - 1) /\ (i - 1) + 1 = i
    BY <1>1, <1>5
  <2>2. Tail(s)[i - 1] = s[i]
    BY <1>2, <2>1
  <2>. QED BY <1>3, <2>1, <2>2 DEF Contents
<1>6. \A x \in Contents(s) : x = s[1] \/ x \in Contents(Tail(s))
  BY <1>1, <1>5 DEF Contents
<1>. QED BY <1>1, <1>2, <1>4, <1>6

(* A list whose first entry went to the back holds what it held.           *)
LEMMA RotatedHoldsAll ==
    ASSUME NEW X, NEW s \in Seq(X), s # <<>>
    PROVE  /\ Append(Tail(s), Head(s)) \in Seq(X)
           /\ Contents(s) \subseteq Contents(Append(Tail(s), Head(s)))
<1>. DEFINE t == Tail(s)
            r == Append(t, s[1])
<1>1. t \in Seq(X) /\ s[1] \in X /\ Head(s) = s[1] /\ Len(t) \in Nat /\ DOMAIN t = 1..Len(t)
  BY RestOf, LenProperties
<1>2. \A x \in Contents(s) : x = s[1] \/ x \in Contents(t)
  BY RestOf
<1>. HIDE DEF t
<1>3. /\ r \in Seq(X) /\ Len(r) = Len(t) + 1 /\ r[Len(t) + 1] = s[1]
      /\ \A i \in 1..Len(t) : r[i] = t[i]
  BY <1>1, AppendProperties
<1>. HIDE DEF r
<1>4. DOMAIN r = 1..(Len(t) + 1)
  BY <1>3, LenProperties
<1>5. s[1] \in Contents(r)
  BY <1>1, <1>3, <1>4 DEF Contents
<1>6. \A x \in Contents(t) : x \in Contents(r)
  <2>1. ASSUME NEW i \in 1..Len(t) PROVE t[i] \in Contents(r)
    <3>1. i \in 1..(Len(t) + 1)
      BY <1>1
    <3>. QED BY <1>3, <1>4, <3>1 DEF Contents
  <2>. QED BY <1>1, <2>1 DEF Contents
<1>. QED BY <1>1, <1>2, <1>3, <1>5, <1>6 DEF r, t

(* The fields after each of a task's moves.                                *)
Past(t) == [t EXCEPT !.order = <<>>, !.next = @ + 1]
Spent(t) == [t EXCEPT !.order = <<>>, !.next = @ + 1,
                      !.exhausted = @ \cup {t.plan[t.next].type},
                      !.spoiled = @ \cup {t.plan[t.next].type}]
Onward(t) == [t EXCEPT !.order = Tail(@)]
Raced(t, o) == [t EXCEPT !.at = "native", !.order = o, !.ranked[t.next] = o]
Anew(t) == [t EXCEPT !.attempt = @ + 1, !.next = 1, !.tried = {}]
Done(t) == [t EXCEPT !.at = "persist", !.order = <<>>]
Unraced(t) == [t EXCEPT !.ranked = [i \in DOMAIN t.plan |-> <<>>]]

(* What a move that is not to another version or plan leaves alone.        *)
SamePlan(t, u) == u.plan = t.plan /\ u.exhausted = t.exhausted /\ u.spoiled = t.spoiled

(* No mirrors left is a list of mirrors.                                   *)
LEMMA EmptyIsRest == <<>> \in Seq(Candidate)
<1>1. ASSUME NEW X PROVE <<>> \in Seq(X)
  OBVIOUS
<1>. QED BY <1>1

(* The fields of a task whose strategy has no mirrors left.                *)
LEMMA PastIs ==
    ASSUME NEW t \in Task, NEW u, u = Past(t)
    PROVE  /\ u \in Task /\ SamePlan(t, u) /\ u.tried = t.tried /\ u.ranked = t.ranked
           /\ u.next = t.next + 1
<1>. DEFINE n == t.next + 1
<1>1. n \in Nat
  BY TaskIs
<1>2. u = [t EXCEPT !.order = <<>>, !.next = n]
  BY DEF Past
<1>. HIDE DEF n
<1>3. /\ u \in Task /\ SamePlan(t, u) /\ u.tried = t.tried /\ u.ranked = t.ranked
      /\ u.next = n
  BY <1>1, <1>2, EmptyIsRest DEF Task, SamePlan
<1>. QED BY <1>3 DEF n

(* The fields of a task whose strategy is exhausted.                       *)
LEMMA SpentIs ==
    ASSUME NEW t \in Task, NEW u, u = Spent(t), t.plan[t.next].type \in Kind
    PROVE  /\ u \in Task /\ u.plan = t.plan /\ u.tried = t.tried /\ u.ranked = t.ranked
           /\ u.next = t.next + 1
           /\ u.exhausted = t.exhausted \cup {t.plan[t.next].type}
           /\ u.spoiled = t.spoiled \cup {t.plan[t.next].type}
<1>. DEFINE spent == {t.plan[t.next].type}
            n == t.next + 1
<1>1. n \in Nat /\ t.exhausted \cup spent \in Kinds /\ t.spoiled \cup spent \in Kinds
  BY TaskIs DEF Kinds
<1>2. u = [t EXCEPT !.order = <<>>, !.next = n, !.exhausted = @ \cup spent,
                    !.spoiled = @ \cup spent]
  BY DEF Spent
<1>. HIDE DEF spent, n
<1>3. /\ u \in Task /\ u.plan = t.plan /\ u.tried = t.tried /\ u.ranked = t.ranked
      /\ u.next = n /\ u.exhausted = t.exhausted \cup spent
      /\ u.spoiled = t.spoiled \cup spent
  BY <1>1, <1>2, EmptyIsRest DEF Task
<1>. QED BY <1>3 DEF spent, n

(* The fields of a task that asks its next mirror.                         *)
LEMMA OnwardIs ==
    ASSUME NEW t \in Task, NEW u, u = Onward(t), Tail(t.order) \in Seq(Candidate)
    PROVE  /\ u \in Task /\ SamePlan(t, u) /\ u.tried = t.tried /\ u.ranked = t.ranked
           /\ u.next = t.next /\ u.at = t.at /\ u.order = Tail(t.order)
BY DEF Task, Onward, SamePlan

(* The fields of a task whose mirrors were ranked.                         *)
LEMMA RacedIs ==
    ASSUME NEW t \in Task, NEW o \in Seq(Candidate), NEW u, u = Raced(t, o),
           t.next \in DOMAIN t.ranked
    PROVE  /\ u \in Task /\ SamePlan(t, u) /\ u.tried = t.tried
           /\ u.next = t.next /\ u.at = "native" /\ u.order = o
           /\ DOMAIN u.ranked = DOMAIN t.ranked
           /\ \A i \in DOMAIN t.ranked : u.ranked[i] = IF i = t.next THEN o ELSE t.ranked[i]
<1>. DEFINE r == [t.ranked EXCEPT ![t.next] = o]
<1>1. t.ranked \in Rankings
  BY TaskIs
<1>2. r \in Rankings
  BY <1>1, ExceptSeq DEF Rankings
<1>3. /\ DOMAIN r = DOMAIN t.ranked
      /\ \A i \in DOMAIN t.ranked : r[i] = IF i = t.next THEN o ELSE t.ranked[i]
  OBVIOUS
<1>4. u = [t EXCEPT !.at = "native", !.order = o, !.ranked = r]
  BY DEF Raced
<1>. HIDE DEF r
<1>5. /\ u \in Task /\ SamePlan(t, u) /\ u.tried = t.tried
      /\ u.next = t.next /\ u.at = "native" /\ u.order = o /\ u.ranked = r
  BY <1>2, <1>4 DEF Task, TaskPlace, SamePlan
<1>. QED BY <1>3, <1>5

(* The fields of a task that tries its plan again.                         *)
LEMMA AnewIs ==
    ASSUME NEW t \in Task, NEW u, u = Anew(t), t.attempt < MaxRetries
    PROVE  /\ u \in Task /\ SamePlan(t, u) /\ u.ranked = t.ranked /\ u.next = 1
<1>1. t.attempt \in 0..MaxRetries /\ MaxRetries \in Nat
  BY TaskIs, PlanAssumption
<1>2. t.attempt + 1 \in 0..MaxRetries
  BY <1>1
<1>3. {} \in Tries
  BY DEF Tries
<1>. QED BY <1>2, <1>3 DEF Task, Anew, SamePlan

(* The fields of a task whose version is installed.                        *)
LEMMA DoneIs ==
    ASSUME NEW t \in Task, NEW u, u = Done(t)
    PROVE  u \in Task /\ SamePlan(t, u) /\ u.at = "persist"
BY EmptyIsRest DEF Task, Done, SamePlan, TaskPlace

(* The fields of a task whose rankings are forgotten.                      *)
LEMMA UnracedIs ==
    ASSUME NEW t \in Task, NEW u, u = Unraced(t)
    PROVE  /\ u \in Task /\ SamePlan(t, u) /\ u.next = t.next
           /\ u.ranked = [i \in DOMAIN t.plan |-> <<>>]
<1>. DEFINE r == [i \in DOMAIN t.plan |-> <<>>]
<1>1. Len(t.plan) \in Nat /\ DOMAIN t.plan = 1..Len(t.plan)
  BY TaskIs, PlansAre
<1>2. r \in Rankings
  BY <1>1, EmptyIsRest DEF Rankings
<1>3. u = [t EXCEPT !.ranked = r]
  BY DEF Unraced
<1>. HIDE DEF r
<1>4. u \in Task /\ SamePlan(t, u) /\ u.next = t.next /\ u.ranked = r
  BY <1>2, <1>3 DEF Task, SamePlan
<1>. QED BY <1>4 DEF r

(* The ranking of the strategy after a mirror of it failed.                *)
Moved(t, o) == [t EXCEPT !.ranked[t.next] = o]

(* The fields of a task whose strategy was ranked anew.                    *)
LEMMA MovedIs ==
    ASSUME NEW t \in Task, NEW o \in Seq(Candidate), NEW u, u = Moved(t, o),
           t.next \in DOMAIN t.ranked
    PROVE  /\ u \in Task /\ SamePlan(t, u) /\ u.tried = t.tried
           /\ u.next = t.next /\ u.at = t.at /\ u.order = t.order
           /\ DOMAIN u.ranked = DOMAIN t.ranked
           /\ \A i \in DOMAIN t.ranked : u.ranked[i] = IF i = t.next THEN o ELSE t.ranked[i]
<1>. DEFINE r == [t.ranked EXCEPT ![t.next] = o]
<1>1. t.ranked \in Rankings
  BY TaskIs
<1>2. r \in Rankings
  BY <1>1, ExceptSeq DEF Rankings
<1>3. /\ DOMAIN r = DOMAIN t.ranked
      /\ \A i \in DOMAIN t.ranked : r[i] = IF i = t.next THEN o ELSE t.ranked[i]
  OBVIOUS
<1>4. u = [t EXCEPT !.ranked = r]
  BY DEF Moved
<1>. HIDE DEF r
<1>5. /\ u \in Task /\ SamePlan(t, u) /\ u.tried = t.tried
      /\ u.next = t.next /\ u.at = t.at /\ u.order = t.order /\ u.ranked = r
  BY <1>2, <1>4 DEF Task, SamePlan
<1>. QED BY <1>3, <1>5

(* The fields of a task that asked a mirror.                               *)
LEMMA TriedIs ==
    ASSUME NEW t \in Task, NEW u, u = Tried(t),
           t.plan[t.next].type \in Kind, t.order[1] \in Candidate
    PROVE  /\ u \in Task /\ SamePlan(t, u) /\ u.ranked = t.ranked
           /\ u.next = t.next /\ u.at = t.at /\ u.order = t.order
           /\ u.tried = t.tried \cup {<<t.plan[t.next].type, t.order[1]>>}
<1>. DEFINE now == t.tried \cup {<<t.plan[t.next].type, t.order[1]>>}
<1>1. now \in Tries
  BY TaskIs DEF Tries
<1>2. u = [t EXCEPT !.tried = now]
  BY DEF Tried
<1>. HIDE DEF now
<1>3. /\ u \in Task /\ SamePlan(t, u) /\ u.ranked = t.ranked
      /\ u.next = t.next /\ u.at = t.at /\ u.order = t.order /\ u.tried = now
  BY <1>1, <1>2 DEF Task, SamePlan
<1>. QED BY <1>3 DEF now

(* What was over stays over as more is tried.                              *)
LEMMA StaysOver ==
    ASSUME NEW t, NEW u, u.plan = t.plan, t.spoiled \subseteq u.spoiled,
           t.tried \subseteq u.tried, NEW i, Over(t, i)
    PROVE  Over(u, i)
BY DEF Over

(* A native download that failed was of the first of the rest.             *)
LEMMA FailedIs ==
    ASSUME NEW t, AttemptInv(t), t.at = "native", NEW u, u = Demoted(Tried(t))
    PROVE  /\ u \in Task /\ SamePlan(t, u) /\ u.at = "native" /\ u.next = t.next
           /\ u.order = t.order /\ u.tried = t.tried \cup {<<t.plan[t.next].type, t.order[1]>>}
           /\ NoneIsLost(u) /\ SoFar(u) /\ u.next \in DOMAIN u.plan
           /\ u.plan[u.next].type \in Kind /\ u.plan[u.next].type \in Type(u.plan)
           /\ u.order[1] \in Candidate
<1>. DEFINE v == Tried(t)
<1>1. /\ t \in Task /\ t.next \in DOMAIN t.plan /\ SoFar(t) /\ ToTry(t) /\ NoneIsLost(t)
      /\ t.plan \in Plan \cup {<<>>} /\ t.order \in Seq(Candidate) /\ t.ranked \in Rankings
  BY TaskIs DEF AttemptInv
<1>2. t.plan[t.next].type \in Kind /\ t.plan[t.next].type \in Type(t.plan)
  BY <1>1, PlansAre
<1>3. t.order[1] \in Candidate
  BY <1>1, RestOf DEF ToTry
<1>4. /\ v \in Task /\ SamePlan(t, v) /\ v.ranked = t.ranked
      /\ v.next = t.next /\ v.at = t.at /\ v.order = t.order
      /\ v.tried = t.tried \cup {<<t.plan[t.next].type, t.order[1]>>}
  BY <1>1, <1>2, <1>3, TriedIs
<1>5. NoneIsLost(v) /\ SoFar(v)
  <2>1. NoneIsLost(v)
    BY <1>1, <1>4 DEF NoneIsLost, SamePlan
  <2>2. \A i \in DOMAIN t.plan : Over(t, i) => Over(v, i)
    BY <1>4, StaysOver DEF SamePlan
  <2>. QED BY <1>1, <1>4, <2>1, <2>2 DEF SoFar, SamePlan
<1>6. CASE IsFirstChoice(v) /\ Len(v.order) > 1
  <2>. DEFINE s == v.ranked[v.next]
              o == Append(Tail(s), Head(s))
  <2>1. v.next \in DOMAIN v.ranked /\ s \in Seq(Candidate)
    BY <1>1, <1>4, <1>5 DEF NoneIsLost, SamePlan, Rankings
  <2>2. Len(s) > 1
    BY <1>6 DEF IsFirstChoice
  <2>3. s # <<>>
    BY <2>2
  <2>4. o \in Seq(Candidate) /\ Contents(s) \subseteq Contents(o)
    BY <2>1, <2>3, RotatedHoldsAll
  <2>5. u = Moved(v, o)
    BY <1>6 DEF Demoted, Moved
  <2>. HIDE DEF v, s, o
  <2>6. /\ u \in Task /\ SamePlan(v, u) /\ u.tried = v.tried
        /\ u.next = v.next /\ u.at = v.at /\ u.order = v.order
        /\ DOMAIN u.ranked = DOMAIN v.ranked
        /\ \A i \in DOMAIN v.ranked : u.ranked[i] = IF i = v.next THEN o ELSE v.ranked[i]
    BY <1>4, <2>1, <2>4, <2>5, MovedIs
  <2>7. NoneIsLost(u)
    <3>1. ASSUME NEW i \in DOMAIN v.plan
          PROVE  u.ranked[i] = <<>> \/ Contents(v.plan[i].urls) \subseteq Contents(u.ranked[i])
      <4>1. i \in DOMAIN v.ranked
        BY <1>5 DEF NoneIsLost
      <4>2. v.ranked[i] = <<>> \/ Contents(v.plan[i].urls) \subseteq Contents(v.ranked[i])
        BY <1>5 DEF NoneIsLost
      <4>3. CASE i = v.next
        BY <2>3, <2>4, <2>6, <4>1, <4>2, <4>3 DEF s
      <4>4. CASE i # v.next
        BY <2>6, <4>1, <4>2, <4>4
      <4>. QED BY <4>3, <4>4
    <3>. QED BY <1>5, <2>6, <3>1 DEF NoneIsLost, SamePlan
  <2>8. SoFar(u)
    <3>1. \A i \in DOMAIN v.plan : Over(v, i) => Over(u, i)
      BY <2>6, StaysOver DEF SamePlan
    <3>. QED BY <1>5, <2>6, <3>1 DEF SoFar, SamePlan
  <2>. QED BY <1>1, <1>2, <1>3, <1>4, <2>6, <2>7, <2>8 DEF SamePlan
<1>7. CASE ~(IsFirstChoice(v) /\ Len(v.order) > 1)
  <2>1. u = v
    BY <1>7 DEF Demoted
  <2>. QED BY <1>1, <1>2, <1>3, <1>4, <1>5, <2>1 DEF SamePlan
<1>. QED BY <1>6, <1>7

(* A list of several mirrors has one left when the first is gone.          *)
LEMMA OneLess ==
    ASSUME NEW n \in Nat, n # 0
    PROVE  (n > 1 => n - 1 # 0) /\ (~(n > 1) => n - 1 = 0)
OBVIOUS

(* After a failure the attempt goes on without losing a mirror.            *)
LEMMA AfterFailureInv ==
    ASSUME NEW t, AttemptInv(t), t.at = "native", NEW code
    PROVE  AttemptInv(AfterFailure(Demoted(Tried(t)), code))
<1>. DEFINE u == Demoted(Tried(t))
<1>1. /\ u \in Task /\ SamePlan(t, u) /\ u.at = "native" /\ u.next = t.next
      /\ u.order = t.order /\ u.tried = t.tried \cup {<<t.plan[t.next].type, t.order[1]>>}
      /\ NoneIsLost(u) /\ SoFar(u) /\ u.next \in DOMAIN u.plan
      /\ u.plan[u.next].type \in Kind /\ u.plan[u.next].type \in Type(u.plan)
      /\ u.order[1] \in Candidate
  BY FailedIs
<1>. HIDE DEF u
<1>2. /\ u.exhausted \subseteq Type(u.plan) /\ u.next \in Nat /\ u.order \in Seq(Candidate)
      /\ u.order # <<>>
  BY <1>1, TaskIs DEF AttemptInv, SamePlan, ToTry
<1>3. \A x \in Contents(u.plan[u.next].urls) :
          x \in Contents(u.order) \/ <<u.plan[u.next].type, x>> \in u.tried
  BY <1>1 DEF AttemptInv, SamePlan, ToTry
<1>4. <<u.plan[u.next].type, u.order[1]>> \in u.tried
  BY <1>1 DEF SamePlan
<1>5. /\ Tail(u.order) \in Seq(Candidate) /\ Len(u.order) \in Nat
      /\ Len(Tail(u.order)) = Len(u.order) - 1
      /\ \A x \in Contents(u.order) : x = u.order[1] \/ x \in Contents(Tail(u.order))
  BY <1>2, RestOf
<1>6. Len(u.plan) \in Nat /\ DOMAIN u.plan = 1..Len(u.plan)
  BY <1>1, TaskIs, PlansAre
<1>7. ASSUME NEW v, v.next = u.next + 1, v.plan = u.plan, u.spoiled \subseteq v.spoiled,
             u.tried \subseteq v.tried, Over(v, u.next)
      PROVE  SoFar(v)
  <2>1. \A i \in DOMAIN u.plan : Over(u, i) => Over(v, i)
    BY <1>7, StaysOver
  <2>2. \A i \in DOMAIN u.plan : i < u.next + 1 => i < u.next \/ i = u.next
    BY <1>2, <1>6
  <2>3. u.next + 1 \in Nat \ {0}
    BY <1>2
  <2>. QED BY <1>1, <1>7, <2>1, <2>2, <2>3 DEF SoFar
<1>11. Len(u.order) # 0
  BY <1>2, EmptySeq
<1>8. CASE code = "PATCH_FAILED"
  <2>. DEFINE v == Spent(u)
  <2>1. AfterFailure(u, code) = NextStrategy(v)
    BY <1>8 DEF AfterFailure, Spent
  <2>2. /\ v \in Task /\ v.plan = u.plan /\ v.tried = u.tried /\ v.ranked = u.ranked
        /\ v.next = u.next + 1
        /\ v.exhausted = u.exhausted \cup {u.plan[u.next].type}
        /\ v.spoiled = u.spoiled \cup {u.plan[u.next].type}
    BY <1>1, SpentIs
  <2>. HIDE DEF v
  <2>3. Over(v, u.next)
    BY <2>2 DEF Over
  <2>4. SoFar(v)
    BY <1>7, <2>2, <2>3
  <2>5. NoneIsLost(v) /\ v.exhausted \subseteq Type(v.plan)
    BY <1>1, <1>2, <2>2 DEF NoneIsLost
  <2>6. AttemptInv(NextStrategy(v))
    BY <2>2, <2>4, <2>5, NextStrategyInv
  <2>. QED BY <2>1, <2>6 DEF u
<1>9. CASE code # "PATCH_FAILED" /\ Len(u.order) > 1
  <2>. DEFINE v == Onward(u)
  <2>1. AfterFailure(u, code) = v
    BY <1>9 DEF AfterFailure, NextMirror, Onward
  <2>2. /\ v \in Task /\ SamePlan(u, v) /\ v.tried = u.tried /\ v.ranked = u.ranked
        /\ v.next = u.next /\ v.at = u.at /\ v.order = Tail(u.order)
    BY <1>1, <1>5, OnwardIs
  <2>. HIDE DEF v
  <2>3. v.order # <<>>
    <3>1. Len(Tail(u.order)) # 0
      BY <1>5, <1>9, <1>11, OneLess
    <3>2. Len(<<>>) = 0
      OBVIOUS
    <3>. QED BY <2>2, <3>1, <3>2
  <2>4. ToTry(v)
    <3>1. ASSUME NEW x \in Contents(u.plan[u.next].urls)
          PROVE  x \in Contents(Tail(u.order)) \/ <<u.plan[u.next].type, x>> \in u.tried
      BY <1>3, <1>4, <1>5
    <3>. QED BY <2>2, <2>3, <3>1 DEF ToTry, SamePlan
  <2>5. NoneIsLost(v)
    BY <1>1, <2>2 DEF NoneIsLost, SamePlan
  <2>6. SoFar(v)
    <3>1. \A i \in DOMAIN u.plan : Over(u, i) => Over(v, i)
      BY <2>2, StaysOver DEF SamePlan
    <3>. QED BY <1>1, <2>2, <3>1 DEF SoFar, SamePlan
  <2>7. AttemptInv(v)
    BY <1>1, <1>2, <2>2, <2>4, <2>5, <2>6 DEF AttemptInv, SamePlan
  <2>. QED BY <2>1, <2>7 DEF u
<1>10. CASE code # "PATCH_FAILED" /\ ~(Len(u.order) > 1)
  <2>. DEFINE v == Past(u)
  <2>1. AfterFailure(u, code) = NextStrategy(v)
    BY <1>10 DEF AfterFailure, NextMirror, Past
  <2>2. /\ v \in Task /\ SamePlan(u, v) /\ v.tried = u.tried /\ v.ranked = u.ranked
        /\ v.next = u.next + 1
    BY <1>1, PastIs
  <2>. HIDE DEF v
  <2>3. Over(v, u.next)
    <3>1. Contents(Tail(u.order)) = {}
      <4>1. Len(Tail(u.order)) = 0
        BY <1>5, <1>10, <1>11, OneLess
      <4>2. Tail(u.order) = <<>>
        BY <1>5, <4>1, EmptySeq
      <4>3. DOMAIN <<>> = {}
        OBVIOUS
      <4>. QED BY <4>2, <4>3 DEF Contents
    <3>2. \A x \in Contents(u.plan[u.next].urls) : <<u.plan[u.next].type, x>> \in u.tried
      BY <1>3, <1>4, <1>5, <3>1
    <3>. QED BY <2>2, <3>2 DEF Over, SamePlan
  <2>4. SoFar(v)
    BY <1>7, <2>2, <2>3 DEF SamePlan
  <2>5. NoneIsLost(v) /\ v.exhausted \subseteq Type(v.plan)
    BY <1>1, <1>2, <2>2 DEF NoneIsLost, SamePlan
  <2>6. AttemptInv(NextStrategy(v))
    BY <2>2, <2>4, <2>5, NextStrategyInv
  <2>. QED BY <2>1, <2>6 DEF u
<1>. QED BY <1>8, <1>9, <1>10

(* Every caller has such a task.                                           *)
AttemptsInv == DOMAIN task = Caller /\ \A c \in Caller : AttemptInv(task[c])

(* One call goes on, the others wait.                                      *)
LEMMA OneAttemptChanges ==
    ASSUME AttemptsInv, NEW c \in Caller, NEW t, AttemptInv(t), task' = [task EXCEPT ![c] = t]
    PROVE  AttemptsInv'
<1>1. DOMAIN task' = Caller /\ task'[c] = t
  BY DEF AttemptsInv
<1>2. \A d \in Caller : d # c => task'[d] = task[d]
  BY DEF AttemptsInv
<1>3. \A d \in Caller : AttemptInv(task'[d])
  BY <1>1, <1>2 DEF AttemptsInv
<1>. QED BY <1>1, <1>3 DEF AttemptsInv

(* A task that goes on and has lost no mirror is all that changes.         *)
LEMMA ContinuesAttempts ==
    ASSUME AttemptsInv, NEW c \in Caller, NEW t, AttemptInv(t), Continues(c, t)
    PROVE  AttemptsInv'
<1>1. task' = [task EXCEPT ![c] = t]
  BY DEF Continues
<1>. QED BY <1>1, OneAttemptChanges

(* A call that joins another one, rests or begins has nothing to try yet.  *)
LEMMA JoinedTries ==
    ASSUME NEW h \in MaybeHash, NEW d \in Caller \cup {NoCaller},
           NEW t, t = [NoTask EXCEPT !.at = "joined", !.hash = h, !.with = d]
    PROVE  AttemptInv(t)
<1>1. <<>> \in Seq(Candidate) /\ <<>> \in Rankings
  <2>1. ASSUME NEW X PROVE <<>> \in Seq(X)
    OBVIOUS
  <2>. QED BY <2>1 DEF Rankings
<1>2. 0 \in 0..MaxRetries /\ {} \in Kinds /\ {} \in Tries
  BY PlanAssumption DEF Kinds, Tries
<1>3. t \in Task /\ t.at = "joined" /\ t.exhausted = {}
  BY <1>1, <1>2 DEF Task, NoTask, TaskPlace
<1>. QED BY <1>3 DEF AttemptInv

(* A caller without a download has lost no mirror.                         *)
LEMMA NoTaskTries == AttemptInv(NoTask)
<1>1. <<>> \in Seq(Candidate) /\ <<>> \in Rankings
  <2>1. ASSUME NEW X PROVE <<>> \in Seq(X)
    OBVIOUS
  <2>. QED BY <2>1 DEF Rankings
<1>2. 0 \in 0..MaxRetries /\ {} \in Kinds /\ {} \in Tries /\ NoHash \in MaybeHash
  BY PlanAssumption DEF Kinds, Tries, MaybeHash
<1>3. NoTask \in Task /\ NoTask.at = "idle" /\ NoTask.exhausted = {}
  BY <1>1, <1>2 DEF Task, NoTask, TaskPlace
<1>. QED BY <1>3 DEF AttemptInv

(* A download that only begins has lost no mirror.                         *)
LEMMA HookedTries ==
    ASSUME NEW h \in Hash, NEW plan \in Plan,
           NEW t, t = [NoTask EXCEPT !.at = "hook", !.hash = h, !.plan = plan]
    PROVE  AttemptInv(t)
<1>1. <<>> \in Seq(Candidate) /\ <<>> \in Rankings
  <2>1. ASSUME NEW X PROVE <<>> \in Seq(X)
    OBVIOUS
  <2>. QED BY <2>1 DEF Rankings
<1>2. 0 \in 0..MaxRetries /\ {} \in Kinds /\ {} \in Tries /\ h \in MaybeHash
  BY PlanAssumption DEF Kinds, Tries, MaybeHash
<1>3. t \in Task /\ t.at = "hook" /\ t.exhausted = {} /\ t.spoiled = {} /\ t.next = 1
  BY <1>1, <1>2 DEF Task, NoTask, TaskPlace
<1>. QED BY <1>3 DEF AttemptInv

(* A download begins with nothing ranked.                                  *)
LEMMA BeginsInv ==
    ASSUME NEW t, AttemptInv(t), t.at = "hook"
    PROVE  AttemptInv(NextStrategy([t EXCEPT !.ranked = [i \in DOMAIN t.plan |-> <<>>]]))
<1>. DEFINE u == Unraced(t)
<1>1. t \in Task /\ t.exhausted = {} /\ t.spoiled = {} /\ t.next = 1
  BY DEF AttemptInv
<1>2. /\ u \in Task /\ SamePlan(t, u) /\ u.next = t.next
      /\ u.ranked = [i \in DOMAIN t.plan |-> <<>>]
  BY <1>1, UnracedIs
<1>3. u = [t EXCEPT !.ranked = [i \in DOMAIN t.plan |-> <<>>]]
  BY DEF Unraced
<1>. HIDE DEF u
<1>4. NoneIsLost(u) /\ u.exhausted \subseteq Type(u.plan)
  BY <1>1, <1>2 DEF NoneIsLost, SamePlan
<1>5. SoFar(u)
  <2>1. Len(u.plan) \in Nat /\ DOMAIN u.plan = 1..Len(u.plan)
    BY <1>2, TaskIs, PlansAre
  <2>. QED BY <1>1, <1>2, <2>1 DEF SoFar
<1>. QED BY <1>2, <1>3, <1>4, <1>5, NextStrategyInv

(* One more entry before a list.                                           *)
LEMMA OneFirst ==
    ASSUME NEW X, NEW x \in X, NEW rest \in Seq(X)
    PROVE  /\ <<x>> \o rest \in Seq(X) /\ <<x>> \o rest # <<>> /\ x \in Contents(<<x>> \o rest)
           /\ \A y \in Contents(rest) : y \in Contents(<<x>> \o rest)
<1>. DEFINE w == <<x>>
<1>1. w \in Seq(X) /\ Len(w) = 1 /\ w[1] = x
  OBVIOUS
<1>2. Len(rest) \in Nat /\ DOMAIN rest = 1..Len(rest)
  BY LenProperties
<1>. HIDE DEF w
<1>3. /\ w \o rest \in Seq(X) /\ Len(w \o rest) = 1 + Len(rest)
      /\ \A i \in 1..1 + Len(rest) : (w \o rest)[i] = IF i <= 1 THEN w[i] ELSE rest[i - 1]
  <2>1. /\ w \o rest \in Seq(X) /\ Len(w \o rest) = Len(w) + Len(rest)
        /\ \A i \in 1..Len(w) + Len(rest) :
              (w \o rest)[i] = IF i <= Len(w) THEN w[i] ELSE rest[i - Len(w)]
    BY <1>1, ConcatProperties
  <2>2. Len(w) = 1
    BY <1>1
  <2>. QED BY <2>1, <2>2
<1>4. DOMAIN (w \o rest) = 1..1 + Len(rest)
  BY <1>3, LenProperties
<1>5. x \in Contents(w \o rest)
  <2>1. 1 \in 1..1 + Len(rest) /\ 1 <= 1
    BY <1>2
  <2>2. (w \o rest)[1] = x
    BY <1>1, <1>3, <2>1
  <2>. QED BY <1>4, <2>1, <2>2 DEF Contents
<1>6. ASSUME NEW i \in 1..Len(rest) PROVE rest[i] \in Contents(w \o rest)
  <2>1. i + 1 \in 1..1 + Len(rest) /\ ~(i + 1 <= 1) /\ (i + 1) - 1 = i
    BY <1>2
  <2>2. (w \o rest)[i + 1] = rest[i]
    BY <1>3, <2>1
  <2>. QED BY <1>4, <2>1, <2>2 DEF Contents
<1>7. w \o rest # <<>>
  <2>1. DOMAIN <<>> = {}
    OBVIOUS
  <2>. QED BY <1>5, <2>1 DEF Contents
<1>8. \A y \in Contents(rest) : y \in Contents(w \o rest)
  BY <1>2, <1>6 DEF Contents
<1>. QED BY <1>3, <1>5, <1>7, <1>8 DEF w

(* The race of the mirrors leaves all of them in the order.                *)
LEMMA RacedInv ==
    ASSUME NEW t, AttemptInv(t), t.at = "rank", NEW urls, urls = t.plan[t.next].urls,
           NEW winner \in TestUrls(urls)
    PROVE  AttemptInv(Raced(t, Ranked(urls, winner)))
<1>. DEFINE rest == Those(urls, {i \in DOMAIN urls : urls[i] # winner})
            o == <<winner>> \o rest
            u == Raced(t, o)
<1>1. /\ t \in Task /\ t.next \in DOMAIN t.plan /\ SoFar(t) /\ NoneIsLost(t)
      /\ t.plan \in Plan \cup {<<>>} /\ t.exhausted \subseteq Type(t.plan)
  BY TaskIs DEF AttemptInv
<1>2. urls \in Seq(Candidate)
  BY <1>1, PlansAre
<1>3. winner \in Candidate
  BY <1>2, ListOf DEF TestUrls, Candidate
<1>4. /\ rest \in Seq(Candidate)
      /\ \A i \in DOMAIN urls : urls[i] = winner \/ urls[i] \in Contents(rest)
  <2>. DEFINE kept == {i \in DOMAIN urls : urls[i] # winner}
  <2>1. kept \in SUBSET DOMAIN urls
    OBVIOUS
  <2>2. \A i \in DOMAIN urls : urls[i] = winner \/ i \in kept
    OBVIOUS
  <2>. HIDE DEF kept
  <2>3. /\ Those(urls, kept) \in Seq(Candidate)
        /\ \A i \in kept : \E n \in DOMAIN Those(urls, kept) : Those(urls, kept)[n] = urls[i]
    BY <1>2, <2>1, ThoseAre
  <2>4. \A i \in kept : urls[i] \in Contents(Those(urls, kept))
    BY <2>3 DEF Contents
  <2>. QED BY <2>2, <2>3, <2>4 DEF kept
<1>. HIDE DEF rest
<1>5. /\ o \in Seq(Candidate) /\ o # <<>> /\ winner \in Contents(o)
      /\ \A x \in Contents(rest) : x \in Contents(o)
  BY <1>3, <1>4, OneFirst
<1>6. Contents(urls) \subseteq Contents(o)
  BY <1>4, <1>5 DEF Contents
<1>7. Ranked(urls, winner) = o
  BY DEF Ranked, rest
<1>. HIDE DEF o
<1>8. /\ u \in Task /\ SamePlan(t, u) /\ u.tried = t.tried
      /\ u.next = t.next /\ u.at = "native" /\ u.order = o
      /\ DOMAIN u.ranked = DOMAIN t.ranked
      /\ \A i \in DOMAIN t.ranked : u.ranked[i] = IF i = t.next THEN o ELSE t.ranked[i]
  BY <1>1, <1>5, RacedIs DEF NoneIsLost
<1>. HIDE DEF u
<1>9. NoneIsLost(u)
  BY <1>1, <1>6, <1>8 DEF NoneIsLost, SamePlan
<1>10. SoFar(u)
  <2>1. \A i \in DOMAIN t.plan : Over(t, i) => Over(u, i)
    BY <1>8, StaysOver DEF SamePlan
  <2>. QED BY <1>1, <1>8, <2>1 DEF SoFar, SamePlan
<1>11. ToTry(u)
  BY <1>5, <1>6, <1>8 DEF ToTry, SamePlan
<1>12. AttemptInv(u)
  BY <1>1, <1>8, <1>9, <1>10, <1>11 DEF AttemptInv, SamePlan
<1>. QED BY <1>7, <1>12 DEF u

(* Every step of a download keeps what its attempts promise.               *)
LEMMA DownloadStepAttempts ==
    ASSUME AttemptsInv, SharingInv, DownloadStep
    PROVE  AttemptsInv'
<1>0. \A c \in Caller : AttemptInv(task[c]) /\ task[c] \in Task
  BY DEF AttemptsInv, AttemptInv
<1>1. ASSUME NEW c \in Caller, NEW h \in Hash, NEW plan \in Plan, DownloadUpdate(c, h, plan)
      PROVE  AttemptsInv'
  <2>. DEFINE t == [NoTask EXCEPT !.at = "hook", !.hash = h, !.plan = plan]
  <2>1. task' = [task EXCEPT ![c] = t]
    BY <1>1 DEF DownloadUpdate
  <2>2. AttemptInv(t)
    BY HookedTries
  <2>. HIDE DEF t
  <2>. QED BY <2>1, <2>2, OneAttemptChanges
<1>2. ASSUME NEW c \in Caller, DownloadSkipped(c) PROVE AttemptsInv'
  BY <1>2, OneAttemptChanges, NoTaskTries DEF DownloadSkipped
<1>3. ASSUME NEW c \in Caller, AfterDownloadHook(c) PROVE AttemptsInv'
  <2>. DEFINE h == task[c].hash
              owner == downloadingTasks[h]
              joined == [NoTask EXCEPT !.at = "joined", !.hash = h, !.with = owner]
              begun == NextStrategy([task[c] EXCEPT
                                        !.ranked = [i \in DOMAIN task[c].plan |-> <<>>]])
  <2>1. task[c].at = "hook" /\ h \in Hash /\ owner \in Caller \cup {NoCaller} /\ h \in MaybeHash
    BY <1>3 DEF AfterDownloadHook, SharingInv, DownloadShapes, MaybeHash
  <2>2. task' = [task EXCEPT ![c] = joined] \/ task' = [task EXCEPT ![c] = begun]
    BY <1>3 DEF AfterDownloadHook, PerformDownload
  <2>3. AttemptInv(joined)
    BY <2>1, JoinedTries
  <2>4. AttemptInv(begun)
    BY <1>0, <2>1, BeginsInv
  <2>. HIDE DEF joined, begun
  <2>. QED BY <2>2, <2>3, <2>4, OneAttemptChanges
<1>4. ASSUME NEW c \in Caller, RankDownloadUrls(c) PROVE AttemptsInv'
  <2>1. task[c].at = "rank"
    BY <1>4 DEF RankDownloadUrls
  <2>2. PICK urls \in {task[c].plan[task[c].next].urls} : \E winner \in TestUrls(urls) :
            Continues(c, Raced(task[c], Ranked(urls, winner)))
    BY <1>4 DEF RankDownloadUrls, Raced
  <2>3. PICK winner \in TestUrls(urls) : Continues(c, Raced(task[c], Ranked(urls, winner)))
    BY <2>2
  <2>4. AttemptInv(Raced(task[c], Ranked(urls, winner)))
    BY <1>0, <2>1, RacedInv
  <2>. QED BY <2>3, <2>4, ContinuesAttempts
<1>5. ASSUME NEW c \in Caller, NativeDownloadFails(c) PROVE AttemptsInv'
  <2>1. task[c].at = "native"
    BY <1>5 DEF NativeDownloadFails
  <2>2. PICK code \in {"PATCH_FAILED", "DOWNLOAD_FAILED"} :
            Continues(c, AfterFailure(Demoted(Tried(task[c])), code))
    BY <1>5 DEF NativeDownloadFails
  <2>3. AttemptInv(AfterFailure(Demoted(Tried(task[c])), code))
    BY <1>0, <2>1, AfterFailureInv
  <2>. QED BY <2>2, <2>3, ContinuesAttempts
<1>6. ASSUME NEW c \in Caller, NativeDownloadSucceeds(c) PROVE AttemptsInv'
  <2>. DEFINE v == Tried(task[c])
              t == Done(v)
  <2>1. Continues(c, t) /\ task[c].at = "native"
    BY <1>6 DEF NativeDownloadSucceeds, Done
  <2>2. /\ task[c].next \in DOMAIN task[c].plan /\ ToTry(task[c])
        /\ task[c].plan \in Plan \cup {<<>>} /\ task[c].order \in Seq(Candidate)
        /\ task[c].exhausted \subseteq Type(task[c].plan)
    BY <1>0, <2>1, TaskIs DEF AttemptInv
  <2>3. task[c].plan[task[c].next].type \in Kind /\ task[c].order[1] \in Candidate
    BY <2>2, PlansAre, RestOf DEF ToTry
  <2>4. v \in Task /\ SamePlan(task[c], v)
    BY <1>0, <2>3, TriedIs
  <2>. HIDE DEF v
  <2>5. t \in Task /\ SamePlan(v, t) /\ t.at = "persist"
    BY <2>4, DoneIs
  <2>. HIDE DEF t
  <2>6. AttemptInv(t)
    BY <2>2, <2>4, <2>5 DEF AttemptInv, SamePlan
  <2>. QED BY <2>1, <2>6, ContinuesAttempts
<1>7. ASSUME NEW c \in Caller, BackoffOver(c) PROVE AttemptsInv'
  <2>. DEFINE t == Anew(task[c])
  <2>1. Continues(c, NextStrategy(t)) /\ task[c].at = "backoff"
    BY <1>7 DEF BackoffOver, Anew
  <2>2. /\ task[c].attempt < MaxRetries /\ NoneIsLost(task[c])
        /\ task[c].exhausted \subseteq Type(task[c].plan)
    BY <1>0, <2>1 DEF AttemptInv
  <2>3. t \in Task /\ SamePlan(task[c], t) /\ t.ranked = task[c].ranked /\ t.next = 1
    BY <1>0, <2>2, AnewIs
  <2>. HIDE DEF t
  <2>4. NoneIsLost(t) /\ t.exhausted \subseteq Type(t.plan)
    BY <2>2, <2>3 DEF NoneIsLost, SamePlan
  <2>5. SoFar(t)
    <3>1. Len(t.plan) \in Nat /\ DOMAIN t.plan = 1..Len(t.plan)
      BY <2>3, TaskIs, PlansAre
    <3>. QED BY <2>3, <3>1 DEF SoFar
  <2>6. AttemptInv(NextStrategy(t))
    BY <2>3, <2>4, <2>5, NextStrategyInv
  <2>. QED BY <2>1, <2>6, ContinuesAttempts
<1>8. ASSUME NEW c \in Caller, PersistHashInfo(c) PROVE AttemptsInv'
  <2>. DEFINE t == To(task[c], "settled")
  <2>1. Continues(c, t)
    BY <1>8 DEF PersistHashInfo, To
  <2>2. /\ t \in Task /\ t.at = "settled" /\ t.plan = task[c].plan
        /\ t.exhausted = task[c].exhausted
    BY <1>0, GoesAway DEF TaskPlace
  <2>. HIDE DEF t
  <2>3. AttemptInv(t)
    BY <1>0, <2>2 DEF AttemptInv
  <2>. QED BY <2>1, <2>3, ContinuesAttempts
<1>9. ASSUME NEW c \in Caller, DownloadSettles(c) PROVE AttemptsInv'
  <2>1. task' = [d \in Caller |-> IF d = c \/ task[d].with = c THEN NoTask ELSE task[d]]
    BY <1>9 DEF DownloadSettles, TaskReturns
  <2>2. DOMAIN task' = Caller /\ \A d \in Caller : task'[d] = NoTask \/ task'[d] = task[d]
    BY <2>1
  <2>3. \A d \in Caller : AttemptInv(task'[d])
    BY <1>0, <2>2, NoTaskTries
  <2>. QED BY <2>2, <2>3 DEF AttemptsInv
<1>10. CASE DownloadAndInstallApk \/ ApkAnswers
  <2>1. task' = task
    BY <1>10 DEF DownloadAndInstallApk, ApkAnswers
  <2>. QED BY <1>0, <2>1 DEF AttemptsInv
<1>. QED BY <1>1, <1>2, <1>3, <1>4, <1>5, <1>6, <1>7, <1>8, <1>9, <1>10
         DEF DownloadStep, DownloadProgresses

(* The variables whose values say nothing of others.                       *)
StateTypes ==
    /\ downloadedHash \in MaybeHash
    /\ apkStatus \in {"none", "downloading", "downloaded"}
    /\ marked \in BOOLEAN
    /\ markingPromise \in {"none", "native", "settled"}
    /\ installed \subseteq Hash
    /\ named \subseteq Hash
    /\ callCount \in Nat

(* The counters the downloads share with the other calls.                  *)
TaskTypes == apkCalls \in Nat /\ wiped \subseteq Caller /\ tainted \in BOOLEAN

(* They keep their types when a switch, a reset or markSuccess goes on.    *)
LEMMA ActStateTypes ==
    ASSUME StateTypes, LeaseTypes, ActNext
    PROVE  StateTypes'
<1>0. CASE UNCHANGED <<downloadedHash, apkStatus, marked, markingPromise, installed, named>>
           /\ (callCount' = callCount \/ Called)
  BY <1>0 DEF StateTypes, Called
<1>1. ASSUME NEW c \in Caller, NativeReset(c) PROVE StateTypes'
  BY <1>1 DEF NativeReset, StateTypes, sharedVars
<1>2. ASSUME NEW c \in Caller, ResetResolves(c) PROVE StateTypes'
  BY <1>2 DEF ResetResolves, StateTypes, MaybeHash, nativeFiles
<1>3. CASE MarkSuccess
  BY <1>3 DEF MarkSuccess, StateTypes, Called, nativeFiles
<1>4. CASE PerformMarkSuccess
  BY <1>4 DEF PerformMarkSuccess, StateTypes, nativeFiles
<1>5. ASSUME NEW h \in Hash, DownloadArrives(h) PROVE StateTypes'
  BY <1>5 DEF DownloadArrives, StateTypes, Called, MaybeHash
<1>6. CASE ContextReplaced
  BY <1>6 DEF ContextReplaced, FreshShared, StateTypes, MaybeHash, nativeFiles
<1>7. ASSUME NEW c \in Caller,
             \/ \E h \in Hash : SwitchVersion(c, h)
             \/ RestartApp(c)
             \/ \E restart \in BOOLEAN : ResetToPackagedBundle(c, restart)
             \/ SwitchEnds(c) \/ ReloadResolves(c) \/ RestartEnds(c) \/ ResetFails(c) \/ ActHook(c)
      PROVE  StateTypes'
  <2>1. UNCHANGED <<downloadedHash, apkStatus, marked, markingPromise, installed, named>>
    BY <1>7 DEF SwitchVersion, RestartApp, ResetToPackagedBundle, SwitchEnds, ReloadResolves,
                RestartEnds, ResetFails, ActHook, HookAllows, HookDeclines, RestartHook, UnchangedBySwitch,
                UnchangedByOthers, sharedVars, nativeFiles
  <2>2. callCount' = callCount \/ Called
    BY <1>7 DEF SwitchVersion, RestartApp, ResetToPackagedBundle, SwitchEnds, ReloadResolves,
                RestartEnds, ResetFails, ActHook, HookAllows, HookDeclines, RestartHook
  <2>. QED BY <1>0, <2>1, <2>2
<1>8. CASE ActTimer
  <2>1. UNCHANGED <<downloadedHash, apkStatus, marked, markingPromise, installed, named, callCount>>
    BY <1>8 DEF ActTimer, TimerDue, TimerFires, UnchangedBySwitch, UnchangedByOthers, sharedVars,
                nativeFiles
  <2>. QED BY <1>0, <2>1
<1>. QED BY <1>1, <1>2, <1>3, <1>4, <1>5, <1>6, <1>7, <1>8 DEF ActNext, ActStep, ActReply, ReloadFails

(* They keep their types when a download goes on.                          *)
LEMMA DownloadStateTypes ==
    ASSUME StateTypes, TaskTypes, SharingInv, DownloadStep
    PROVE  StateTypes' /\ TaskTypes'
<1>1. ASSUME NEW c \in Caller, NEW h \in Hash, NEW plan \in Plan, DownloadUpdate(c, h, plan)
      PROVE  StateTypes' /\ TaskTypes'
  <2>1. /\ UNCHANGED <<downloadedHash, apkStatus, marked, markingPromise, installed, named,
                       apkCalls, tainted>>
        /\ Called /\ wiped' = wiped \ {c}
    BY <1>1 DEF DownloadUpdate, UnchangedByDownload, nativeFiles
  <2>. QED BY <2>1 DEF StateTypes, TaskTypes, Called
<1>2. ASSUME NEW c \in Caller,
             \/ DownloadSkipped(c) \/ AfterDownloadHook(c) \/ RankDownloadUrls(c)
             \/ BackoffOver(c) \/ DownloadSettles(c)
      PROVE  StateTypes' /\ TaskTypes'
  <2>1. UNCHANGED <<downloadedHash, apkStatus, marked, markingPromise, installed, named, callCount,
                    apkCalls, wiped, tainted>>
    BY <1>2 DEF DownloadSkipped, AfterDownloadHook, RankDownloadUrls, BackoffOver,
                DownloadSettles, UnchangedByTask, UnchangedByDownload, nativeFiles
  <2>. QED BY <2>1 DEF StateTypes, TaskTypes
<1>3. ASSUME NEW c \in Caller, NativeDownloadFails(c) PROVE StateTypes' /\ TaskTypes'
  <2>1. /\ UNCHANGED <<downloadedHash, apkStatus, marked, markingPromise, installed, named,
                       callCount, apkCalls, tainted>>
        /\ wiped' = wiped \ {c}
    BY <1>3 DEF NativeDownloadFails, UnchangedByDownload, nativeFiles
  <2>. QED BY <2>1 DEF StateTypes, TaskTypes
<1>4. ASSUME NEW c \in Caller, NativeDownloadSucceeds(c) PROVE StateTypes' /\ TaskTypes'
  <2>1. task[c].hash \in Hash
    BY <1>4 DEF NativeDownloadSucceeds, SharingInv, DownloadShapes
  <2>2. /\ UNCHANGED <<downloadedHash, apkStatus, marked, markingPromise, named,
                       callCount, apkCalls, wiped, tainted>>
        /\ installed' = installed \cup {task[c].hash} \/ installed' = installed
    BY <1>4 DEF NativeDownloadSucceeds, UnchangedByDownload
  <2>. QED BY <2>1, <2>2 DEF StateTypes, TaskTypes
<1>5. ASSUME NEW c \in Caller, PersistHashInfo(c) PROVE StateTypes' /\ TaskTypes'
  <2>1. task[c].hash \in Hash
    <3>1. Continues(c, [task[c] EXCEPT !.at = "settled"]) /\ task[c].at = "persist"
      BY <1>5 DEF PersistHashInfo
    <3>. QED BY <3>1 DEF SharingInv, DownloadShapes
  <2>2. /\ UNCHANGED <<apkStatus, marked, markingPromise, installed, callCount, apkCalls, wiped>>
        /\ \/ /\ downloadedHash' = task[c].hash /\ named' = named \cup {task[c].hash}
              /\ tainted' = (c \in wiped)
           \/ UNCHANGED <<downloadedHash, named, tainted>>
    BY <1>5 DEF PersistHashInfo, UnchangedByDownload
  <2>3. (c \in wiped) \in BOOLEAN
    OBVIOUS
  <2>. QED BY <2>1, <2>2, <2>3 DEF StateTypes, TaskTypes, MaybeHash
<1>6. CASE DownloadAndInstallApk
  <2>1. /\ UNCHANGED <<downloadedHash, marked, markingPromise, installed, named, wiped, tainted>>
        /\ Called /\ apkStatus' = "downloading" /\ apkCalls' = apkCalls + 1
    BY <1>6 DEF DownloadAndInstallApk, nativeFiles
  <2>. QED BY <2>1 DEF StateTypes, TaskTypes, Called
<1>7. CASE ApkAnswers
  <2>1. /\ UNCHANGED <<downloadedHash, marked, markingPromise, installed, named, callCount, wiped,
                       tainted>>
        /\ apkStatus' \in {"downloaded", "none"} /\ apkCalls > 0 /\ apkCalls' = apkCalls - 1
    BY <1>7 DEF ApkAnswers, nativeFiles
  <2>. QED BY <2>1 DEF StateTypes, TaskTypes
<1>. QED BY <1>1, <1>2, <1>3, <1>4, <1>5, <1>6, <1>7 DEF DownloadStep, DownloadProgresses

AttemptsHold == AttemptsInv /\ StateTypes /\ TaskTypes

(* Nobody downloads at first.                                              *)
LEMMA AttemptsInit == UpdateClientInit => AttemptsHold
<1>. SUFFICES ASSUME UpdateClientInit PROVE AttemptsHold
  OBVIOUS
<1>1. task = [c \in Caller |-> NoTask]
  BY DEF UpdateClientInit, DownloaderInit
<1>2. DOMAIN task = Caller /\ \A c \in Caller : task[c] = NoTask
  BY <1>1
<1>3. AttemptsInv
  BY <1>2, NoTaskTries DEF AttemptsInv
<1>4. StateTypes
  <2>1. callCount \in 0..MaxCalls /\ installed \in {{}, Hash} /\ named = installed
        /\ downloadedHash = NoHash /\ apkStatus = "none" /\ marked = FALSE
        /\ markingPromise = "none"
    BY DEF UpdateClientInit, ClientStateInit
  <2>2. callCount \in Nat
    BY <2>1
  <2>3. installed \subseteq Hash /\ named \subseteq Hash
    BY <2>1
  <2>. QED BY <2>1, <2>2, <2>3 DEF StateTypes, MaybeHash
<1>5. TaskTypes
  BY DEF UpdateClientInit, DownloaderInit, TaskTypes
<1>. QED BY <1>3, <1>4, <1>5 DEF AttemptsHold

(* Every step of switches, resets and downloads keeps them.                *)
LEMMA AttemptsStep ==
    ASSUME AttemptsHold, UpdatesInv, [UpdateClientNext]_updateClientVars
    PROVE  AttemptsHold'
<1>. USE DEF AttemptsHold, UpdatesInv
<1>1. CASE ActStep /\ BesideDownloads
  <2>1. StateTypes'
    BY <1>1, ActStateTypes DEF ActNext, LeaseInv
  <2>2. task' = task
    BY <1>1 DEF BesideDownloads
  <2>3. AttemptsInv'
    BY <2>2 DEF AttemptsInv
  <2>4. TaskTypes'
    BY <1>1 DEF BesideDownloads, TaskTypes
  <2>. QED BY <2>1, <2>3, <2>4
<1>2. CASE DownloadStep /\ UNCHANGED actVars
  BY <1>2, DownloadStepAttempts, DownloadStateTypes
<1>3. CASE reloading /\ ContextReplaced /\ DownloadsOrphaned
  <2>1. StateTypes'
    BY <1>3, ActStateTypes DEF ActNext, LeaseInv
  <2>2. task' = [c \in Caller |-> NoTask] /\ TaskTypes'
    BY <1>3 DEF DownloadsOrphaned, TaskTypes
  <2>3. DOMAIN task' = Caller /\ \A c \in Caller : task'[c] = NoTask
    BY <2>2
  <2>4. AttemptsInv'
    BY <2>3, NoTaskTries DEF AttemptsInv
  <2>. QED BY <2>1, <2>2, <2>4
<1>4. CASE UNCHANGED updateClientVars
  <2>1. UNCHANGED <<task, downloadedHash, apkStatus, marked, markingPromise, installed, named,
                    callCount, apkCalls, wiped, tainted>>
    BY <1>4 DEF updateClientVars, sharedVars, nativeFiles, taskVars
  <2>. QED BY <2>1 DEF AttemptsInv, StateTypes, TaskTypes
<1>. QED BY <1>1, <1>2, <1>3, <1>4 DEF UpdateClientNext

(* So do the switches of a client that downloads nothing.                  *)
LEMMA SwitchesAttempts ==
    ASSUME AttemptsHold, UpdatesInv, ActNext, UNCHANGED taskVars
    PROVE  AttemptsHold'
<1>. USE DEF AttemptsHold, UpdatesInv
<1>1. StateTypes'
  BY ActStateTypes DEF LeaseInv
<1>2. UNCHANGED <<task, apkCalls, wiped, tainted>>
  BY DEF taskVars
<1>. QED BY <1>1, <1>2 DEF AttemptsInv, TaskTypes

(* What it all says of the downloads in sight.                             *)
LEMMA AttemptsMean ==
    ASSUME AttemptsHold, UpdatesInv
    PROVE  UpdateClientTypeOK /\ AttemptTriesEveryMirror
<1>. USE DEF AttemptsHold, UpdatesInv
<1>1. \A c \in Caller : task[c] \in Task /\ AttemptInv(task[c])
  BY DEF AttemptsInv, AttemptInv
<1>2. ClientStateTypeOK /\ ActTypeOK
  BY DEF ClientStateTypeOK, ActTypeOK, StateTypes, LeaseInv, LeaseTypes, SharingInv, DownloadShapes
<1>3. DownloaderTypeOK
  <2>1. ASSUME NEW c \in Caller
        PROVE  /\ task[c].at \in TaskPlace /\ task[c].hash \in MaybeHash
               /\ task[c].attempt \in 0..MaxRetries /\ task[c].plan \in Plan \cup {<<>>}
               /\ task[c].with \in Caller \cup {NoCaller}
               /\ task[c].exhausted \subseteq Type(task[c].plan)
               /\ task[c].ranked \in Rankings /\ task[c].order \in Seq(Candidate)
    BY <1>1, TaskIs DEF AttemptInv
  <2>2. ASSUME NEW c \in Caller
        PROVE  /\ Contents(task[c].order) \subseteq Candidate
               /\ \A i \in DOMAIN task[c].ranked : Contents(task[c].ranked[i]) \subseteq Candidate
    <3>1. \A i \in DOMAIN task[c].ranked : task[c].ranked[i] \in Seq(Candidate)
      <4>1. ASSUME NEW X, NEW s \in Seq(X) PROVE \A i \in DOMAIN s : s[i] \in X
        BY LenProperties
      <4>. QED BY <2>1, <4>1 DEF Rankings
    <3>. QED BY <2>1, <3>1, ListOf
  <2>. QED BY <2>1, <2>2 DEF DownloaderTypeOK, TaskTypes
<1>4. AttemptTriesEveryMirror
  <2>1. ASSUME NEW c \in Caller, task[c].at \in {"backoff", "failed"}, NEW i \in DOMAIN task[c].plan
        PROVE  Over(task[c], i)
    BY <1>1, <2>1 DEF AttemptInv
  <2>. QED BY <2>1 DEF AttemptTriesEveryMirror, Over
<1>. QED BY <1>2, <1>3, <1>4 DEF UpdateClientTypeOK
=============================================================================
