----------------------------- MODULE JsClientProofs -----------------------------
(***************************************************************************)
(* The JS client, for any callers, versions, questions, configurations and *)
(* numbers of calls: what its calls share they share rightly.              *)
(***************************************************************************)
EXTENDS JsClient, UpdateClientProofs

-----------------------------------------------------------------------------
(***************************************************************************)
(* Checks                                                                  *)
(***************************************************************************)
MaybeQuestion == Question \cup {NoPromise}
CheckPlace == {"idle", "hook", "joined", "cache", "fetch", "answered"}
CheckCall == [at : CheckPlace, question : MaybeQuestion, promise : Nat,
              during : SUBSET MaybeCheckConfig]
Promised == [question : MaybeQuestion, state : {"pending", "answered", "failed"}]

(* Promises are numbered as they are made, and each is of a call that had  *)
(* passed its hook: there are no more of them than calls.                  *)
Made == Cardinality(DOMAIN promises)
Hooked == {c \in Asker : check[c].at = "hook"}
PromisesAreCounted ==
    /\ Made \in Nat /\ promises \in [1 .. Made -> Promised]
    /\ IsFiniteSet(Hooked) /\ checksMade \in Nat
    /\ Made + Cardinality(Hooked) <= checksMade /\ checksMade <= MaxChecks

(* A call holds a promise of its own question, and its owner has seen      *)
(* every configuration of the options since it was made.                   *)
CheckFits(call, made, now) ==
    /\ call.promise # NoPromise =>
          call.promise \in DOMAIN made /\ made[call.promise].question = call.question
    /\ call.at \in {"joined", "cache", "fetch", "answered"} => call.promise # NoPromise
    /\ call.at \in {"cache", "fetch", "answered"} => now \in call.during
ChecksFit ==
    check \in [Asker -> CheckCall] /\ \A c \in Asker : CheckFits(check[c], promises, config)

(* The slot holds one of them, and a failed one only until its owner says. *)
SlotFits ==
    /\ slot \in Nat /\ slotQuestion \in MaybeQuestion
    /\ slot # NoPromise =>
          /\ slot \in DOMAIN promises /\ promises[slot].question = slotQuestion
          /\ promises[slot].state = "failed" =>
                \E c \in Asker : check[c].at = "answered" /\ check[c].promise = slot

CheckWorld ==
    /\ slotRecent \in BOOLEAN /\ exhausted \in BOOLEAN
    /\ cache \in CachedResponse \cup {NoCache}
    /\ config \in MaybeCheckConfig /\ acknowledged \in MaybeCheckConfig
    /\ jsRound \in MaybeCheckConfig /\ marks \subseteq CheckConfig

CheckerInv == PromisesAreCounted /\ ChecksFit /\ SlotFits /\ CheckWorld /\ MarkedWasChecked

(* A number of a promise is at most the number of checks.                  *)
LEMMA PromisesAreFew ==
    ASSUME PromisesAreCounted
    PROVE  DOMAIN promises = 1 .. Made /\ Made <= MaxChecks
<1>1. Cardinality(Hooked) \in Nat
  BY FS_CardinalityType DEF PromisesAreCounted
<1>. QED BY <1>1, CheckBounds DEF PromisesAreCounted

(* A call that checks nothing fits.                                        *)
LEMMA NotCheckingFits ==
    \A made, now : NotChecking \in CheckCall /\ CheckFits(NotChecking, made, now)
BY DEF NotChecking, CheckCall, CheckPlace, MaybeQuestion, CheckFits, NoPromise

(* One call changes, and leaves its hook or is in none.                    *)
LEMMA CallChanges ==
    ASSUME PromisesAreCounted, ChecksFit, NEW c \in Asker, NEW call \in CheckCall,
           call.at # "hook", check' = [check EXCEPT ![c] = call],
           CheckFits(call, promises', config'), config' = config,
           promises' \in [1 .. Made -> Promised] \/ promises' = promises,
           \A p \in 1 .. Made : promises'[p].question = promises[p].question,
           checksMade' = checksMade
    PROVE  PromisesAreCounted' /\ ChecksFit'
<1>1. promises' \in [1 .. Made -> Promised] /\ DOMAIN promises' = DOMAIN promises
      /\ DOMAIN promises = 1 .. Made
  BY DEF PromisesAreCounted
<1>2. Made' = Made
  BY <1>1 DEF Made
<1>3. check' \in [Asker -> CheckCall] /\ check'[c] = call
      /\ \A d \in Asker \ {c} : check'[d] = check[d]
  BY DEF ChecksFit
<1>4. ChecksFit'
  <2>1. ASSUME NEW d \in Asker \ {c} PROVE CheckFits(check'[d], promises', config')
    BY <1>1, <1>3 DEF ChecksFit, CheckFits
  <2>. QED BY <1>3, <2>1 DEF ChecksFit
<1>5. Hooked' = Hooked \ {c}
  BY <1>3 DEF Hooked
<1>6. IsFiniteSet(Hooked') /\ Cardinality(Hooked') <= Cardinality(Hooked)
      /\ Cardinality(Hooked') \in Nat /\ Cardinality(Hooked) \in Nat
  BY <1>5, FS_Subset, FS_CardinalityType DEF PromisesAreCounted
<1>7. PromisesAreCounted'
  BY <1>1, <1>2, <1>6 DEF PromisesAreCounted
<1>. QED BY <1>4, <1>7

(* The invariant holds before the first check.                             *)
LEMMA CheckerInitInv == CheckerInit => CheckerInv
<1>. SUFFICES ASSUME CheckerInit PROVE CheckerInv
  OBVIOUS
<1>1. DOMAIN promises = {} /\ Made = 0 /\ 1 .. 0 = {}
  BY FS_EmptySet DEF CheckerInit, Made
<1>2. promises \in [1 .. Made -> Promised]
  BY <1>1 DEF CheckerInit
<1>3. Hooked = {}
  BY DEF CheckerInit, Hooked, NotChecking
<1>4. PromisesAreCounted
  BY <1>1, <1>2, <1>3, FS_EmptySet, CheckBounds DEF PromisesAreCounted, CheckerInit
<1>5. ChecksFit
  BY NotCheckingFits DEF ChecksFit, CheckerInit
<1>6. SlotFits /\ CheckWorld /\ MarkedWasChecked
  BY DEF CheckerInit, SlotFits, CheckWorld, MarkedWasChecked, NoPromise, MaybeQuestion,
         MaybeCheckConfig
<1>. QED BY <1>4, <1>5, <1>6 DEF CheckerInv

(* What the slot needs of the calls when it stays.                         *)
LEMMA SlotStays ==
    ASSUME SlotFits, UNCHANGED <<slot, slotQuestion>>,
           DOMAIN promises' = DOMAIN promises,
           \A p \in DOMAIN promises : promises'[p].question = promises[p].question,
           slot # NoPromise /\ promises'[slot].state = "failed" =>
              \E c \in Asker : check'[c].at = "answered" /\ check'[c].promise = slot
    PROVE  SlotFits'
BY DEF SlotFits

(* A check is asked for.                                                   *)
LEMMA CheckUpdateInv ==
    ASSUME CheckerInv, NEW c \in Asker, NEW question \in Question, CheckUpdate(c, question)
    PROVE  CheckerInv'
<1>. DEFINE call == [NotChecking EXCEPT !.at = "hook", !.question = question]
<1>1. call \in CheckCall /\ call.at = "hook" /\ call.promise = NoPromise
  BY DEF NotChecking, CheckCall, CheckPlace, MaybeQuestion, NoPromise
<1>2. check \in [Asker -> CheckCall] /\ check' = [check EXCEPT ![c] = call]
  BY DEF CheckerInv, ChecksFit, CheckUpdate
<1>. HIDE DEF call
<1>3. check' \in [Asker -> CheckCall] /\ check'[c] = call
      /\ \A d \in Asker \ {c} : check'[d] = check[d]
  BY <1>1, <1>2
<1>4. UNCHANGED <<promises, slot, slotQuestion, config, marks, jsRound, checkedWith,
                  slotRecent, exhausted, cache, acknowledged>>
  BY DEF CheckUpdate, slotVars, markVars
<1>5. ChecksFit'
  BY <1>1, <1>3, <1>4 DEF CheckerInv, ChecksFit, CheckFits
<1>6. PromisesAreCounted'
  <2>1. Hooked' = Hooked \cup {c}
    BY <1>1, <1>3 DEF Hooked
  <2>2. c \notin Hooked
    BY DEF Hooked, CheckUpdate
  <2>3. IsFiniteSet(Hooked') /\ Cardinality(Hooked') = Cardinality(Hooked) + 1
        /\ Cardinality(Hooked) \in Nat
    BY <2>1, <2>2, FS_AddElement, FS_CardinalityType DEF CheckerInv, PromisesAreCounted
  <2>4. Made' = Made
    BY <1>4 DEF Made
  <2>5. checksMade' = checksMade + 1 /\ checksMade < MaxChecks
    BY DEF CheckUpdate
  <2>. QED BY <2>3, <2>4, <2>5, <1>4, CheckBounds DEF CheckerInv, PromisesAreCounted
<1>7. SlotFits'
  <2>1. \A d \in Asker : check[d].at = "answered" => d # c
    BY DEF CheckUpdate
  <2>. QED BY <2>1, <1>3, <1>4 DEF CheckerInv, SlotFits
<1>8. CheckWorld' /\ MarkedWasChecked'
  BY <1>4 DEF CheckerInv, CheckWorld, MarkedWasChecked
<1>. QED BY <1>5, <1>6, <1>7, <1>8 DEF CheckerInv

(* The hook skips the check.                                               *)
LEMMA CheckSkippedInv ==
    ASSUME CheckerInv, NEW c \in Asker, CheckSkipped(c)
    PROVE  CheckerInv'
<1>1. UNCHANGED <<promises, slot, slotQuestion, config, marks, jsRound, checkedWith,
                  slotRecent, exhausted, cache, acknowledged, checksMade>>
  BY DEF CheckSkipped, slotVars, markVars
<1>2. check' = [check EXCEPT ![c] = NotChecking] /\ NotChecking.at # "hook"
  BY DEF CheckSkipped, NotChecking
<1>3. PromisesAreCounted' /\ ChecksFit'
  BY <1>1, <1>2, NotCheckingFits, CallChanges DEF CheckerInv
<1>4. SlotFits'
  <2>1. \A d \in Asker : check[d].at = "answered" => check'[d] = check[d]
    BY <1>2 DEF CheckSkipped, CheckerInv, ChecksFit
  <2>. QED BY <2>1, <1>1 DEF CheckerInv, SlotFits
<1>5. CheckWorld' /\ MarkedWasChecked'
  BY <1>1 DEF CheckerInv, CheckWorld, MarkedWasChecked
<1>. QED BY <1>3, <1>4, <1>5 DEF CheckerInv

(* A call that joins takes the slot's promise.                             *)
LEMMA SharesInv ==
    ASSUME CheckerInv, NEW c \in Asker, AfterCheckHook(c), Shares(check[c].question)
    PROVE  CheckerInv'
<1>. DEFINE call == [check[c] EXCEPT !.at = "joined", !.promise = slot]
<1>1. UNCHANGED <<promises, slot, slotQuestion, config, marks, jsRound, checkedWith,
                  slotRecent, exhausted, cache, acknowledged, checksMade>>
  BY DEF AfterCheckHook, slotVars, markVars
<1>2. check[c] \in CheckCall /\ check \in [Asker -> CheckCall] /\ slot \in Nat
  BY DEF CheckerInv, ChecksFit, SlotFits
<1>3. check' = [check EXCEPT ![c] = call]
  BY <1>2 DEF AfterCheckHook
<1>4. call \in CheckCall /\ call.at = "joined" /\ call.promise = slot
      /\ call.question = check[c].question
  BY <1>2 DEF CheckCall, CheckPlace
<1>. HIDE DEF call
<1>5. CheckFits(call, promises', config')
  BY <1>1, <1>4 DEF CheckerInv, SlotFits, Shares, CheckFits
<1>6. PromisesAreCounted' /\ ChecksFit'
  BY <1>1, <1>3, <1>4, <1>5, CallChanges DEF CheckerInv
<1>7. SlotFits'
  <2>1. \A d \in Asker : check[d].at = "answered" => check'[d] = check[d]
    BY <1>2, <1>3 DEF AfterCheckHook
  <2>. QED BY <2>1, <1>1 DEF CheckerInv, SlotFits
<1>8. CheckWorld' /\ MarkedWasChecked'
  BY <1>1 DEF CheckerInv, CheckWorld, MarkedWasChecked
<1>. QED BY <1>6, <1>7, <1>8 DEF CheckerInv

(* A call that asks itself makes the next promise and puts it in the slot. *)
LEMMA AsksInv ==
    ASSUME CheckerInv, NEW c \in Asker, AfterCheckHook(c), ~Shares(check[c].question)
    PROVE  CheckerInv'
<1>. DEFINE p == Made + 1
            place == IF exhausted THEN "fetch" ELSE "cache"
            call == [check[c] EXCEPT !.at = place, !.promise = p, !.during = {config}]
            made == [question |-> check[c].question, state |-> "pending"]
<1>1. UNCHANGED <<config, marks, jsRound, checkedWith, exhausted, cache, acknowledged, checksMade>>
  BY DEF AfterCheckHook, markVars
<1>2. check[c] \in CheckCall /\ check \in [Asker -> CheckCall] /\ check[c].at = "hook"
      /\ config \in MaybeCheckConfig
  BY DEF CheckerInv, ChecksFit, CheckWorld, AfterCheckHook
<1>3. DOMAIN promises = 1 .. Made /\ Made \in Nat /\ promises \in [1 .. Made -> Promised]
      /\ DOMAIN promises \cup {p} = 1 .. p /\ p \in Nat \ {0}
  BY DEF CheckerInv, PromisesAreCounted
<1>4. /\ check' = [check EXCEPT ![c] = call]
      /\ promises' = [i \in DOMAIN promises \cup {p} |-> IF i = p THEN made ELSE promises[i]]
      /\ slot' = p /\ slotQuestion' = check[c].question /\ slotRecent' = TRUE
  BY DEF AfterCheckHook, Made
<1>5. call \in CheckCall /\ call.at = place /\ place \in {"cache", "fetch"} /\ call.promise = p
      /\ call.during = {config} /\ call.question = check[c].question
  BY <1>2, <1>3 DEF CheckCall, CheckPlace
<1>6. made \in Promised /\ made.question = check[c].question /\ made.state = "pending"
      /\ check[c].question \in MaybeQuestion
  BY <1>2 DEF Promised, CheckCall
<1>. HIDE DEF call, made, place
<1>7. /\ check' \in [Asker -> CheckCall] /\ check'[c] = call
      /\ \A d \in Asker \ {c} : check'[d] = check[d]
  BY <1>2, <1>4, <1>5
<1>8. promises' = [i \in 1 .. p |-> IF i = p THEN made ELSE promises[i]]
  BY <1>3, <1>4
<1>9. promises' \in [1 .. p -> Promised] /\ promises'[p] = made
      /\ \A i \in 1 .. Made : promises'[i] = promises[i] /\ i \in 1 .. p
  BY <1>3, <1>6, <1>8
<1>10. Made' = p
  <2>1. DOMAIN promises' = 1 .. p
    BY <1>8
  <2>2. Cardinality(1 .. p) = p
    BY <1>3, FS_Interval
  <2>. QED BY <2>1, <2>2 DEF Made
<1>. HIDE DEF p
<1>11. PromisesAreCounted'
  <2>1. Hooked' = Hooked \ {c} /\ c \in Hooked
    BY <1>2, <1>5, <1>7 DEF Hooked
  <2>2. IsFiniteSet(Hooked') /\ Cardinality(Hooked') = Cardinality(Hooked) - 1
        /\ Cardinality(Hooked) \in Nat /\ Cardinality(Hooked') \in Nat
    BY <2>1, FS_RemoveElement, FS_CardinalityType DEF CheckerInv, PromisesAreCounted
  <2>3. p = Made + 1
    BY DEF p
  <2>. QED BY <1>1, <1>3, <1>9, <1>10, <2>2, <2>3 DEF CheckerInv, PromisesAreCounted
<1>12. ChecksFit'
  <2>1. CheckFits(call, promises', config')
    BY <1>1, <1>3, <1>5, <1>6, <1>9 DEF CheckFits, NoPromise
  <2>2. ASSUME NEW d \in Asker \ {c} PROVE CheckFits(check'[d], promises', config')
    BY <1>1, <1>3, <1>7, <1>9 DEF CheckerInv, ChecksFit, CheckFits
  <2>. QED BY <1>7, <2>1, <2>2 DEF ChecksFit
<1>13. SlotFits'
  BY <1>3, <1>4, <1>6, <1>9 DEF SlotFits
<1>14. CheckWorld' /\ MarkedWasChecked'
  BY <1>1, <1>4 DEF CheckerInv, CheckWorld, MarkedWasChecked
<1>. QED BY <1>11, <1>12, <1>13, <1>14 DEF CheckerInv

(* A call that settles its promise goes on to what the answer means.       *)
LEMMA SettlesInv ==
    ASSUME CheckerInv, NEW c \in Asker, check[c].at \in {"cache", "fetch"},
           NEW state \in {"answered", "failed"}, CheckSettles(c, state),
           UNCHANGED <<slot, slotQuestion, config, checksMade>>
    PROVE  PromisesAreCounted' /\ ChecksFit' /\ SlotFits'
<1>. DEFINE call == [check[c] EXCEPT !.at = "answered"]
            p == check[c].promise
<1>1. check[c] \in CheckCall /\ check \in [Asker -> CheckCall]
      /\ CheckFits(check[c], promises, config)
  BY DEF CheckerInv, ChecksFit
<1>2. p \in DOMAIN promises /\ config \in check[c].during
      /\ promises[p].question = check[c].question
  BY <1>1 DEF CheckFits
<1>3. check' = [check EXCEPT ![c] = call] /\ promises' = [promises EXCEPT ![p].state = state]
  BY <1>1 DEF CheckSettles
<1>4. call \in CheckCall /\ call.at = "answered" /\ call.promise = p
      /\ call.question = check[c].question /\ call.during = check[c].during
  BY <1>1 DEF CheckCall, CheckPlace
<1>. HIDE DEF call
<1>5. promises \in [1 .. Made -> Promised] /\ DOMAIN promises = 1 .. Made
  BY DEF CheckerInv, PromisesAreCounted
<1>6. promises' \in [1 .. Made -> Promised]
  BY <1>2, <1>3, <1>5 DEF Promised
<1>7. \A q \in 1 .. Made : promises'[q].question = promises[q].question
  BY <1>2, <1>3, <1>5 DEF Promised
<1>8. promises'[p].state = state /\ \A q \in (1 .. Made) \ {p} : promises'[q] = promises[q]
  BY <1>2, <1>3, <1>5 DEF Promised
<1>9. CheckFits(call, promises', config')
  BY <1>1, <1>2, <1>4, <1>5, <1>6, <1>7 DEF CheckFits
<1>10. PromisesAreCounted' /\ ChecksFit'
  BY <1>3, <1>4, <1>6, <1>7, <1>9, CallChanges DEF CheckerInv
<1>11. check'[c] = call /\ \A d \in Asker : check[d].at = "answered" => check'[d] = check[d]
  BY <1>1, <1>3
<1>12. SlotFits'
  <2>1. slot # NoPromise /\ promises'[slot].state = "failed" =>
            \E d \in Asker : check'[d].at = "answered" /\ check'[d].promise = slot
    <3>1. CASE slot = p
      BY <3>1, <1>4, <1>11
    <3>2. CASE slot # p
      BY <3>2, <1>5, <1>8, <1>11 DEF CheckerInv, SlotFits
    <3>. QED BY <3>1, <3>2
  <2>. QED BY <2>1, <1>5, <1>6, <1>7, SlotStays DEF CheckerInv
<1>. QED BY <1>10, <1>12

(* A check reads what native code recorded of its own round.               *)
LEMMA ReadNativeCheckCacheInv ==
    ASSUME CheckerInv, NEW c \in Asker, ReadNativeCheckCache(c)
    PROVE  CheckerInv'
<1>1. UNCHANGED <<slot, slotQuestion, config, marks, jsRound, checkedWith,
                  slotRecent, cache, acknowledged, checksMade>>
  BY DEF ReadNativeCheckCache, slotVars, markVars
<1>2. CheckWorld' /\ MarkedWasChecked'
  BY <1>1 DEF CheckerInv, CheckWorld, MarkedWasChecked, ReadNativeCheckCache
<1>3. check[c].at = "cache"
  BY DEF ReadNativeCheckCache
<1>4. CASE CheckSettles(c, "answered")
  BY <1>1, <1>2, <1>3, <1>4, SettlesInv DEF CheckerInv
<1>5. CASE check' = [check EXCEPT ![c].at = "fetch"] /\ UNCHANGED promises
  <2>. DEFINE call == [check[c] EXCEPT !.at = "fetch"]
  <2>1. check[c] \in CheckCall /\ check \in [Asker -> CheckCall]
        /\ CheckFits(check[c], promises, config)
    BY DEF CheckerInv, ChecksFit
  <2>2. check' = [check EXCEPT ![c] = call]
    BY <1>5, <2>1
  <2>3. call \in CheckCall /\ call.at = "fetch" /\ call.promise = check[c].promise
        /\ call.question = check[c].question /\ call.during = check[c].during
    BY <2>1 DEF CheckCall, CheckPlace
  <2>. HIDE DEF call
  <2>4. CheckFits(call, promises', config')
    BY <1>1, <1>3, <1>5, <2>1, <2>3 DEF CheckFits
  <2>5. PromisesAreCounted' /\ ChecksFit'
    BY <1>1, <1>5, <2>2, <2>3, <2>4, CallChanges DEF CheckerInv
  <2>6. \A d \in Asker : check[d].at = "answered" => check'[d] = check[d]
    BY <1>3, <2>1, <2>2
  <2>7. SlotFits'
    BY <2>6, <1>1, <1>5 DEF CheckerInv, SlotFits
  <2>. QED BY <1>2, <2>5, <2>7 DEF CheckerInv
<1>. QED BY <1>4, <1>5 DEF ReadNativeCheckCache

(* A check hears the answer, or that there is none.                        *)
LEMMA FetchCheckResultInv ==
    ASSUME CheckerInv, NEW c \in Asker, FetchCheckResult(c)
    PROVE  CheckerInv'
<1>1. UNCHANGED <<slot, slotQuestion, config, marks, jsRound, checkedWith,
                  slotRecent, exhausted, cache, acknowledged, checksMade>>
  BY DEF FetchCheckResult, slotVars, markVars
<1>2. PICK state \in {"answered", "failed"} : CheckSettles(c, state)
  BY DEF FetchCheckResult
<1>3. PromisesAreCounted' /\ ChecksFit' /\ SlotFits'
  BY <1>1, <1>2, SettlesInv DEF FetchCheckResult
<1>4. CheckWorld' /\ MarkedWasChecked'
  BY <1>1 DEF CheckerInv, CheckWorld, MarkedWasChecked
<1>. QED BY <1>3, <1>4 DEF CheckerInv

(* The owner leaves: a failed promise of its own leaves the slot with it,  *)
(* and what it marks is described now, so it was described while it asked. *)
LEMMA OwnCheckEndsInv ==
    ASSUME CheckerInv, NEW c \in Asker, OwnCheckEnds(c)
    PROVE  CheckerInv'
<1>. DEFINE p == check[c].promise
            state == promises[p].state
<1>1. UNCHANGED <<promises, config, jsRound, slotRecent, exhausted, cache, acknowledged,
                  checksMade>>
  BY DEF OwnCheckEnds
<1>2. check' = [check EXCEPT ![c] = NotChecking] /\ NotChecking.at # "hook"
      /\ check[c].at = "answered"
  BY DEF OwnCheckEnds, NotChecking
<1>3. PromisesAreCounted' /\ ChecksFit'
  BY <1>1, <1>2, NotCheckingFits, CallChanges DEF CheckerInv
<1>4. config \in check[c].during
  BY <1>2 DEF CheckerInv, ChecksFit, CheckFits
<1>5. \A d \in Asker \ {c} : check'[d] = check[d]
  BY <1>2 DEF CheckerInv, ChecksFit
<1>6. SlotFits'
  <2>1. CASE state = "failed" /\ OwnsSlot(c)
    BY <2>1 DEF OwnCheckEnds, SlotFits, NoPromise, MaybeQuestion
  <2>2. CASE ~(state = "failed" /\ OwnsSlot(c))
    <3>1. UNCHANGED <<slot, slotQuestion>>
      BY <2>2 DEF OwnCheckEnds
    <3>2. ASSUME slot # NoPromise, promises[slot].state = "failed"
          PROVE  \E d \in Asker \ {c} : check[d].at = "answered" /\ check[d].promise = slot
      BY <2>2, <3>2 DEF CheckerInv, SlotFits, OwnsSlot
    <3>. QED BY <3>1, <3>2, <1>1, <1>5 DEF CheckerInv, SlotFits
  <2>. QED BY <2>1, <2>2
<1>7. CheckWorld'
  BY <1>1 DEF CheckerInv, CheckWorld, OwnCheckEnds, MarkJsCheckCompleted, MaybeCheckConfig
<1>8. MarkedWasChecked'
  BY <1>1, <1>4 DEF CheckerInv, MarkedWasChecked, OwnCheckEnds, MarkJsCheckCompleted, MarksCheck
<1>. QED BY <1>3, <1>6, <1>7, <1>8 DEF CheckerInv

(* A call that joined hears what it joined.                                *)
LEMMA JoinedCheckEndsInv ==
    ASSUME CheckerInv, NEW c \in Asker, JoinedCheckEnds(c)
    PROVE  CheckerInv'
<1>1. UNCHANGED <<promises, slot, slotQuestion, config, marks, jsRound, checkedWith,
                  slotRecent, exhausted, cache, acknowledged, checksMade>>
  BY DEF JoinedCheckEnds, slotVars, markVars
<1>2. check' = [check EXCEPT ![c] = NotChecking] /\ NotChecking.at # "hook"
  BY DEF JoinedCheckEnds, NotChecking
<1>3. PromisesAreCounted' /\ ChecksFit'
  BY <1>1, <1>2, NotCheckingFits, CallChanges DEF CheckerInv
<1>4. SlotFits'
  <2>1. \A d \in Asker : check[d].at = "answered" => check'[d] = check[d]
    BY <1>2 DEF JoinedCheckEnds, CheckerInv, ChecksFit
  <2>. QED BY <2>1, <1>1 DEF CheckerInv, SlotFits
<1>5. CheckWorld' /\ MarkedWasChecked'
  BY <1>1 DEF CheckerInv, CheckWorld, MarkedWasChecked
<1>. QED BY <1>3, <1>4, <1>5 DEF CheckerInv

(* Native code records the mark, or the slot ages.                         *)
LEMMA AsideInv ==
    ASSUME CheckerInv, (\E m \in marks : NativeRecordsJsRound(m)) \/ FiveSecondsPass
    PROVE  CheckerInv'
<1>1. UNCHANGED <<check, promises, slot, slotQuestion, config, checkedWith, cache, exhausted,
                  checksMade>>
  BY DEF NativeRecordsJsRound, FiveSecondsPass, slotVars, markVars
<1>2. PromisesAreCounted' /\ ChecksFit' /\ SlotFits'
  BY <1>1 DEF CheckerInv, PromisesAreCounted, Made, Hooked, ChecksFit, SlotFits
<1>3. CheckWorld' /\ MarkedWasChecked'
  <2>1. CASE FiveSecondsPass
    BY <1>1, <2>1 DEF CheckerInv, CheckWorld, MarkedWasChecked, FiveSecondsPass, markVars
  <2>2. ASSUME NEW m \in marks, NativeRecordsJsRound(m) PROVE CheckWorld' /\ MarkedWasChecked'
    BY <1>1, <2>2 DEF CheckerInv, CheckWorld, MarkedWasChecked, NativeRecordsJsRound,
                      MaybeCheckConfig, slotVars
  <2>. QED BY <2>1, <2>2
<1>. QED BY <1>2, <1>3 DEF CheckerInv

(* Every call under way sees what the options describe next.               *)
LEMMA OptionsChangeInv ==
    ASSUME CheckerInv, OptionsChange
    PROVE  CheckerInv'
<1>1. UNCHANGED <<promises, slot, slotQuestion, marks, jsRound, checkedWith,
                  slotRecent, exhausted, cache, acknowledged, checksMade>>
  BY DEF OptionsChange, slotVars, markVars
<1>2. config' \in MaybeCheckConfig
      /\ check' = [c \in Asker |-> IF check[c].at \in {"cache", "fetch", "answered"}
                                   THEN [check[c] EXCEPT !.during = @ \cup {config'}]
                                   ELSE check[c]]
  BY DEF OptionsChange
<1>3. ASSUME NEW c \in Asker
      PROVE  /\ check'[c] \in CheckCall /\ check'[c].at = check[c].at
             /\ check'[c].question = check[c].question /\ check'[c].promise = check[c].promise
             /\ check[c].at \in {"cache", "fetch", "answered"} => config' \in check'[c].during
  <2>1. check[c] \in CheckCall
    BY DEF CheckerInv, ChecksFit
  <2>. QED BY <1>2, <2>1 DEF CheckCall
<1>4. Hooked' = Hooked
  BY <1>3 DEF Hooked
<1>5. PromisesAreCounted'
  BY <1>1, <1>4 DEF CheckerInv, PromisesAreCounted, Made
<1>6. ChecksFit'
  <2>1. ASSUME NEW c \in Asker PROVE CheckFits(check'[c], promises', config')
    BY <1>1, <1>3 DEF CheckerInv, ChecksFit, CheckFits
  <2>2. check' \in [Asker -> CheckCall]
    BY <1>2, <1>3
  <2>. QED BY <2>1, <2>2 DEF ChecksFit
<1>7. SlotFits'
  BY <1>1, <1>3 DEF CheckerInv, SlotFits
<1>8. CheckWorld' /\ MarkedWasChecked'
  BY <1>1, <1>2 DEF CheckerInv, CheckWorld, MarkedWasChecked
<1>. QED BY <1>5, <1>6, <1>7, <1>8 DEF CheckerInv

(* Every step of the checks keeps the invariant.                           *)
LEMMA CheckerStep == CheckerInv /\ [CheckerNext]_checkerVars => CheckerInv'
<1>. SUFFICES ASSUME CheckerInv, [CheckerNext]_checkerVars PROVE CheckerInv'
  OBVIOUS
<1>1. CASE UNCHANGED checkerVars
  BY <1>1 DEF checkerVars, slotVars, markVars, CheckerInv, PromisesAreCounted, Made, Hooked,
              ChecksFit, SlotFits, CheckWorld, MarkedWasChecked
<1>2. ASSUME NEW c \in Asker, NEW question \in Question, CheckUpdate(c, question) PROVE CheckerInv'
  BY <1>2, CheckUpdateInv
<1>3. ASSUME NEW c \in Asker, CheckSkipped(c) PROVE CheckerInv'
  BY <1>3, CheckSkippedInv
<1>4. ASSUME NEW c \in Asker, AfterCheckHook(c) PROVE CheckerInv'
  BY <1>4, SharesInv, AsksInv
<1>5. ASSUME NEW c \in Asker, CheckProgresses(c) PROVE CheckerInv'
  BY <1>5, ReadNativeCheckCacheInv, FetchCheckResultInv, OwnCheckEndsInv, JoinedCheckEndsInv
     DEF CheckProgresses
<1>6. CASE (\E m \in marks : NativeRecordsJsRound(m)) \/ FiveSecondsPass
  BY <1>6, AsideInv
<1>7. CASE OptionsChange
  BY <1>7, OptionsChangeInv
<1>. QED BY <1>1, <1>2, <1>3, <1>4, <1>5, <1>6, <1>7 DEF CheckerNext

(* The invariant has the properties in it.                                 *)
LEMMA CheckerInvMeans == CheckerInv => CheckerTypeOK /\ SharedAnswerFits /\ MarkedWasChecked
<1>. SUFFICES ASSUME CheckerInv PROVE CheckerTypeOK /\ SharedAnswerFits
  BY DEF CheckerInv
<1>1. DOMAIN promises = 1 .. Made /\ Made <= MaxChecks /\ Made \in Nat /\ MaxChecks \in Nat
      /\ promises \in [1 .. Made -> Promised]
  BY PromisesAreFew, CheckBounds DEF CheckerInv, PromisesAreCounted
<1>2. ASSUME NEW c \in Asker
      PROVE  /\ check[c].at \in CheckPlace /\ check[c].promise \in 0 .. MaxChecks
             /\ check[c].during \subseteq MaybeCheckConfig
             /\ check[c].promise # NoPromise =>
                    promises[check[c].promise].question = check[c].question
  <2>1. check[c] \in CheckCall /\ CheckFits(check[c], promises, config)
    BY DEF CheckerInv, ChecksFit
  <2>. QED BY <1>1, <2>1 DEF CheckCall, CheckFits, NoPromise
<1>3. slot \in 0 .. MaxChecks
  BY <1>1 DEF CheckerInv, SlotFits, NoPromise
<1>4. \A p \in DOMAIN promises : promises[p].state \in {"pending", "answered", "failed"}
  BY <1>1 DEF Promised
<1>5. CheckerTypeOK
  BY <1>2, <1>3, <1>4 DEF CheckerTypeOK, CheckPlace, CheckerInv, CheckWorld, SlotFits, MaybeQuestion
<1>6. SharedAnswerFits
  BY <1>2 DEF SharedAnswerFits, CheckerInv, SlotFits
<1>. QED BY <1>5, <1>6

(* The slot is freed only by a check that failed and holds it.             *)
LEMMA SlotFreed ==
    ASSUME CheckerInv, [CheckerNext]_checkerVars, slot # NoPromise, slot' = NoPromise
    PROVE  promises[slot].state = "failed"
<1>1. slot' # slot
  OBVIOUS
<1>2. PICK c \in Asker : AfterCheckHook(c) \/ OwnCheckEnds(c)
  BY <1>1 DEF CheckerNext, CheckUpdate, CheckSkipped, CheckProgresses, ReadNativeCheckCache,
     FetchCheckResult, JoinedCheckEnds, NativeRecordsJsRound, FiveSecondsPass, OptionsChange,
     checkerVars, slotVars
<1>3. CASE AfterCheckHook(c)
  <2>1. slot' = slot \/ slot' = Made + 1
    BY <1>3 DEF AfterCheckHook, slotVars, Made
  <2>. QED BY <2>1, <1>1 DEF CheckerInv, PromisesAreCounted, NoPromise
<1>4. CASE OwnCheckEnds(c)
  BY <1>1, <1>4 DEF OwnCheckEnds, OwnsSlot
<1>. QED BY <1>2, <1>3, <1>4

-----------------------------------------------------------------------------
(***************************************************************************)
(* Error reporting                                                         *)
(***************************************************************************)
(* A handler chains an older one, and the one the client would take out is *)
(* its own.                                                                *)
ReporterInv ==
    /\ next \in Seq(0..MaxInstalls) /\ owner \in Seq({"client", "other"}) /\ Len(owner) = Installed
    /\ \A h \in 1 .. Installed : next[h] \in 0 .. Installed
    /\ top \in 0 .. Installed /\ wrapper \in 0 .. Installed /\ Installed <= MaxInstalls
    /\ wrapper # 0 => owner[wrapper] = "client"
    /\ reporting \in BOOLEAN /\ release \in BOOLEAN /\ reported \subseteq Thrown

(* The invariant holds before anything is installed.                       *)
LEMMA ReporterInitInv == ReporterInit => ReporterInv
<1>. SUFFICES ASSUME ReporterInit PROVE ReporterInv
  OBVIOUS
<1>1. /\ next = <<>> /\ owner = <<>> /\ top = 0 /\ wrapper = 0 /\ reporting = FALSE /\ reported = {}
      /\ release \in BOOLEAN
  BY DEF ReporterInit
<1>2. Installed = 0 /\ Len(owner) = 0 /\ 1 .. 0 = {}
  BY <1>1 DEF Installed
<1>3. next \in Seq(0..MaxInstalls) /\ owner \in Seq({"client", "other"})
  BY <1>1
<1>4. top \in 0 .. Installed /\ wrapper \in 0 .. Installed /\ Installed <= MaxInstalls
  BY <1>1, <1>2, ReporterBounds
<1>5. reporting \in BOOLEAN /\ release \in BOOLEAN /\ reported \subseteq Thrown /\ wrapper = 0
  BY <1>1
<1>6. \A h \in 1 .. Installed : next[h] \in 0 .. Installed
  BY <1>2
<1>. QED BY <1>2, <1>3, <1>4, <1>5, <1>6 DEF ReporterInv

(* The handler found is chained, and stays where it was.                   *)
LEMMA WrapsKeeps ==
    ASSUME ReporterInv, NEW who \in {"client", "other"}, Wraps(who)
    PROVE  /\ Installed' = Installed + 1 /\ top' = Installed + 1
           /\ next' \in Seq(0..MaxInstalls) /\ owner' \in Seq({"client", "other"})
           /\ Len(owner') = Installed' /\ Installed' <= MaxInstalls
           /\ next'[Installed + 1] = top /\ owner'[Installed + 1] = who
           /\ \A h \in 1 .. Installed : next'[h] = next[h] /\ owner'[h] = owner[h]
           /\ \A h \in 1 .. Installed' : next'[h] \in 0 .. Installed'
<1>1. Installed \in Nat /\ Installed = Len(next) /\ Len(owner) = Len(next)
      /\ top \in 0 .. MaxInstalls /\ Installed < MaxInstalls
  BY ReporterBounds DEF ReporterInv, Installed, Wraps
<1>2. next' = Append(next, top) /\ owner' = Append(owner, who) /\ top' = Installed + 1
  BY DEF Wraps
<1>3. /\ next' \in Seq(0..MaxInstalls) /\ Len(next') = Len(next) + 1 /\ next'[Len(next) + 1] = top
      /\ \A h \in 1 .. Len(next) : next'[h] = next[h]
  BY <1>1, <1>2, AppendProperties DEF ReporterInv
<1>4. /\ owner' \in Seq({"client", "other"}) /\ Len(owner') = Len(owner) + 1
      /\ owner'[Len(owner) + 1] = who /\ \A h \in 1 .. Len(owner) : owner'[h] = owner[h]
  BY <1>1, <1>2, AppendProperties DEF ReporterInv
<1>5. Installed' = Installed + 1
  BY <1>1, <1>3 DEF Installed
<1>6. \A h \in 1 .. Installed' : next'[h] \in 0 .. Installed'
  <2>1. \A h \in 1 .. Installed' : h \in 1 .. Installed \/ h = Installed + 1
    BY <1>1, <1>5
  <2>2. \A i \in 0 .. Installed : i \in 0 .. Installed'
    BY <1>1, <1>5
  <2>. QED BY <1>1, <1>3, <2>1, <2>2 DEF ReporterInv
<1>7. \A h \in 1 .. Installed : next'[h] = next[h] /\ owner'[h] = owner[h]
  BY <1>1, <1>3, <1>4
<1>8. next'[Installed + 1] = top /\ owner'[Installed + 1] = who /\ Len(owner') = Installed'
      /\ Installed' <= MaxInstalls
  BY <1>1, <1>3, <1>4, <1>5, ReporterBounds
<1>. QED BY <1>2, <1>3, <1>4, <1>5, <1>6, <1>7, <1>8

(* Taking a handler out leaves a handler, or none, on top.                 *)
LEMMA TakeOutKeeps ==
    ASSUME ReporterInv, wrapper # 0, TakeOut(wrapper), UNCHANGED <<next, owner>>
    PROVE  top' \in 0 .. Installed
BY DEF ReporterInv, TakeOut

(* Every installation and removal keeps the invariant.                     *)
LEMMA ReporterStep == ReporterInv /\ [ReporterNext]_reporterVars => ReporterInv'
<1>. SUFFICES ASSUME ReporterInv, [ReporterNext]_reporterVars PROVE ReporterInv'
  OBVIOUS
<1>0. Installed \in Nat /\ release' \in BOOLEAN
  BY DEF ReporterInv, Installed, ReporterNext, reporterVars
<1>1. ASSUME NEW who \in {"client", "other"}, Wraps(who),
             wrapper' = wrapper \/ (wrapper' = Installed + 1 /\ who = "client"),
             reporting' \in BOOLEAN, reported' = reported
      PROVE  ReporterInv'
  <2>1. Installed' = Installed + 1 /\ top' = Installed + 1 /\ Installed \in Nat
    BY <1>1, WrapsKeeps DEF ReporterInv, Installed
  <2>2. top' \in 0 .. Installed' /\ wrapper' \in 0 .. Installed'
    BY <1>1, <2>1 DEF ReporterInv
  <2>3. wrapper' # 0 => owner'[wrapper'] = "client"
    BY <1>1, <2>1, WrapsKeeps DEF ReporterInv
  <2>. QED BY <1>0, <1>1, <2>2, <2>3, WrapsKeeps DEF ReporterInv
<1>2. ASSUME UNCHANGED <<next, owner>>, top' \in 0 .. Installed, wrapper' \in {0, wrapper},
             reporting' \in BOOLEAN, reported' \subseteq Thrown
      PROVE  ReporterInv'
  <2>1. Installed' = Installed
    BY <1>2 DEF Installed
  <2>. QED BY <1>0, <1>2, <2>1 DEF ReporterInv
<1>3. ASSUME NEW on \in BOOLEAN, SetReporting(on) PROVE ReporterInv'
  <2>1. CASE on /\ wrapper = 0
    BY <1>1, <1>3, <2>1 DEF SetReporting
  <2>2. CASE on /\ wrapper # 0
    BY <1>2, <1>3, <2>2 DEF SetReporting, ReporterInv
  <2>3. CASE ~on
    BY <1>2, <1>3, <2>3, TakeOutKeeps DEF SetReporting, ReporterInv
  <2>. QED BY <2>1, <2>2, <2>3
<1>4. CASE CleanUp
  BY <1>2, <1>4, TakeOutKeeps DEF CleanUp, ReporterInv
<1>5. CASE OtherInstalls
  BY <1>1, <1>5 DEF OtherInstalls, ReporterInv
<1>6. CASE OtherLeaves
  BY <1>0, <1>2, <1>6 DEF OtherLeaves, ReporterInv
<1>7. ASSUME NEW e \in Thrown, Throw(e) PROVE ReporterInv'
  <2>1. reported' \subseteq Thrown
    BY <1>7 DEF Throw, ReporterInv
  <2>. QED BY <1>2, <1>7, <2>1 DEF Throw, ReporterInv
<1>8. CASE UNCHANGED reporterVars
  BY <1>8 DEF reporterVars, ReporterInv, Installed
<1>. QED BY <1>3, <1>4, <1>5, <1>6, <1>7, <1>8 DEF ReporterNext

(* A handler of the client that wraps the global one leaves the rest of    *)
(* the chain behind it.                                                    *)
LEMMA WrapKeepsOthers ==
    ASSUME ReporterInv, Wraps("client"), NEW n, n = Installed
    PROVE  ChainOf("other")' = ChainOf("other")
<1>1. n \in Nat /\ Installed' = n + 1 /\ top' = n + 1 /\ next'[n + 1] = top /\ top \in 0 .. n
      /\ owner'[n + 1] = "client"
      /\ \A h \in 1 .. n : next'[h] = next[h] /\ owner'[h] = owner[h] /\ next[h] \in 0 .. n
  BY WrapsKeeps DEF ReporterInv, Installed
<1>2. /\ 0 .. n + 1 = (0 .. n) \cup {n + 1} /\ 1 .. n + 1 = (1 .. n) \cup {n + 1}
      /\ n + 1 \notin 0 .. n /\ (0 .. n) \ {0} = 1 .. n /\ n + 1 # 0
  BY <1>1
<1>3. ASSUME NEW h \in Chain PROVE h \in Chain'
  <2>. SUFFICES ASSUME NEW hs \in SUBSET (0 .. n + 1), Passed(hs)' PROVE h \in hs
    BY <1>1, <1>2, <1>3 DEF Chain
  <2>1. top \in hs /\ \A g \in hs \ {0} : next'[g] \in hs
    BY <1>1, <1>2 DEF Passed
  <2>2. Passed(hs \cap (0 .. n))
    BY <1>1, <1>2, <2>1 DEF Passed
  <2>. QED BY <1>3, <2>2 DEF Chain
<1>4. ASSUME NEW h \in Chain', h # n + 1 PROVE h \in Chain
  <2>1. h \in 0 .. n
    BY <1>1, <1>2, <1>4 DEF Chain
  <2>2. ASSUME NEW hs \in SUBSET (0 .. n), Passed(hs) PROVE h \in hs
    <3>1. Passed(hs \cup {n + 1})'
      BY <1>1, <1>2, <2>2 DEF Passed
    <3>2. hs \cup {n + 1} \in SUBSET (0 .. n + 1)
      BY <1>2
    <3>. QED BY <1>1, <1>4, <3>1, <3>2 DEF Chain
  <2>. QED BY <2>1, <2>2 DEF Chain
<1>5. Chain \subseteq 0 .. n
  BY DEF Chain
<1>6. Chain' \ {n + 1} = Chain
  BY <1>2, <1>3, <1>4, <1>5
<1>7. \A h \in Chain \ {0} : owner'[h] = owner[h]
  BY <1>1, <1>2, <1>5
<1>8. "client" # "other"
  OBVIOUS
<1>. QED BY <1>1, <1>6, <1>7, <1>8 DEF ChainOf

(* Taken out, a handler of the client leaves what it chained.              *)
LEMMA TakeOutKeepsOthers ==
    ASSUME ReporterInv, wrapper # 0, TakeOut(wrapper), UNCHANGED <<next, owner>>,
           NEW n, n = Installed
    PROVE  ChainOf("other")' = ChainOf("other")
<1>1. Installed' = n
  BY DEF Installed
<1>2. CASE top # wrapper
  <2>1. top' = top
    BY <1>2 DEF TakeOut
  <2>. QED BY <1>1, <2>1 DEF ChainOf, Chain, Passed
<1>3. CASE top = wrapper
  <2>1. top' = next[top] /\ top \in 1 .. n /\ top' \in 0 .. n /\ owner[top] = "client" /\ n \in Nat
    BY <1>3 DEF TakeOut, ReporterInv, Installed
  <2>2. ASSUME NEW h \in Chain' PROVE h \in Chain
    <3>. SUFFICES ASSUME NEW hs \in SUBSET (0 .. n), Passed(hs) PROVE h \in hs
      BY <1>1, <2>2 DEF Chain
    <3>1. Passed(hs)'
      BY <2>1 DEF Passed
    <3>. QED BY <1>1, <2>2, <3>1 DEF Chain
  <2>3. ASSUME NEW h \in Chain, h # top PROVE h \in Chain'
    <3>. SUFFICES ASSUME NEW hs \in SUBSET (0 .. n), Passed(hs)' PROVE h \in hs
      BY <1>1, <2>3 DEF Chain
    <3>1. Passed(hs \cup {top})
      BY <2>1 DEF Passed
    <3>. QED BY <2>1, <2>3, <3>1 DEF Chain
  <2>. QED BY <2>1, <2>2, <2>3 DEF ChainOf
<1>. QED BY <1>2, <1>3

(* Neither reporting nor its cleanup changes which handlers of others are  *)
(* in the chain.                                                           *)
LEMMA OthersKept ==
    ASSUME ReporterInv, (\E on \in BOOLEAN : SetReporting(on)) \/ CleanUp
    PROVE  ChainOf("other")' = ChainOf("other")
<1>1. CASE Wraps("client")
  BY <1>1, WrapKeepsOthers
<1>2. CASE UNCHANGED <<next, owner, top>>
  BY <1>2 DEF ChainOf, Chain, Passed, Installed
<1>3. CASE wrapper # 0 /\ TakeOut(wrapper) /\ UNCHANGED <<next, owner>>
  BY <1>3, TakeOutKeepsOthers
<1>. QED BY <1>1, <1>2, <1>3 DEF SetReporting, CleanUp

-----------------------------------------------------------------------------
(***************************************************************************)
(* The provider                                                            *)
(***************************************************************************)
(* What is shown of a response can be downloaded, and what the instance    *)
(* counts begins with its mount.                                           *)
ShownIsUsable == updateInfo \in Release => updateInfo \in Usable
AlertsAreUsable == \A alert \in alerts : alert.about # "expired" => alert.version \in Usable
CountsBeginWithTheMount ==
    /\ {startChecks, launchLinks} \subseteq {0, 1}
    /\ startCheckDone = FALSE => startChecks = 0
    /\ linkHandled = FALSE => launchLinks = 0
    /\ mounted = FALSE => startCheckDone = FALSE /\ linkHandled = FALSE

ProviderInv ==
    /\ ProviderTypeOK /\ ShownIsUsable /\ AlertsAreUsable /\ CountsBeginWithTheMount
    /\ downloads \subseteq Usable /\ switches \subseteq consented

(* The check at the start, and the launch URL, are counted once.           *)
LEMMA StartChecksOnce ==
    ASSUME NEW done \in BOOLEAN, NEW cs, NEW links \in {0, 1}, checks \in Nat,
           startChecks \in {0, 1}, done = FALSE => startChecks = 0,
           StartCheckEffect(done, cs, links)
    PROVE  /\ checks' \in Nat /\ startCheckDone' \in BOOLEAN /\ startChecks' \in {0, 1}
           /\ startCheckDone' = FALSE => startChecks' = 0
<1>1. CASE StartsCheck(done, cs)
  <2>1. done = FALSE
    BY <1>1 DEF StartsCheck
  <2>2. startCheckDone' = TRUE /\ startChecks' = startChecks + 1 /\ checks' = checks + 1 + links
    BY <1>1 DEF StartCheckEffect
  <2>. QED BY <2>1, <2>2
<1>2. CASE ~StartsCheck(done, cs)
  <2>1. startCheckDone' = done /\ startChecks' = startChecks /\ checks' = checks + links
    BY <1>2 DEF StartCheckEffect
  <2>. QED BY <2>1
<1>. QED BY <1>1, <1>2

(* The launch link is followed at most once.                               *)
LEMMA LinksOnce ==
    ASSUME NEW handled \in BOOLEAN, NEW links, launchLinks \in {0, 1},
           handled = FALSE => launchLinks = 0, LaunchLinkEffect(handled, links)
    PROVE  linkHandled' = TRUE /\ launchLinks' \in {0, 1}
BY DEF LaunchLinkEffect

(* Mounts, options and whatever else asks for a check.                     *)
Lives ==
    \/ Mount \/ EffectsRerun \/ Unmount \/ Foreground
    \/ \E testChannel \in BOOLEAN : ParseTestPayload(testChannel)
    \/ \E s \in Strategies, cs \in Checks : SetStrategies(s, cs)
    \/ MarkSuccessTimer

(* Mounts, options and timers keep the counts of a mount.                  *)
LEMMA LivesKeepCounts ==
    ASSUME ProviderInv, Lives
    PROVE  /\ CountsBeginWithTheMount' /\ checks' \in Nat
           /\ mounted' \in BOOLEAN /\ strategy' \in Strategies /\ checkStrategy' \in Checks
           /\ startCheckDone' \in BOOLEAN /\ linkHandled' \in BOOLEAN /\ markTimer' \in BOOLEAN
<1>1. /\ mounted \in BOOLEAN /\ strategy \in Strategies /\ checkStrategy \in Checks
      /\ startCheckDone \in BOOLEAN /\ linkHandled \in BOOLEAN /\ markTimer \in BOOLEAN
      /\ checks \in Nat /\ startChecks \in {0, 1} /\ launchLinks \in {0, 1}
      /\ startCheckDone = FALSE => startChecks = 0
      /\ linkHandled = FALSE => launchLinks = 0
      /\ mounted = FALSE => startCheckDone = FALSE /\ linkHandled = FALSE
  BY DEF ProviderInv, ProviderTypeOK, CountsBeginWithTheMount
<1>2. CASE Mount
  <2>1. PICK links \in {0, 1} :
          LaunchLinkEffect(FALSE, links) /\ StartCheckEffect(FALSE, checkStrategy, links)
    BY <1>2 DEF Mount
  <2>2. mounted' = TRUE /\ markTimer' = TRUE /\ UNCHANGED <<strategy, checkStrategy>>
        /\ mounted = FALSE
    BY <1>1, <1>2 DEF Mount
  <2>3. /\ checks' \in Nat /\ startCheckDone' \in BOOLEAN /\ startChecks' \in {0, 1}
        /\ startCheckDone' = FALSE => startChecks' = 0
    BY <1>1, <2>1, <2>2, StartChecksOnce
  <2>4. linkHandled' = TRUE /\ launchLinks' \in {0, 1}
    BY <1>1, <2>1, <2>2, LinksOnce
  <2>. QED BY <1>1, <2>2, <2>3, <2>4 DEF CountsBeginWithTheMount
<1>3. CASE EffectsRerun
  <2>1. /\ LaunchLinkEffect(linkHandled, 0) /\ StartCheckEffect(startCheckDone, checkStrategy, 0)
        /\ markTimer' = TRUE /\ UNCHANGED <<mounted, strategy, checkStrategy>> /\ mounted = TRUE
    BY <1>1, <1>3 DEF EffectsRerun
  <2>3. /\ checks' \in Nat /\ startCheckDone' \in BOOLEAN /\ startChecks' \in {0, 1}
        /\ startCheckDone' = FALSE => startChecks' = 0
    BY <1>1, <2>1, StartChecksOnce
  <2>4. linkHandled' = TRUE /\ launchLinks' \in {0, 1}
    BY <1>1, <2>1, LinksOnce
  <2>. QED BY <1>1, <2>1, <2>3, <2>4 DEF CountsBeginWithTheMount
<1>4. CASE Unmount
  BY <1>1, <1>4 DEF Unmount, CountsBeginWithTheMount
<1>5. CASE Foreground \/ \E testChannel \in BOOLEAN : ParseTestPayload(testChannel)
  BY <1>1, <1>5 DEF Foreground, ParseTestPayload, CountsBeginWithTheMount, lifeVars, linkVars
<1>6. ASSUME NEW s \in Strategies, NEW cs \in Checks, SetStrategies(s, cs)
      PROVE  /\ CountsBeginWithTheMount' /\ checks' \in Nat
             /\ mounted' \in BOOLEAN /\ strategy' \in Strategies /\ checkStrategy' \in Checks
             /\ startCheckDone' \in BOOLEAN /\ linkHandled' \in BOOLEAN /\ markTimer' \in BOOLEAN
  <2>1. /\ strategy' = s /\ checkStrategy' = cs
        /\ UNCHANGED <<mounted, markTimer, linkHandled, launchLinks>>
    BY <1>6 DEF SetStrategies, linkVars
  <2>2. CASE mounted /\ cs # checkStrategy
    <3>1. StartCheckEffect(startCheckDone, cs, 0)
      BY <1>6, <2>2 DEF SetStrategies
    <3>2. /\ checks' \in Nat /\ startCheckDone' \in BOOLEAN /\ startChecks' \in {0, 1}
          /\ startCheckDone' = FALSE => startChecks' = 0
      BY <1>1, <3>1, StartChecksOnce
    <3>. QED BY <1>1, <2>1, <2>2, <3>2 DEF CountsBeginWithTheMount
  <2>3. CASE ~(mounted /\ cs # checkStrategy)
    BY <1>1, <1>6, <2>1, <2>3 DEF SetStrategies, CountsBeginWithTheMount
  <2>. QED BY <2>2, <2>3
<1>7. CASE MarkSuccessTimer
  BY <1>1, <1>7 DEF MarkSuccessTimer, CountsBeginWithTheMount, linkVars
<1>. QED BY <1>2, <1>3, <1>4, <1>5, <1>6, <1>7 DEF Lives

(* They show and download nothing themselves.                              *)
LEMMA LivesKeepScreen ==
    Lives => /\ UNCHANGED <<downloads, downloadedVersion, alerts, consented, switches>>
             /\ updateInfo' \in {updateInfo, NoVersionYet}
BY DEF Lives, Mount, EffectsRerun, Unmount, Foreground, ParseTestPayload, SetStrategies,
       MarkSuccessTimer, uiVars

(* Mounts, options and timers keep the invariant.                          *)
LEMMA LivesKeepInv == ASSUME ProviderInv, Lives PROVE ProviderInv'
<1>1. /\ CountsBeginWithTheMount' /\ checks' \in Nat
      /\ mounted' \in BOOLEAN /\ strategy' \in Strategies /\ checkStrategy' \in Checks
      /\ startCheckDone' \in BOOLEAN /\ linkHandled' \in BOOLEAN /\ markTimer' \in BOOLEAN
  BY LivesKeepCounts
<1>2. /\ UNCHANGED <<downloads, downloadedVersion, alerts, consented, switches>>
      /\ updateInfo' \in {updateInfo, NoVersionYet}
  BY LivesKeepScreen
<1>3. ProviderTypeOK'
  BY <1>1, <1>2 DEF ProviderInv, ProviderTypeOK
<1>4. ShownIsUsable'
  BY <1>2, ReleaseAssumption DEF ProviderInv, ShownIsUsable
<1>. QED BY <1>1, <1>2, <1>3, <1>4 DEF ProviderInv, AlertsAreUsable

(***************************************************************************)
(* What happens on the screen                                              *)
(***************************************************************************)
Alert == [about : {"found", "ready", "expired"}, version : Release \cup {NoVersionYet}]

(* Of the alerts a step leaves, each was there or can be downloaded.       *)
AlertsStayUsable ==
    \A alert \in alerts' :
        \/ alert \in alerts
        \/ alert \in Alert /\ (alert.about # "expired" => alert.version \in Usable)

(* What a step on the screen must leave.                                   *)
LEMMA ScreenKeepsInv ==
    ASSUME ProviderInv, UNCHANGED lifeVars, checks' \in Nat,
           updateInfo' \in Release \cup {NoVersionYet, "upToDate", "expired"},
           updateInfo' \in Release => updateInfo' \in Usable,
           downloads' \subseteq Release \cap Usable,
           downloadedVersion' \in Release \cup {NoVersionYet},
           AlertsStayUsable,
           switches' \subseteq consented'
    PROVE  ProviderInv'
<1>1. UNCHANGED <<mounted, strategy, checkStrategy, startCheckDone, markTimer, startChecks,
                  linkHandled, launchLinks>>
  BY DEF lifeVars, linkVars
<1>2. alerts' \subseteq Alert
  BY DEF ProviderInv, ProviderTypeOK, Alert, AlertsStayUsable
<1>3. ProviderTypeOK'
  BY <1>1, <1>2 DEF ProviderInv, ProviderTypeOK, Alert
<1>4. AlertsAreUsable'
  BY DEF ProviderInv, AlertsAreUsable, AlertsStayUsable
<1>. QED BY <1>1, <1>3, <1>4 DEF ProviderInv, ShownIsUsable, CountsBeginWithTheMount

(* What the invariant says of the screen.                                  *)
LEMMA InvOfScreen ==
    ProviderInv =>
        /\ checks \in Nat /\ downloads \subseteq Release \cap Usable
        /\ updateInfo \in Release \cup {NoVersionYet, "upToDate", "expired"}
        /\ updateInfo \in Release => updateInfo \in Usable
        /\ downloadedVersion \in Release \cup {NoVersionYet}
        /\ alerts \subseteq Alert /\ switches \subseteq consented
        /\ \A alert \in alerts : alert.about # "expired" => alert.version \in Usable
BY DEF ProviderInv, ProviderTypeOK, ShownIsUsable, AlertsAreUsable, Alert

(* A check returns.                                                        *)
LEMMA CheckReturnsKeepsInv == ASSUME ProviderInv, CheckReturns PROVE ProviderInv'
<1>i. /\ checks \in Nat /\ downloads \subseteq Release \cap Usable
      /\ updateInfo \in Release \cup {NoVersionYet, "upToDate", "expired"}
      /\ updateInfo \in Release => updateInfo \in Usable
      /\ downloadedVersion \in Release \cup {NoVersionYet}
      /\ switches \subseteq consented
  BY InvOfScreen
<1>1. checks' \in Nat /\ UNCHANGED lifeVars
  BY <1>i DEF CheckReturns
<1>2. CASE UNCHANGED uiVars
  <2>1. UNCHANGED <<updateInfo, downloads, downloadedVersion, alerts, consented, switches>>
    BY <1>2 DEF uiVars
  <2>2. AlertsStayUsable
    BY <2>1 DEF AlertsStayUsable
  <2>. QED BY <1>i, <1>1, <2>1, <2>2, ScreenKeepsInv
<1>3. CASE ~UNCHANGED uiVars
  <2>1. PICK answer \in Release \cup {"upToDate", "expired"} :
          LET info == Shown(answer) IN
            /\ updateInfo' = info
            /\ \/ /\ info \in Release /\ Silent
                  /\ downloads' = downloads \cup {info}
                  /\ consented' = consented \cup {info}
                  /\ UNCHANGED alerts
               \/ /\ info \in Release /\ ~Silent
                  /\ alerts' = alerts \cup {[about |-> "found", version |-> info]}
                  /\ UNCHANGED <<downloads, consented>>
               \/ /\ info = "expired" /\ ~Silent
                  /\ alerts' = alerts \cup {[about |-> "expired", version |-> NoVersionYet]}
                  /\ UNCHANGED <<downloads, consented>>
               \/ /\ info = "upToDate" \/ (info = "expired" /\ Silent)
                  /\ UNCHANGED <<alerts, downloads, consented>>
            /\ UNCHANGED <<downloadedVersion, switches>>
    BY <1>3 DEF CheckReturns
  <2>. DEFINE info == Shown(answer)
  <2>2. /\ info \in Release \cup {"upToDate", "expired"}
        /\ info \in Release => info \in Usable
    BY ReleaseAssumption DEF Shown
  <2>. HIDE DEF info
  <2>3. /\ updateInfo' = info /\ UNCHANGED <<downloadedVersion, switches>>
        /\ downloads' \subseteq downloads \cup ({info} \cap Release)
        /\ consented \subseteq consented'
    BY <2>1 DEF info
  <2>4. AlertsStayUsable
    <3>1. \/ alerts' = alerts
          \/ info \in Release /\ alerts' = alerts \cup {[about |-> "found", version |-> info]}
          \/ alerts' = alerts \cup {[about |-> "expired", version |-> NoVersionYet]}
      BY <2>1 DEF info
    <3>. QED BY <2>2, <3>1 DEF Alert, AlertsStayUsable
  <2>5. downloads' \subseteq Release \cap Usable /\ switches' \subseteq consented'
    BY <1>i, <2>2, <2>3
  <2>6. /\ updateInfo' \in Release \cup {NoVersionYet, "upToDate", "expired"}
        /\ updateInfo' \in Release => updateInfo' \in Usable
        /\ downloadedVersion' \in Release \cup {NoVersionYet}
    BY <1>i, <2>2, <2>3
  <2>. QED BY <1>1, <2>4, <2>5, <2>6, ScreenKeepsInv
<1>. QED BY <1>2, <1>3

(* A download returns.                                                     *)
LEMMA DownloadReturnsKeepsInv ==
    ASSUME ProviderInv, NEW v \in downloads, DownloadReturns(v) PROVE ProviderInv'
<1>i. /\ checks \in Nat /\ downloads \subseteq Release \cap Usable
      /\ updateInfo \in Release \cup {NoVersionYet, "upToDate", "expired"}
      /\ updateInfo \in Release => updateInfo \in Usable
      /\ downloadedVersion \in Release \cup {NoVersionYet}
      /\ switches \subseteq consented
  BY InvOfScreen
<1>1. /\ UNCHANGED lifeVars /\ UNCHANGED <<updateInfo, checks>> /\ downloads' = downloads \ {v}
      /\ v \in Release /\ v \in Usable
  BY <1>i DEF DownloadReturns
<1>2. downloadedVersion' \in {downloadedVersion, v} /\ switches' \subseteq consented'
  BY <1>i DEF DownloadReturns
<1>3. alerts' = alerts \/ alerts' = alerts \cup {[about |-> "ready", version |-> v]}
  BY DEF DownloadReturns
<1>4. AlertsStayUsable
  BY <1>1, <1>3 DEF Alert, AlertsStayUsable
<1>. QED BY <1>i, <1>1, <1>2, <1>4, ScreenKeepsInv

(* An alert is answered.                                                   *)
LEMMA PressKeepsInv ==
    ASSUME ProviderInv, NEW alert \in alerts,
           ConfirmFound(alert) \/ ConfirmReady(alert) \/ Decline(alert)
    PROVE  ProviderInv'
<1>i. /\ checks \in Nat /\ downloads \subseteq Release \cap Usable
      /\ updateInfo \in Release \cup {NoVersionYet, "upToDate", "expired"}
      /\ updateInfo \in Release => updateInfo \in Usable
      /\ downloadedVersion \in Release \cup {NoVersionYet}
      /\ switches \subseteq consented
  BY InvOfScreen
<1>1. /\ UNCHANGED lifeVars /\ UNCHANGED <<updateInfo, checks, downloadedVersion>>
      /\ alerts' = alerts \ {alert}
  BY DEF ConfirmFound, ConfirmReady, Decline, Dismissed
<1>2. downloads' \subseteq Release \cap Usable /\ switches' \subseteq consented'
  BY <1>i DEF ConfirmFound, ConfirmReady, Decline
<1>3. AlertsStayUsable
  BY <1>1 DEF AlertsStayUsable
<1>. QED BY <1>i, <1>1, <1>2, <1>3, ScreenKeepsInv

(* Every step of the provider keeps the invariant.                         *)
LEMMA ProviderStepInv == ProviderInv /\ [ProviderNext]_providerVars => ProviderInv'
<1>. SUFFICES ASSUME ProviderInv, [ProviderNext]_providerVars PROVE ProviderInv'
  OBVIOUS
<1>1. CASE UNCHANGED providerVars
  BY <1>1
     DEF providerVars, lifeVars, linkVars, uiVars, ProviderInv, ProviderTypeOK, ShownIsUsable,
         AlertsAreUsable, CountsBeginWithTheMount
<1>2. CASE ProviderNext
  <2>1. CASE Lives
    BY <2>1, LivesKeepInv
  <2>2. CASE CheckReturns \/ (\E v \in downloads : DownloadReturns(v))
    BY <2>2, CheckReturnsKeepsInv, DownloadReturnsKeepsInv
  <2>3. CASE \E alert \in alerts : ConfirmFound(alert) \/ ConfirmReady(alert) \/ Decline(alert)
    BY <2>3, PressKeepsInv
  <2>. QED BY <1>2, <2>1, <2>2, <2>3 DEF ProviderNext, Lives
<1>. QED BY <1>1, <1>2

(* The invariant holds before the provider mounts.                         *)
LEMMA ProviderInitInv == ProviderInit => ProviderInv
<1>. SUFFICES ASSUME ProviderInit PROVE ProviderInv
  OBVIOUS
<1>1. /\ mounted = FALSE /\ strategy \in Strategies /\ checkStrategy \in Checks
      /\ startCheckDone = FALSE /\ linkHandled = FALSE /\ launchLinks = 0 /\ checks = 0
      /\ updateInfo = NoVersionYet /\ downloads = {} /\ downloadedVersion = NoVersionYet
      /\ alerts = {} /\ markTimer = FALSE /\ startChecks = 0 /\ switches = {}
  BY DEF ProviderInit
<1>2. ProviderTypeOK
  BY <1>1 DEF ProviderTypeOK
<1>3. ShownIsUsable /\ AlertsAreUsable /\ CountsBeginWithTheMount
  BY <1>1, ReleaseAssumption DEF ShownIsUsable, AlertsAreUsable, CountsBeginWithTheMount
<1>. QED BY <1>1, <1>2, <1>3 DEF ProviderInv

(* The invariant has the properties in it.                                 *)
LEMMA InvIsUsableOnce == ProviderInv => ProviderTypeOK /\ ProviderActsOnUsableOnce
BY DEF ProviderInv, AlertsAreUsable, CountsBeginWithTheMount, ProviderActsOnUsableOnce

-----------------------------------------------------------------------------
(***************************************************************************)
(* How errors surface                                                      *)
(***************************************************************************)
Call == [at : Places, error : 0 .. MaxErrors, here : BOOLEAN]

(* What the steps change, with the sets the history counts in.             *)
FlowTypes ==
    /\ subscribed \in BOOLEAN /\ throwError \in BOOLEAN /\ logger \in BOOLEAN
    /\ calling \in [ProviderCall -> Call]
    /\ errors \in 0 .. MaxErrors
    /\ coded \subseteq 1 .. errors /\ emitted \subseteq 1 .. errors
    /\ emitted \subseteq coded
    /\ waiting \subseteq emitted /\ givenUp \subseteq emitted
    /\ missed \subseteq 1 .. errors
    /\ surfaced \in [1 .. MaxErrors -> Nat]
    /\ logged \in [1 .. MaxErrors -> Nat]

(* Nothing is known of an error before it is made.                         *)
FreshErrors == \A e \in (errors + 1) .. MaxErrors : surfaced[e] = 0 /\ logged[e] = 0

(* A call that threw holds an error that was made.                         *)
ThrownWasMade ==
    \A c \in ProviderCall : calling[c].at = "threw" => calling[c].error \in 1 .. errors

(* An error the client did not emit has one holder, who has yet to show it. *)
UnemittedHasOneHolder ==
    \A c \in ProviderCall :
        calling[c].at = "threw" /\ calling[c].error \notin emitted =>
            /\ surfaced[calling[c].error] = 0
            /\ \A d \in ProviderCall :
                  calling[d].at = "threw" /\ calling[d].error = calling[c].error => d = c

(* The provider that made a call has been subscribed ever since, and heard *)
(* of what the client emitted to that call.                                *)
HeardOfEmitted ==
    \A c \in ProviderCall :
        calling[c].here =>
            /\ subscribed
            /\ calling[c].at = "threw" /\ calling[c].error \in emitted
                  => surfaced[calling[c].error] = 1

ShownOnce == \A e \in 1 .. errors : surfaced[e] <= 1 /\ e \notin missed

LoggedOnce ==
    \A e \in 1 .. errors :
        logged[e] = IF e \in emitted \ (waiting \cup givenUp) THEN 1 ELSE 0

(* An error waits for its listeners or is given up, never both.            *)
NotBoth == waiting \cap givenUp = {}

(* Every error is on exactly one way to whom it is shown.                  *)
FlowInv ==
    /\ FlowTypes /\ FreshErrors /\ ThrownWasMade /\ UnemittedHasOneHolder
    /\ HeardOfEmitted /\ ShownOnce /\ LoggedOnce /\ NotBoth

(* The invariant holds before the first error.                             *)
LEMMA FlowInitInv == ErrorFlowInit => FlowInv
<1>. SUFFICES ASSUME ErrorFlowInit PROVE FlowInv
  OBVIOUS
<1>. USE DEF ErrorFlowInit
<1>1. calling \in [ProviderCall -> Call] /\ errors \in 0 .. MaxErrors
  BY ErrorBound DEF Call, NoCall, Places
<1>2. surfaced \in [1 .. MaxErrors -> Nat] /\ logged \in [1 .. MaxErrors -> Nat]
  OBVIOUS
<1>3. FlowTypes
  BY <1>1, <1>2 DEF FlowTypes
<1>4. \A c \in ProviderCall : calling[c].at = "idle" /\ calling[c].here = FALSE
  BY DEF NoCall
<1>5. FreshErrors /\ ShownOnce /\ LoggedOnce /\ NotBoth
  BY ErrorBound DEF FreshErrors, ShownOnce, LoggedOnce, NotBoth
<1>. QED
  BY <1>3, <1>4, <1>5 DEF FlowInv, ThrownWasMade, UnemittedHasOneHolder, HeardOfEmitted

(* Emit on its own: New was nobody's, is now shown to a subscribed         *)
(* provider, and waits for a logger or was given to one.                   *)
LEMMA EmitInv ==
    ASSUME FlowInv, Emit
    PROVE  /\ New \in 1 .. MaxErrors /\ errors' = New
           /\ coded' = coded \cup {New} /\ emitted' = emitted \cup {New}
           /\ subscribed' = subscribed /\ logger' \in BOOLEAN
           /\ surfaced' \in [1 .. MaxErrors -> Nat]
           /\ surfaced'[New] = IF subscribed THEN 1 ELSE 0
           /\ \A e \in 1 .. MaxErrors : e # New => surfaced'[e] = surfaced[e]
           /\ FreshErrors' /\ ShownOnce' /\ LoggedOnce' /\ NotBoth'
           /\ waiting' \subseteq emitted' /\ givenUp' \subseteq emitted'
           /\ missed' \subseteq 1 .. errors'
           /\ logged' \in [1 .. MaxErrors -> Nat]
<1>1. /\ errors \in Nat /\ New = errors + 1 /\ New \in 1 .. MaxErrors
      /\ 1 .. errors \subseteq 1 .. MaxErrors
  BY ErrorBound DEF FlowInv, FlowTypes, Emit, New
<1>2. surfaced[New] = 0 /\ logged[New] = 0
  BY <1>1, ErrorBound DEF FlowInv, FlowTypes, FreshErrors
<1>3. /\ errors' = New /\ subscribed' = subscribed /\ logger' = logger
      /\ coded' = coded \cup {New} /\ emitted' = emitted \cup {New}
      /\ missed' = missed /\ givenUp' = givenUp
  BY DEF Emit
<1>4. /\ surfaced' \in [1 .. MaxErrors -> Nat]
      /\ surfaced'[New] = IF subscribed THEN 1 ELSE 0
      /\ \A e \in 1 .. MaxErrors : e # New => surfaced'[e] = surfaced[e]
  BY <1>1, <1>2 DEF FlowInv, FlowTypes, Emit
<1>5. /\ logger => logged' = [logged EXCEPT ![New] = @ + 1] /\ waiting' = waiting
      /\ ~logger => logged' = logged /\ waiting' = waiting \cup {New}
  BY Zenon DEF Emit
<1>6. New \notin waiting /\ New \notin givenUp /\ New \notin emitted
      /\ emitted \subseteq 1 .. errors /\ logged \in [1 .. MaxErrors -> Nat]
      /\ waiting \subseteq emitted /\ givenUp \subseteq emitted
      /\ missed \subseteq 1 .. errors /\ waiting \cap givenUp = {}
  BY <1>1 DEF FlowInv, FlowTypes, NotBoth
<1>7. /\ logged' \in [1 .. MaxErrors -> Nat]
      /\ \A e \in 1 .. MaxErrors : e # New => logged'[e] = logged[e]
      /\ logged'[New] = IF New \in waiting' THEN 0 ELSE 1
      /\ waiting' \subseteq emitted' /\ waiting' \cap givenUp' = {}
      /\ \A e \in waiting' : e = New \/ e \in waiting
      /\ waiting \subseteq waiting'
  <2>1. CASE logger
    <3>1. logged' = [logged EXCEPT ![New] = @ + 1] /\ waiting' = waiting
      BY <1>5, <2>1
    <3>. QED BY <3>1, <1>1, <1>2, <1>3, <1>6
  <2>2. CASE ~logger
    <3>1. logged' = logged /\ waiting' = waiting \cup {New}
      BY <1>5, <2>2
    <3>. QED BY <3>1, <1>1, <1>2, <1>3, <1>6
  <2>. QED BY <2>1, <2>2
<1>8. FreshErrors'
  <2>1. \A e \in (errors' + 1) .. MaxErrors :
           e # New /\ e \in 1 .. MaxErrors /\ e \in (errors + 1) .. MaxErrors
    BY <1>1, <1>3, ErrorBound
  <2>2. \A e \in (errors + 1) .. MaxErrors : surfaced[e] = 0 /\ logged[e] = 0
    BY DEF FlowInv, FreshErrors
  <2>. QED BY <2>1, <2>2, <1>4, <1>7 DEF FreshErrors
<1>9. ShownOnce'
  BY <1>1, <1>3, <1>4, <1>6 DEF FlowInv, ShownOnce
<1>10. LoggedOnce' /\ NotBoth'
  <2>1. \A e \in 1 .. errors' : e = New \/ e \in 1 .. errors
    BY <1>1, <1>3
  <2>2. \A e \in 1 .. errors :
           /\ e # New /\ logged'[e] = logged[e]
           /\ e \in emitted' <=> e \in emitted
           /\ e \in waiting' <=> e \in waiting
           /\ e \in givenUp' <=> e \in givenUp
    BY <1>1, <1>3, <1>7
  <2>. QED BY <2>1, <2>2, <1>3, <1>6, <1>7 DEF FlowInv, LoggedOnce, NotBoth
<1>11. missed' \subseteq 1 .. errors'
  BY <1>1, <1>3, <1>6
<1>12. logger' \in BOOLEAN
  BY <1>3 DEF FlowInv, FlowTypes
<1>13. givenUp' \subseteq emitted'
  BY <1>3, <1>6
<1>. QED BY <1>1, <1>3, <1>4, <1>7, <1>8, <1>9, <1>10, <1>11, <1>12, <1>13

(* A step that changes nothing but where calls are: none of them comes to  *)
(* hold an error, and none begins without a provider.                      *)
LEMMA CallsMove ==
    ASSUME FlowInv, UNCHANGED <<surfaceVars, throwError, errorVars, reportVars>>,
           calling' \in [ProviderCall -> Call],
           \A c \in ProviderCall :
               \/ calling'[c] = calling[c]
               \/ calling'[c].at # "threw" /\ (calling'[c].here => subscribed)
    PROVE  FlowInv'
<1>. USE DEF FlowInv, surfaceVars, errorVars, reportVars
<1>1. FlowTypes'
  BY DEF FlowTypes
<1>2. FreshErrors' /\ ShownOnce' /\ LoggedOnce' /\ NotBoth'
  BY DEF FreshErrors, ShownOnce, LoggedOnce, NotBoth
<1>3. ThrownWasMade' /\ HeardOfEmitted'
  BY DEF ThrownWasMade, HeardOfEmitted
<1>4. UnemittedHasOneHolder'
  BY DEF UnemittedHasOneHolder
<1>. QED BY <1>1, <1>2, <1>3, <1>4

(* The client emits a new error, and throws it to some calls or to none;   *)
(* other calls may end.                                                    *)
LEMMA EmitThrows ==
    ASSUME FlowInv, Emit, throwError' = throwError,
           calling' \in [ProviderCall -> Call],
           \A c \in ProviderCall :
               \/ calling'[c] = calling[c]
               \/ calling'[c].at # "threw" /\ calling'[c].here = FALSE
               \/ /\ calling'[c].at = "threw" /\ calling'[c].error = New
                  /\ calling'[c].here = calling[c].here
    PROVE  FlowInv'
<1>1. /\ errors \in Nat /\ New = errors + 1
      /\ \A e \in 1 .. errors : e # New /\ e \in 1 .. errors' /\ e \in 1 .. MaxErrors
      /\ New \in 1 .. errors' /\ errors' \in 0 .. MaxErrors
  <2>1. errors \in 0 .. MaxErrors /\ New = errors + 1
    BY DEF FlowInv, FlowTypes, New
  <2>2. errors' = New /\ New \in 1 .. MaxErrors
    BY EmitInv
  <2>. QED BY <2>1, <2>2, ErrorBound
<1>2. coded' \subseteq 1 .. errors' /\ emitted' \subseteq 1 .. errors'
  BY <1>1, EmitInv DEF FlowInv, FlowTypes
<1>3. FlowTypes'
  BY <1>1, <1>2, EmitInv DEF FlowInv, FlowTypes
<1>4. ThrownWasMade'
  BY <1>1, EmitInv DEF FlowInv, ThrownWasMade
<1>5. UnemittedHasOneHolder'
  <2>. SUFFICES ASSUME NEW c \in ProviderCall, calling'[c].at = "threw",
                       calling'[c].error \notin emitted'
                PROVE  /\ surfaced'[calling'[c].error] = 0
                       /\ \A d \in ProviderCall :
                             calling'[d].at = "threw" /\ calling'[d].error = calling'[c].error
                                => d = c
    BY DEF UnemittedHasOneHolder
  <2>1. calling'[c].error # New /\ calling'[c] = calling[c]
    BY EmitInv
  <2>2. calling[c].error \in 1 .. errors /\ calling[c].error \notin emitted
    BY <2>1, EmitInv DEF FlowInv, ThrownWasMade
  <2>3. surfaced'[calling[c].error] = surfaced[calling[c].error]
    BY <1>1, <2>2, EmitInv
  <2>. QED BY <2>1, <2>2, <2>3 DEF FlowInv, UnemittedHasOneHolder
<1>6. HeardOfEmitted'
  <2>. SUFFICES ASSUME NEW c \in ProviderCall, calling'[c].here
                PROVE  /\ subscribed'
                       /\ calling'[c].at = "threw" /\ calling'[c].error \in emitted'
                              => surfaced'[calling'[c].error] = 1
    BY DEF HeardOfEmitted
  <2>1. calling[c].here = calling'[c].here
    OBVIOUS
  <2>2. subscribed /\ subscribed' = subscribed
    BY <2>1, EmitInv DEF FlowInv, HeardOfEmitted
  <2>3. CASE calling'[c].at = "threw" /\ calling'[c].error = New
    BY <2>2, <2>3, EmitInv
  <2>4. CASE calling'[c] = calling[c] /\ calling[c].at = "threw"
    <3>1. calling[c].error \in 1 .. errors
      BY <2>4 DEF FlowInv, ThrownWasMade
    <3>2. calling[c].error # New /\ surfaced'[calling[c].error] = surfaced[calling[c].error]
      BY <3>1, <1>1, EmitInv
    <3>. QED BY <2>1, <2>2, <2>4, <3>2, EmitInv DEF FlowInv, HeardOfEmitted
  <2>. QED BY <2>2, <2>3, <2>4
<1>. QED BY <1>3, <1>4, <1>5, <1>6, EmitInv DEF FlowInv

(* What a step throws to a set of calls, as functions of type Call.        *)
LEMMA ThrownToCalls ==
    ASSUME FlowInv, NEW callers \in SUBSET ProviderCall, New \in 1 .. MaxErrors,
           ThrownTo(callers, New)
    PROVE  /\ calling' \in [ProviderCall -> Call]
           /\ \A c \in ProviderCall :
                 IF c \in callers
                 THEN /\ calling'[c].at = "threw" /\ calling'[c].error = New
                      /\ calling'[c].here = calling[c].here
                 ELSE calling'[c] = calling[c]
<1>1. calling' = [c \in ProviderCall |->
          IF c \in callers THEN [calling[c] EXCEPT !.at = "threw", !.error = New] ELSE calling[c]]
  BY DEF ThrownTo
<1>2. calling \in [ProviderCall -> Call]
  BY DEF FlowInv, FlowTypes
<1>3. \A c \in ProviderCall : [calling[c] EXCEPT !.at = "threw", !.error = New] \in Call
  <2>1. New \in 0 .. MaxErrors
    BY ErrorBound
  <2>. QED BY <1>2, <2>1 DEF Call, Places
<1>. QED BY <1>1, <1>2, <1>3 DEF Call

(* A hook throws an error of its own, which the client has not seen.       *)
LEMMA HookErrorInv ==
    ASSUME FlowInv, NEW c \in ProviderCall, calling[c].at \in Hooks,
           errors < MaxErrors, errors' = New, ThrownTo({c}, New),
           coded' \in {coded, coded \cup {New}},
           UNCHANGED <<emitted, surfaceVars, reportVars, throwError>>
    PROVE  FlowInv'
<1>1. /\ errors \in Nat /\ New = errors + 1 /\ New \in 1 .. MaxErrors
      /\ New \notin emitted /\ surfaced[New] = 0
  <2>1. errors \in 0 .. MaxErrors /\ New = errors + 1 /\ emitted \subseteq 1 .. errors
    BY DEF FlowInv, FlowTypes, New
  <2>2. New \in (errors + 1) .. MaxErrors
    BY <2>1, ErrorBound
  <2>. QED BY <2>1, <2>2, ErrorBound DEF FlowInv, FreshErrors
<1>2. /\ calling' \in [ProviderCall -> Call]
      /\ calling'[c].at = "threw" /\ calling'[c].error = New /\ calling'[c].here = calling[c].here
      /\ \A d \in ProviderCall : d # c => calling'[d] = calling[d]
  BY <1>1, ThrownToCalls
<1>3. /\ emitted' = emitted /\ subscribed' = subscribed /\ missed' = missed
      /\ surfaced' = surfaced /\ logged' = logged /\ waiting' = waiting
      /\ givenUp' = givenUp /\ logger' = logger /\ throwError' = throwError
  BY DEF surfaceVars, reportVars
<1>4. 1 .. errors \subseteq 1 .. errors' /\ errors' \in 0 .. MaxErrors
  BY <1>1
<1>5. coded' \subseteq 1 .. errors'
  BY <1>1, <1>4 DEF FlowInv, FlowTypes
<1>6. FlowTypes'
  BY <1>2, <1>3, <1>4, <1>5 DEF FlowInv, FlowTypes
<1>7. FreshErrors'
  <2>1. \A e \in (errors' + 1) .. MaxErrors : e \in (errors + 1) .. MaxErrors
    BY <1>1, ErrorBound
  <2>. QED BY <2>1, <1>3 DEF FlowInv, FreshErrors
<1>8. \A e \in 1 .. errors' : e = New \/ e \in 1 .. errors
  BY <1>1
<1>9. New \notin missed /\ logged[New] = 0
  BY <1>1, ErrorBound DEF FlowInv, FlowTypes, FreshErrors
<1>10. ShownOnce' /\ LoggedOnce' /\ NotBoth'
  BY <1>1, <1>3, <1>8, <1>9 DEF FlowInv, ShownOnce, LoggedOnce, NotBoth
<1>11. \A d \in ProviderCall : calling[d].at = "threw" => calling[d].error # New
  BY <1>1 DEF FlowInv, ThrownWasMade
<1>12. ThrownWasMade'
  BY <1>1, <1>2, <1>4 DEF FlowInv, ThrownWasMade
<1>13. UnemittedHasOneHolder'
  BY <1>1, <1>2, <1>3, <1>11 DEF FlowInv, UnemittedHasOneHolder
<1>14. HeardOfEmitted'
  BY <1>1, <1>2, <1>3 DEF FlowInv, HeardOfEmitted
<1>. QED BY <1>6, <1>7, <1>10, <1>12, <1>13, <1>14 DEF FlowInv

(* A caller catches, or is thrown, the error of its call.                  *)
LEMMA CatchesInv == ASSUME FlowInv, NEW c \in ProviderCall, Catches(c) PROVE FlowInv'
<1>. DEFINE e == calling[c].error
<1>1. /\ calling[c].at = "threw" /\ e \in 1 .. errors /\ e \in 1 .. MaxErrors
      /\ errors \in Nat
  BY ErrorBound DEF FlowInv, FlowTypes, ThrownWasMade, Catches
<1>2. /\ subscribed' = subscribed /\ throwError' = throwError /\ errors' = errors
      /\ coded' = coded /\ emitted' = emitted /\ logger' = logger /\ waiting' = waiting
      /\ logged' = logged /\ givenUp' = givenUp
  BY DEF Catches, errorVars, reportVars
<1>3. calling' = [calling EXCEPT ![c] = NoCall]
  BY DEF Catches, Moves
<1>4. /\ calling' \in [ProviderCall -> Call] /\ calling'[c].at = "idle" /\ calling'[c].here = FALSE
      /\ \A d \in ProviderCall : d # c => calling'[d] = calling[d]
  BY <1>3, ErrorBound DEF FlowInv, FlowTypes, Call, NoCall, Places
<1>5. /\ surfaced' = IF calling[c].here /\ e \notin emitted
                     THEN [surfaced EXCEPT ![e] = @ + 1] ELSE surfaced
      /\ missed' = IF calling[c].here /\ surfaced'[e] = 0 THEN missed \cup {e} ELSE missed
  BY DEF Catches, StillToShow
<1>6. e \notin emitted => surfaced[e] = 0
  BY <1>1 DEF FlowInv, UnemittedHasOneHolder
<1>7. calling[c].here /\ e \in emitted => surfaced[e] = 1
  BY <1>1 DEF FlowInv, HeardOfEmitted
<1>8. /\ surfaced' \in [1 .. MaxErrors -> Nat]
      /\ \A f \in 1 .. MaxErrors : f # e => surfaced'[f] = surfaced[f]
      /\ surfaced'[e] \in {surfaced[e], 1}
      /\ calling[c].here => surfaced'[e] = 1
      /\ e \in emitted => surfaced'[e] = surfaced[e]
  BY <1>1, <1>5, <1>6, <1>7 DEF FlowInv, FlowTypes
<1>9. missed' = missed
  BY <1>5, <1>8
<1>. HIDE DEF e
<1>10. FlowTypes'
  BY <1>2, <1>4, <1>8, <1>9 DEF FlowInv, FlowTypes
<1>11. FreshErrors'
  <2>1. \A f \in (errors + 1) .. MaxErrors : f \in 1 .. MaxErrors /\ f # e
    BY <1>1, ErrorBound
  <2>. QED BY <2>1, <1>2, <1>8 DEF FlowInv, FreshErrors
<1>12. ShownOnce'
  <2>1. 1 .. errors \subseteq 1 .. MaxErrors
    BY ErrorBound DEF FlowInv, FlowTypes
  <2>. QED BY <2>1, <1>1, <1>2, <1>8, <1>9 DEF FlowInv, ShownOnce
<1>13. LoggedOnce' /\ NotBoth' /\ ThrownWasMade'
  BY <1>2, <1>4 DEF FlowInv, LoggedOnce, NotBoth, ThrownWasMade
<1>14. ASSUME NEW d \in ProviderCall, calling'[d].at = "threw"
       PROVE  /\ d # c /\ calling'[d] = calling[d] /\ calling[d].error \in 1 .. MaxErrors
              /\ surfaced'[calling[d].error] = surfaced[calling[d].error]
                   \/ (calling[d].error = e /\ e \notin emitted)
  <2>1. d # c /\ calling'[d] = calling[d]
    BY <1>4, <1>14
  <2>2. calling[d].error \in 1 .. MaxErrors
    BY <2>1, <1>14, ErrorBound DEF FlowInv, FlowTypes, ThrownWasMade
  <2>. QED BY <2>1, <2>2, <1>8
<1>15. \A d \in ProviderCall :
          d # c /\ calling[d].at = "threw" /\ calling[d].error = e => e \in emitted
  BY <1>1 DEF FlowInv, UnemittedHasOneHolder, e
<1>16. UnemittedHasOneHolder'
  BY <1>2, <1>14, <1>15 DEF FlowInv, UnemittedHasOneHolder
<1>17. HeardOfEmitted'
  BY <1>2, <1>4, <1>14, <1>15 DEF FlowInv, HeardOfEmitted
<1>. QED BY <1>10, <1>11, <1>12, <1>13, <1>16, <1>17 DEF FlowInv

(* Every step of an error keeps the invariant.                             *)
LEMMA FlowStep == FlowInv /\ [ErrorFlowNext]_errorFlowVars => FlowInv'
<1>. SUFFICES ASSUME FlowInv, [ErrorFlowNext]_errorFlowVars PROVE FlowInv'
  OBVIOUS
<1>0. calling \in [ProviderCall -> Call] /\ NoCall \in Call
  BY ErrorBound DEF FlowInv, FlowTypes, Call, NoCall, Places
<1>1. ASSUME NEW c \in ProviderCall, NEW place \in {"beforeCheck", "downloading"},
             CallProvider(c, place)
      PROVE  FlowInv'
  <2>1. [at |-> place, error |-> 0, here |-> TRUE] \in Call
    BY ErrorBound DEF Call, Places
  <2>. QED BY <1>0, <1>1, <2>1, CallsMove DEF CallProvider
<1>2. ASSUME NEW c \in ProviderCall, HookReturns(c) PROVE FlowInv'
  <2>1. \A place \in {"checking", "idle"} : Moves(c, place) =>
           /\ calling' \in [ProviderCall -> Call]
           /\ \A d \in ProviderCall :
                 \/ calling'[d] = calling[d]
                 \/ calling'[d].at # "threw" /\ (calling'[d].here => calling[d].here)
    <3>1. [calling[c] EXCEPT !.at = "checking"] \in Call
      BY <1>0 DEF Call, Places
    <3>. QED BY <1>0, <3>1 DEF Moves, Call, NoCall
  <2>2. \A d \in ProviderCall : calling[d].here => subscribed
    BY DEF FlowInv, HeardOfEmitted
  <2>. QED BY <1>2, <2>1, <2>2, CallsMove DEF HookReturns
<1>3. ASSUME NEW c \in ProviderCall, HookThrows(c) PROVE FlowInv'
  <2>1. CASE Emit
    <3>1. ThrownTo({c}, New) /\ throwError' = throwError
      BY <1>3 DEF HookThrows
    <3>. QED BY <2>1, <3>1, EmitInv, ThrownToCalls, EmitThrows
  <2>2. CASE ~Emit
    BY <1>3, <2>2, HookErrorInv DEF HookThrows
  <2>. QED BY <2>1, <2>2
<1>4. ASSUME NEW c \in ProviderCall, Catches(c) PROVE FlowInv'
  BY <1>4, CatchesInv
<1>5. ASSUME NEW work \in {"checking", "downloading"}, WorkSucceeds(work) PROVE FlowInv'
  <2>1. \A c \in ProviderCall : [calling[c] EXCEPT !.at = "afterDownload"] \in Call
    BY <1>0 DEF Call, Places
  <2>2. calling' \in [ProviderCall -> Call]
    BY <1>0, <1>5, <2>1 DEF WorkSucceeds
  <2>3. \A c \in ProviderCall :
           \/ calling'[c] = calling[c]
           \/ calling'[c].at # "threw" /\ (calling'[c].here => calling[c].here)
    <3>. TAKE c \in ProviderCall
    <3>1. calling'[c] = IF c \notin Sharing(work) THEN calling[c]
                        ELSE IF work = "downloading" THEN [calling[c] EXCEPT !.at = "afterDownload"]
                        ELSE NoCall
      BY <1>5 DEF WorkSucceeds
    <3>2. [calling[c] EXCEPT !.at = "afterDownload"].here = calling[c].here
          /\ [calling[c] EXCEPT !.at = "afterDownload"].at = "afterDownload"
      BY <1>0 DEF Call
    <3>. QED BY <3>1, <3>2 DEF NoCall
  <2>4. \A c \in ProviderCall : calling[c].here => subscribed
    BY DEF FlowInv, HeardOfEmitted
  <2>. QED BY <1>5, <2>2, <2>3, <2>4, CallsMove DEF WorkSucceeds
<1>6. ASSUME NEW work \in {"checking", "downloading"}, WorkFails(work) PROVE FlowInv'
  <2>1. Emit /\ throwError' = throwError
    BY <1>6 DEF WorkFails
  <2>2. CASE ThrownTo(Sharing(work), New)
    <3>1. Sharing(work) \in SUBSET ProviderCall
      BY DEF Sharing
    <3>. QED BY <2>1, <2>2, <3>1, EmitInv, ThrownToCalls, EmitThrows
  <2>3. CASE ~ThrownTo(Sharing(work), New)
    <3>1. calling' = [c \in ProviderCall |-> IF c \in Sharing(work) THEN NoCall ELSE calling[c]]
      BY <1>6, <2>3 DEF WorkFails
    <3>2. calling' \in [ProviderCall -> Call]
      BY <1>0, <3>1
    <3>. QED BY <2>1, <3>1, <3>2, EmitThrows DEF NoCall
  <2>. QED BY <2>2, <2>3
<1>7. CASE SilentCallFails
  BY <1>0, <1>7, EmitThrows DEF SilentCallFails
<1>8. CASE ProviderComesAndGoes
  <2>1. /\ surfaced' = surfaced /\ missed' = missed /\ throwError' = throwError
        /\ errors' = errors /\ coded' = coded /\ emitted' = emitted
        /\ logger' = logger /\ waiting' = waiting /\ logged' = logged /\ givenUp' = givenUp
        /\ subscribed' \in BOOLEAN
    BY <1>8 DEF ProviderComesAndGoes, errorVars, reportVars
  <2>2. \A c \in ProviderCall :
           /\ [calling[c] EXCEPT !.here = FALSE] \in Call
           /\ calling'[c].at = calling[c].at /\ calling'[c].error = calling[c].error
           /\ calling'[c].here = FALSE
    BY <1>0, <1>8 DEF ProviderComesAndGoes, Call
  <2>3. calling' \in [ProviderCall -> Call]
    BY <1>8, <2>2 DEF ProviderComesAndGoes
  <2>4. FlowTypes'
    BY <2>1, <2>3 DEF FlowInv, FlowTypes
  <2>5. FreshErrors' /\ ShownOnce' /\ LoggedOnce' /\ NotBoth'
    BY <2>1 DEF FlowInv, FreshErrors, ShownOnce, LoggedOnce, NotBoth
  <2>6. ThrownWasMade'
    BY <2>1, <2>2 DEF FlowInv, ThrownWasMade
  <2>7. UnemittedHasOneHolder'
    <3>. SUFFICES ASSUME NEW c \in ProviderCall, calling'[c].at = "threw",
                         calling'[c].error \notin emitted'
                  PROVE  /\ surfaced'[calling'[c].error] = 0
                         /\ \A d \in ProviderCall :
                               calling'[d].at = "threw" /\ calling'[d].error = calling'[c].error
                                  => d = c
      BY DEF UnemittedHasOneHolder
    <3>1. calling[c].at = "threw" /\ calling'[c].error = calling[c].error
          /\ calling[c].error \notin emitted
      BY <2>1, <2>2
    <3>2. /\ surfaced[calling[c].error] = 0
          /\ \A d \in ProviderCall :
                calling[d].at = "threw" /\ calling[d].error = calling[c].error => d = c
      BY <3>1 DEF FlowInv, UnemittedHasOneHolder
    <3>. QED BY <2>1, <2>2, <3>1, <3>2
  <2>8. HeardOfEmitted'
    BY <2>2 DEF HeardOfEmitted
  <2>. QED BY <2>4, <2>5, <2>6, <2>7, <2>8 DEF FlowInv
<1>9. CASE SetThrowError
  BY <1>9 DEF SetThrowError, surfaceVars, errorVars, reportVars, FlowInv, FlowTypes, FreshErrors,
     ThrownWasMade, UnemittedHasOneHolder, HeardOfEmitted, ShownOnce, LoggedOnce, NotBoth
<1>10. CASE SetLogger
  BY <1>10 DEF SetLogger, surfaceVars, errorVars, FlowInv, FlowTypes, FreshErrors,
     ThrownWasMade, UnemittedHasOneHolder, HeardOfEmitted, ShownOnce, LoggedOnce, NotBoth
<1>11. ASSUME NEW e \in waiting, ReportResumes(e) PROVE FlowInv'
  <2>1. /\ waiting' = waiting \ {e} /\ surfaced' = surfaced /\ missed' = missed
        /\ throwError' = throwError /\ calling' = calling /\ subscribed' = subscribed
        /\ errors' = errors /\ coded' = coded /\ emitted' = emitted /\ logger' = logger
    BY <1>11 DEF ReportResumes, surfaceVars, errorVars
  <2>2. /\ logger => logged' = [logged EXCEPT ![e] = @ + 1] /\ givenUp' = givenUp
        /\ ~logger => givenUp' = givenUp \cup {e} /\ logged' = logged
    BY <1>11, Zenon DEF ReportResumes
  <2>3. e \in 1 .. errors /\ e \in 1 .. MaxErrors /\ e \in emitted /\ e \notin givenUp
        /\ errors \in Nat
    BY <1>11, ErrorBound DEF FlowInv, FlowTypes, NotBoth
  <2>4. logged[e] = 0
    BY <1>11, <2>3 DEF FlowInv, LoggedOnce
  <2>5. ThrownWasMade' /\ UnemittedHasOneHolder' /\ HeardOfEmitted' /\ ShownOnce'
    BY <2>1 DEF FlowInv, ThrownWasMade, UnemittedHasOneHolder, HeardOfEmitted, ShownOnce
  <2>6. CASE logger
    <3>1. logged' = [logged EXCEPT ![e] = @ + 1] /\ givenUp' = givenUp
      BY <2>2, <2>6
    <3>2. FlowTypes'
      BY <2>1, <2>3, <3>1 DEF FlowInv, FlowTypes
    <3>3. FreshErrors'
      BY <2>1, <2>3, <3>1 DEF FlowInv, FlowTypes, FreshErrors
    <3>4. LoggedOnce' /\ NotBoth'
      BY <2>1, <2>3, <2>4, <3>1, ErrorBound DEF FlowInv, FlowTypes, LoggedOnce, NotBoth
    <3>. QED BY <2>5, <3>2, <3>3, <3>4 DEF FlowInv
  <2>7. CASE ~logger
    <3>1. logged' = logged /\ givenUp' = givenUp \cup {e}
      BY <2>2, <2>7
    <3>2. FlowTypes'
      BY <2>1, <2>3, <3>1 DEF FlowInv, FlowTypes
    <3>3. FreshErrors'
      BY <2>1, <3>1 DEF FlowInv, FreshErrors
    <3>4. LoggedOnce' /\ NotBoth'
      BY <2>1, <2>3, <2>4, <3>1 DEF FlowInv, FlowTypes, LoggedOnce, NotBoth
    <3>. QED BY <2>5, <3>2, <3>3, <3>4 DEF FlowInv
  <2>. QED BY <2>6, <2>7
<1>12. CASE UNCHANGED errorFlowVars
  BY <1>0, <1>12, CallsMove DEF errorFlowVars
<1>. QED
  BY <1>1, <1>2, <1>3, <1>4, <1>5, <1>6, <1>7, <1>8, <1>9, <1>10, <1>11, <1>12
  DEF ErrorFlowNext

(* ErrorsSurfaceOnce: no error is shown twice or caught unseen, and the    *)
(* logger is given each emitted one once, for any number of calls that     *)
(* overlap and any number of errors.                                       *)
THEOREM EveryErrorSurfacesOnce == ErrorFlowSpec => []ErrorsSurfaceOnce
<1>1. FlowInv => ErrorsSurfaceOnce
  BY DEF FlowInv, ShownOnce, LoggedOnce, ErrorsSurfaceOnce
<1>. QED BY <1>1, FlowInitInv, FlowStep, PTL DEF ErrorFlowSpec

-----------------------------------------------------------------------------
(***************************************************************************)
(* The native configuration                                                *)
(***************************************************************************)

(* The options ask for native code to be told.                             *)
Wanted == options.source = "javascript" /\ options.config # NoConfig

(* The live call is the last on the serial thread, behind what reloads     *)
(* left there, until it is answered.                                       *)
CallShape ==
    /\ reply # "none" => writing # NoConfig /\ calls = <<>>
    /\ writing # NoConfig /\ reply = "none" =>
         calls # <<>> /\ ~calls[Len(calls)].stale
    /\ \A i \in DOMAIN calls :
         ~calls[i].stale => /\ i = Len(calls)
                            /\ reply = "none"
                            /\ writing = calls[i].config
    /\ synced # NoConfig => \A i \in DOMAIN calls : ~calls[i].stale
    /\ writing # NoConfig /\ reply \in {"none", "resolved"} => ~failed
    /\ reply = "rejected" => failed

(* What waits or is in flight is what the options describe.                *)
PendingIsWanted ==
    Wanted => /\ pending # NoConfig => pending = options.config
              /\ pending = NoConfig /\ writing # NoConfig => writing = options.config

(* What the client remembers of its writes, and what that says of native   *)
(* storage as long as none failed and the host kept out.                   *)
SyncedIsStored ==
    /\ synced # NoConfig => options.source = "javascript"
    /\ reply \in {"resolved", "settled"} /\ ~failed /\ ~crossed => stored = writing
    /\ reply = "settled" /\ ~failed /\ synced # NoConfig => synced = writing
    /\ reply = "settled" /\ ~failed /\ Wanted /\ pending = NoConfig => synced = writing
    /\ writing = NoConfig /\ Wanted /\ pending = NoConfig /\ ~failed =>
         synced = options.config
    /\ writing = NoConfig /\ synced # NoConfig /\ ~failed /\ ~crossed =>
         stored = synced

(* Native code is owed what the options describe, or has it.               *)
IInv == TypeOK /\ CallShape /\ PendingIsWanted /\ SyncedIsStored

(* A new client wants nothing, has sent nothing and remembers nothing.      *)
LEMMA InitIInv == Init => IInv
<1> USE ConfigAssumption DEF ConfigAssumption
<1> SUFFICES ASSUME Init PROVE IInv
  OBVIOUS
<1>1. calls = <<>> /\ calls \in Seq(WriteCall)
  BY DEF Init
<1>2. TypeOK
  BY <1>1 DEF Init, TypeOK, Options, MaybeConfig
<1>3. CallShape
  BY <1>1 DEF Init, CallShape
<1>4. PendingIsWanted /\ SyncedIsStored
  BY DEF Init, PendingIsWanted, SyncedIsStored, Wanted
<1> QED
  BY <1>2, <1>3, <1>4 DEF IInv

(* The calls that wait are calls.                                          *)
LEMMA CallTypes ==
  ASSUME TypeOK, NEW i \in DOMAIN calls
  PROVE  /\ calls[i] \in WriteCall
         /\ calls[i].config \in Config
         /\ calls[i].config # NoConfig
<1>1. calls[i] \in WriteCall
  BY DEF TypeOK
<1> QED
  BY <1>1, ConfigAssumption DEF WriteCall, ConfigAssumption

(* flushNativeConfig keeps it, called with what is wanted and with nothing *)
(* or the configuration in flight.                                         *)
LEMMA FlushIInv ==
  ASSUME IInv,
         options' \in Options,
         NEW wanted \in MaybeConfig, NEW written \in MaybeConfig,
         Flush(wanted, written),
         UNCHANGED stored,
         changes' \in Nat,
         \/ /\ written = writing /\ reply' = reply
            /\ wanted = options'.config /\ (options'.source = "javascript" => wanted # NoConfig)
         \/ /\ written = NoConfig /\ reply = "settled" /\ reply' = "none"
            /\ wanted = pending /\ options' = options
  PROVE  IInv'
<1> USE ConfigAssumption DEF ConfigAssumption
<1> DEFINE call == [config |-> wanted, stale |-> FALSE]
<1>0. TypeOK /\ CallShape /\ PendingIsWanted /\ SyncedIsStored
  BY DEF IInv
<1>1. CASE UNCHANGED <<calls, last>>
  <2>1. TypeOK'
    BY <1>0, <1>1 DEF TypeOK, Flush, NothingToWrite, MaybeConfig, last
  <2>2. CallShape'
    BY <1>0, <1>1, CallTypes DEF CallShape, TypeOK, Flush, NothingToWrite, MaybeConfig, last
  <2>3. PendingIsWanted'
    BY <1>0, <1>1 DEF PendingIsWanted, CallShape, SyncedIsStored, TypeOK, Flush,
       NothingToWrite, MaybeConfig, Wanted, last
  <2>4. SyncedIsStored'
    BY <1>0, <1>1 DEF PendingIsWanted, CallShape, SyncedIsStored, TypeOK, Flush,
       NothingToWrite, MaybeConfig, Wanted, last
  <2> QED
    BY <2>1, <2>2, <2>3, <2>4 DEF IInv
<1>2. CASE /\ options'.source = "javascript" /\ written = NoConfig
           /\ ~NothingToWrite(wanted)
           /\ pending' = NoConfig /\ writing' = wanted /\ synced' = synced
           /\ calls' = Append(calls, call)
           /\ lastSent' = wanted /\ failed' = FALSE /\ crossed' = FALSE
  <2>0. wanted \in Config /\ call \in WriteCall
    BY <1>2 DEF NothingToWrite, MaybeConfig, WriteCall
  <2>1. TypeOK'
    <3>1. calls' \in Seq(WriteCall)
      BY <1>0, <1>2, <2>0 DEF TypeOK
    <3> QED
      BY <1>0, <1>2, <2>0, <3>1 DEF TypeOK, MaybeConfig
  <2>2. reply' = "none"
    BY <1>0, <1>2 DEF CallShape, TypeOK
  <2>3. \A i \in DOMAIN calls : calls[i].stale
    <3> SUFFICES ASSUME NEW i \in DOMAIN calls, ~calls[i].stale PROVE FALSE
      BY <1>0, CallTypes DEF WriteCall
    <3>1. reply = "none" /\ writing = calls[i].config
      BY <1>0 DEF CallShape
    <3> QED
      BY <1>0, <1>2, <3>1, CallTypes
  <2>4. /\ DOMAIN calls' = 1..Len(calls) + 1 /\ Len(calls') = Len(calls) + 1
        /\ calls'[Len(calls')] = call /\ calls' # <<>>
        /\ \A i \in DOMAIN calls' : i # Len(calls') => i \in DOMAIN calls /\ calls'[i] = calls[i]
    BY <1>0, <1>2, <2>0 DEF TypeOK
  <2>5. CallShape'
    <3>1. synced # NoConfig => \A i \in DOMAIN calls' : ~calls'[i].stale
      BY <1>0, <2>3, <2>4, <1>2 DEF CallShape
    <3> QED
      BY <1>2, <2>0, <2>2, <2>3, <2>4, <3>1 DEF CallShape
  <2>6. PendingIsWanted'
    BY <1>0, <1>2, <2>0 DEF PendingIsWanted, Wanted
  <2>7. SyncedIsStored'
    BY <1>0, <1>2, <2>0, <2>2 DEF SyncedIsStored, Wanted
  <2> QED
    BY <2>1, <2>5, <2>6, <2>7 DEF IInv
<1> QED
  BY <1>1, <1>2 DEF Flush, last

(* Taking the first call off the serial thread, which carries it out.      *)
LEMMA NativeShape ==
  ASSUME IInv, calls # <<>>, calls' = Tail(calls),
         NEW outcome \in {"resolved", "rejected"},
         Settle(Head(calls), outcome),
         UNCHANGED <<options, client>>
  PROVE  /\ Head(calls) \in WriteCall
         /\ calls' \in Seq(WriteCall)
         /\ reply = "none"
         /\ \/ /\ ~Head(calls).stale
               /\ calls' = <<>> /\ reply' = outcome
               /\ writing = Head(calls).config /\ writing # NoConfig
            \/ /\ Head(calls).stale
               /\ synced = NoConfig /\ reply' = "none"
               /\ writing # NoConfig => calls' # <<>> /\ ~calls'[Len(calls')].stale
               /\ \A i \in DOMAIN calls' :
                    ~calls'[i].stale => i = Len(calls') /\ writing = calls'[i].config
<1>0. TypeOK /\ CallShape
  BY DEF IInv
<1>1. /\ 1 \in DOMAIN calls /\ Head(calls) = calls[1]
      /\ calls' \in Seq(WriteCall) /\ Len(calls') = Len(calls) - 1
      /\ Len(calls) \in Nat
      /\ \A i \in DOMAIN calls' : i + 1 \in DOMAIN calls /\ calls'[i] = calls[i + 1]
  BY <1>0 DEF TypeOK
<1>2. Head(calls) \in WriteCall /\ Head(calls).config # NoConfig /\ Head(calls).stale \in BOOLEAN
  BY <1>0, <1>1, CallTypes DEF WriteCall
<1>3. reply = "none"
  BY <1>0 DEF CallShape
<1>4. CASE ~Head(calls).stale
  <2>1. Len(calls) = 1 /\ writing = Head(calls).config
    BY <1>0, <1>1, <1>4 DEF CallShape
  <2>2. calls' = <<>>
    BY <1>0, <1>1, <2>1 DEF TypeOK
  <2> QED
    BY <1>1, <1>2, <1>3, <1>4, <2>1, <2>2 DEF Settle
<1>5. CASE Head(calls).stale
  <2>1. synced = NoConfig
    BY <1>0, <1>1, <1>5 DEF CallShape
  <2>2. ASSUME writing # NoConfig PROVE calls' # <<>> /\ ~calls'[Len(calls')].stale
    <3>1. ~calls[Len(calls)].stale /\ Len(calls) # 1
      BY <1>0, <1>1, <1>3, <1>5, <2>2 DEF CallShape
    <3>2. Len(calls') \in DOMAIN calls' /\ Len(calls') + 1 = Len(calls)
      BY <1>0, <1>1, <3>1 DEF TypeOK
    <3>3. calls'[Len(calls')] = calls[Len(calls') + 1]
      BY <1>1, <3>2
    <3>4. calls' # <<>>
      BY <3>2
    <3> QED
      BY <3>1, <3>2, <3>3, <3>4
  <2>3. ASSUME NEW i \in DOMAIN calls', ~calls'[i].stale
        PROVE  i = Len(calls') /\ writing = calls'[i].config
    <3>1. i + 1 = Len(calls) /\ writing = calls[i + 1].config
      BY <1>0, <1>1, <2>3 DEF CallShape
    <3> QED
      BY <1>1, <2>3, <3>1
  <2> QED
    BY <1>1, <1>2, <1>3, <1>5, <2>1, <2>2, <2>3 DEF Settle
<1> QED
  BY <1>2, <1>4, <1>5

(* Every change of the options, every call's outcome and every             *)
(* continuation of its promise keeps it.                                   *)
LEMMA NextIInv == IInv /\ [Next]_vars => IInv'
<1> USE ConfigAssumption DEF ConfigAssumption
<1> SUFFICES ASSUME IInv, [Next]_vars PROVE IInv'
  OBVIOUS
<1>0. TypeOK /\ CallShape /\ PendingIsWanted /\ SyncedIsStored
  BY DEF IInv
<1>1. CASE SetOptions
  <2>1. options' \in Options /\ changes' \in Nat /\ reply' = reply /\ stored' = stored
    BY <1>0, <1>1 DEF SetOptions, TypeOK
  <2>2. CASE options'.source = "javascript" /\ options'.config = NoConfig
    <3>1. UNCHANGED <<client, calls, last>>
      BY <1>1, <2>2 DEF SetOptions, SyncNativeConfig
    <3>2. TypeOK'
      BY <1>0, <2>1, <3>1 DEF TypeOK, client, last
    <3>3. CallShape'
      BY <1>0, <2>1, <3>1 DEF CallShape, client, last
    <3>4. PendingIsWanted'
      BY <2>2 DEF PendingIsWanted, Wanted
    <3>5. SyncedIsStored'
      BY <1>0, <2>1, <2>2, <3>1 DEF SyncedIsStored, Wanted, client, last
    <3> QED
      BY <3>2, <3>3, <3>4, <3>5 DEF IInv
  <2>3. CASE ~(options'.source = "javascript" /\ options'.config = NoConfig)
    <3>1. Flush(options'.config, writing)
      BY <1>1, <2>3 DEF SetOptions, SyncNativeConfig
    <3>2. options'.config \in MaybeConfig /\ writing \in MaybeConfig
      BY <1>0, <2>1 DEF Options, TypeOK
    <3> QED
      BY <2>1, <2>3, <3>1, <3>2, FlushIInv
  <2> QED
    BY <2>2, <2>3
<1>2. CASE Reload
  <2>0. /\ pending' = NoConfig /\ synced' = NoConfig /\ writing' = NoConfig /\ reply' = "none"
        /\ options' = [config |-> NoConfig, source |-> "native"]
        /\ UNCHANGED <<stored, last>> /\ changes' = changes + 1
    BY <1>2 DEF Reload
  <2>1. /\ DOMAIN calls' = DOMAIN calls
        /\ \A i \in DOMAIN calls : calls'[i] \in WriteCall /\ calls'[i].stale
        /\ calls' \in Seq(WriteCall)
    <3>1. \A i \in DOMAIN calls : calls[i] \in WriteCall
      BY <1>0, CallTypes
    <3>2. \A i \in DOMAIN calls : [calls[i] EXCEPT !.stale = TRUE] \in WriteCall
                                 /\ [calls[i] EXCEPT !.stale = TRUE].stale
      BY <3>1 DEF WriteCall
    <3>3. calls' = [i \in DOMAIN calls |-> [calls[i] EXCEPT !.stale = TRUE]]
      BY <1>2 DEF Reload
    <3>4. DOMAIN calls = 1..Len(calls) /\ Len(calls) \in Nat
      BY <1>0 DEF TypeOK
    <3>5. calls' = [i \in 1..Len(calls) |-> [calls[i] EXCEPT !.stale = TRUE]]
      BY <3>3, <3>4
    <3>6. \A i \in 1..Len(calls) : calls'[i] \in WriteCall /\ calls'[i].stale
      BY <3>2, <3>4, <3>5
    <3>7. calls' \in Seq(WriteCall) /\ DOMAIN calls' = 1..Len(calls)
      BY <3>4, <3>5, <3>6
    <3> QED
      BY <3>4, <3>6, <3>7
  <2>2. TypeOK'
    BY <1>0, <2>0, <2>1 DEF TypeOK, Options, MaybeConfig, last
  <2>3. CallShape'
    BY <2>0, <2>1 DEF CallShape
  <2>4. PendingIsWanted' /\ SyncedIsStored'
    BY <2>0 DEF PendingIsWanted, SyncedIsStored, Wanted
  <2> QED
    BY <2>2, <2>3, <2>4 DEF IInv
<1>3. CASE HostConfigures
  <2>0. synced = NoConfig
    BY <1>0, <1>3 DEF HostConfigures, SyncedIsStored
  <2>1. TypeOK'
    BY <1>0, <1>3 DEF HostConfigures, TypeOK, MaybeConfig, client
  <2>2. CallShape' /\ PendingIsWanted'
    BY <1>0, <1>3 DEF HostConfigures, CallShape, PendingIsWanted, Wanted, client
  <2>3. SyncedIsStored'
    BY <1>0, <1>3, <2>0 DEF HostConfigures, CallShape, SyncedIsStored, Wanted, client
  <2> QED
    BY <2>1, <2>2, <2>3 DEF IInv
<1>4. CASE WriteSucceeds
  <2>0. calls # <<>> /\ calls' = Tail(calls) /\ Settle(Head(calls), "resolved")
        /\ UNCHANGED <<options, client, changes, last>> /\ stored' = Head(calls).config
    BY <1>4 DEF WriteSucceeds
  <2> DEFINE h == Head(calls)
  <2>1. /\ h \in WriteCall /\ calls' \in Seq(WriteCall) /\ reply = "none"
        /\ \/ /\ ~h.stale /\ calls' = <<>> /\ reply' = "resolved"
              /\ writing = h.config /\ writing # NoConfig
           \/ /\ h.stale /\ synced = NoConfig /\ reply' = "none"
              /\ writing # NoConfig => calls' # <<>> /\ ~calls'[Len(calls')].stale
              /\ \A i \in DOMAIN calls' :
                   ~calls'[i].stale => i = Len(calls') /\ writing = calls'[i].config
    BY <2>0, NativeShape
  <2>2. TypeOK'
    BY <1>0, <2>0, <2>1 DEF TypeOK, WriteCall, MaybeConfig, client, last
  <2>3. CallShape'
    <3>1. CASE ~h.stale
      <4>1. calls' = <<>> /\ DOMAIN calls' = {}
        BY <2>1, <3>1
      <4> QED
        BY <1>0, <2>0, <2>1, <3>1, <4>1 DEF CallShape, client, last
    <3>2. CASE h.stale
      <4>1. synced' = NoConfig /\ reply' = "none" /\ writing' = writing
        BY <2>0, <2>1, <3>2 DEF client
      <4> QED
        BY <1>0, <2>0, <2>1, <3>2, <4>1 DEF CallShape, client, last
    <3> QED
      BY <3>1, <3>2
  <2>4. PendingIsWanted'
    BY <1>0, <2>0 DEF PendingIsWanted, Wanted, client
  <2>5. SyncedIsStored'
    BY <1>0, <2>0, <2>1 DEF SyncedIsStored, Wanted, client, last
  <2> QED
    BY <2>2, <2>3, <2>4, <2>5 DEF IInv
<1>5. CASE WriteFails
  <2>0. calls # <<>> /\ calls' = Tail(calls) /\ Settle(Head(calls), "rejected")
        /\ UNCHANGED <<options, client, changes, lastSent, crossed>>
        /\ stored' \in {stored, Head(calls).config}
        /\ failed' = (failed \/ ~Head(calls).stale)
    BY <1>5 DEF WriteFails
  <2> DEFINE h == Head(calls)
  <2>1. /\ h \in WriteCall /\ calls' \in Seq(WriteCall) /\ reply = "none"
        /\ \/ /\ ~h.stale /\ calls' = <<>> /\ reply' = "rejected"
              /\ writing = h.config /\ writing # NoConfig
           \/ /\ h.stale /\ synced = NoConfig /\ reply' = "none"
              /\ writing # NoConfig => calls' # <<>> /\ ~calls'[Len(calls')].stale
              /\ \A i \in DOMAIN calls' :
                   ~calls'[i].stale => i = Len(calls') /\ writing = calls'[i].config
    BY <2>0, NativeShape
  <2>2. TypeOK'
    BY <1>0, <2>0, <2>1 DEF TypeOK, WriteCall, MaybeConfig, client
  <2>3. CallShape'
    <3>1. CASE ~h.stale
      <4>1. calls' = <<>> /\ DOMAIN calls' = {}
        BY <2>1, <3>1
      <4> QED
        BY <1>0, <2>0, <2>1, <3>1, <4>1 DEF CallShape, client
    <3>2. CASE h.stale
      <4>1. synced' = NoConfig /\ reply' = "none" /\ writing' = writing
        BY <2>0, <2>1, <3>2 DEF client
      <4> QED
        BY <1>0, <2>0, <2>1, <3>2, <4>1 DEF CallShape, client, last
    <3> QED
      BY <2>1, <3>1, <3>2 DEF WriteCall
  <2>4. PendingIsWanted'
    BY <1>0, <2>0 DEF PendingIsWanted, Wanted, client
  <2>5. SyncedIsStored'
    BY <1>0, <2>0, <2>1 DEF SyncedIsStored, Wanted, client, TypeOK
  <2> QED
    BY <2>2, <2>3, <2>4, <2>5 DEF IInv
<1>6. CASE OnWritten
  <2>1. TypeOK'
    BY <1>0, <1>6 DEF OnWritten, TypeOK, last
  <2>2. CallShape' /\ PendingIsWanted'
    BY <1>0, <1>6 DEF OnWritten, CallShape, PendingIsWanted, Wanted, last
  <2>3. SyncedIsStored'
    BY <1>0, <1>6 DEF OnWritten, CallShape, PendingIsWanted, SyncedIsStored, Wanted, last,
       TypeOK, Options
  <2> QED
    BY <2>1, <2>2, <2>3 DEF IInv
<1>7. CASE OnRejected
  <2>1. TypeOK'
    BY <1>0, <1>7 DEF OnRejected, TypeOK, client, last
  <2>2. CallShape' /\ PendingIsWanted'
    BY <1>0, <1>7 DEF OnRejected, CallShape, PendingIsWanted, Wanted, client, last
  <2>3. SyncedIsStored'
    BY <1>0, <1>7 DEF OnRejected, CallShape, SyncedIsStored, Wanted, client, last
  <2> QED
    BY <2>1, <2>2, <2>3 DEF IInv
<1>8. CASE OnSettled
  <2>1. /\ Flush(pending, NoConfig) /\ reply = "settled" /\ reply' = "none"
        /\ UNCHANGED <<options, stored, changes>>
    BY <1>8 DEF OnSettled
  <2>2. /\ pending \in MaybeConfig /\ NoConfig \in MaybeConfig
        /\ options' \in Options /\ changes' \in Nat
    BY <1>0, <2>1 DEF TypeOK, MaybeConfig
  <2> QED
    BY <2>1, <2>2, FlushIInv
<1>9. CASE UNCHANGED vars
  BY <1>0, <1>9 DEF IInv, TypeOK, CallShape, PendingIsWanted, SyncedIsStored, Wanted,
     vars, client, last
<1> QED
  BY <1>1, <1>2, <1>3, <1>4, <1>5, <1>6, <1>7, <1>8, <1>9 DEF Next, Native, Continue

(* Type correctness, and what the module is about: outside a failed call   *)
(* and a host that wrote between a call and its reply, native code reads   *)
(* the configuration the options describe as soon as things are quiet.     *)
THEOREM StorageFollowsOptions == Spec => [](TypeOK /\ QuietMeansStored)
<1>1. IInv => TypeOK /\ QuietMeansStored
  BY DEF IInv, TypeOK, SyncedIsStored, QuietMeansStored, Quiet, Wanted
<1> QED
  BY <1>1, InitIInv, NextIInv, PTL DEF Spec
-----------------------------------------------------------------------------
(***************************************************************************)
(* Queries                                                                 *)
(***************************************************************************)
(* DedupeEndpoints: each entry once, none of them empty.                   *)
LEMMA DedupedIs ==
    ASSUME NEW s, AList(s)
    PROVE  /\ AList(DedupeEndpoints(s)) /\ NoneTwice(DedupeEndpoints(s))
           /\ Contents(DedupeEndpoints(s)) \subseteq Contents(s) \ {""}
<1>. DEFINE First(i) == s[i] # "" /\ \A j \in 1..(i - 1) : s[j] # s[i]
            kept == {i \in DOMAIN s : First(i)}
<1>1. Len(s) \in Nat /\ DOMAIN s = 1..Len(s)
  BY ListOf DEF AList
<1>2. ASSUME NEW i \in kept, NEW j \in kept, s[i] = s[j] PROVE i = j
  <2>1. i \in 1..Len(s) /\ j \in 1..Len(s) /\ First(i) /\ First(j)
    BY <1>1
  <2>2. i = j \/ i \in 1..(j - 1) \/ j \in 1..(i - 1)
    BY <1>1, <2>1, PositionsCompare
  <2>. QED BY <1>2, <2>1, <2>2
<1>3. kept \in SUBSET DOMAIN s /\ \A i \in kept : s[i] \in Contents(s) \ {""}
  BY DEF Contents
<1>4. DedupeEndpoints(s) = Those(s, kept)
  BY DEF DedupeEndpoints
<1>. HIDE DEF kept
<1>5. /\ AList(Those(s, kept)) /\ NoneTwice(Those(s, kept))
      /\ Contents(Those(s, kept)) = {s[i] : i \in kept}
  BY <1>2, <1>3, ThoseOnce
<1>. QED BY <1>3, <1>4, <1>5

(* One of a list's entries first, the rest in order.                       *)
LEMMA OrderedIs ==
    ASSUME NEW s, AList(s), NEW random \in 0..9
    PROVE  /\ AList(OrderEndpointCandidates(s, random))
           /\ NoneTwice(OrderEndpointCandidates(s, random))
           /\ "" \notin Contents(OrderEndpointCandidates(s, random))
<1>. DEFINE d == DedupeEndpoints(s)
            first == Pick(random, Len(d))
            moved == <<d[first]>> \o SubSeq(d, 1, first - 1) \o SubSeq(d, first + 1, Len(d))
<1>1. AList(d) /\ NoneTwice(d) /\ "" \notin Contents(d)
  BY DedupedIs
<1>. HIDE DEF d
<1>2. CASE Len(d) < 2
  BY <1>1, <1>2 DEF OrderEndpointCandidates, d
<1>3. CASE ~(Len(d) < 2)
  <2>1. Len(d) \in Nat /\ DOMAIN d = 1..Len(d) /\ \A i \in 1..Len(d) : d[i] \in Contents(d)
    BY <1>1, ListOf DEF AList
  <2>2. first \in 1..Len(d)
    <3>1. (random * Len(d)) \div 10 \in Nat /\ Len(d) - 1 \in Nat
      <4>1. random * Len(d) \in Nat
        BY <2>1
      <4>. QED BY <1>3, <2>1, <4>1
    <3>2. ASSUME NEW x \in Nat, NEW y \in Nat PROVE Min({x, y}) \in 0..y
      BY DEF Min
    <3>. QED BY <2>1, <3>1, <3>2 DEF Pick
  <2>. HIDE DEF first
  <2>3. moved \in Seq(Contents(d)) /\ NoneTwice(moved)
    BY <1>1, <2>2, MovedToFront DEF AList
  <2>. HIDE DEF moved
  <2>4. AList(moved) /\ Contents(moved) \subseteq Contents(d)
    BY <2>3, ListOf
  <2>. QED BY <1>1, <1>3, <2>3, <2>4 DEF OrderEndpointCandidates, d, moved, first
<1>. QED BY <1>1, <1>2, <1>3

-----------------------------------------------------------------------------
(* The candidates a race started, when it started k of them.               *)
Started(k) == {candidates[i] : i \in 1..k}

(* The lists, and what was asked.                                          *)
QueryLists ==
    /\ AList(candidates) /\ NoneTwice(candidates) /\ "" \notin Contents(candidates)
    /\ AList(asked) /\ NoneTwice(asked) /\ Len(asked) <= MaxRequests
    /\ IsFiniteSet(excluded)
    /\ nextIndex \in 0..MaxRequests /\ hedge \in BOOLEAN
    /\ stage \in {"first", "lists", "race", "done"}

(* What was asked is what failed before and what the race started.         *)
QueryCounts ==
    /\ stage = "first" =>
          candidates # <<>> /\ asked = <<candidates[1]>> /\ excluded = {}
    /\ stage # "done" => winner = ""
    /\ stage = "lists" => Contents(asked) = excluded
    /\ stage = "race" =>
          /\ nextIndex \in 1..Len(candidates)
          /\ Len(candidates) + Cardinality(excluded) <= MaxRequests
          /\ excluded \cap Contents(candidates) = {}
          /\ Contents(asked) = excluded \cup Started(nextIndex)
          /\ inFlight \cup failures = Started(nextIndex) /\ inFlight # {}
    /\ stage = "done" /\ winner = "" => Contents(asked) = excluded
    /\ stage # "race" => inFlight = {}
    /\ failures \subseteq Contents(candidates)

(* The lists of a query and what it has spent of its budget.               *)
QueryInv == QueryLists /\ QueryCounts

(* What the invariant says of a query in sight.                            *)
LEMMA QueryInvMeans == QueryInv => JsQueryTypeOK /\ QueryAsksEachOnce
<1>. SUFFICES ASSUME QueryInv PROVE JsQueryTypeOK /\ QueryAsksEachOnce
  OBVIOUS
<1>1. inFlight \subseteq Contents(candidates)
  <2>1. CASE stage = "race"
    <3>1. Started(nextIndex) \subseteq Contents(candidates)
      <4>1. 1..nextIndex \subseteq DOMAIN candidates
        <5>1. Len(candidates) \in Nat /\ DOMAIN candidates = 1..Len(candidates)
          BY ListFacts DEF QueryInv, QueryLists
        <5>2. nextIndex \in 1..Len(candidates)
          BY <2>1 DEF QueryInv, QueryCounts
        <5>. QED BY <5>1, <5>2
      <4>. QED BY <4>1 DEF Started, Contents
    <3>. QED BY <2>1, <3>1 DEF QueryInv, QueryCounts
  <2>. QED BY <2>1 DEF QueryInv, QueryCounts
<1>2. JsQueryTypeOK
  BY <1>1 DEF QueryInv, QueryLists, QueryCounts, JsQueryTypeOK
<1>. QED BY <1>2 DEF QueryInv, QueryLists, QueryCounts, QueryAsksEachOnce, NoneTwice

(* A query starts with its candidates in order and the first one asked.    *)
LEMMA QueryInitInv == JsQueryInit => QueryInv
<1>. SUFFICES ASSUME JsQueryInit PROVE QueryInv
  OBVIOUS
<1>1. AList(candidates) /\ NoneTwice(candidates) /\ "" \notin Contents(candidates)
  <2>1. PICK list \in Configured, random \in 0..9 :
          candidates = OrderEndpointCandidates(list, random)
    BY DEF JsQueryInit
  <2>2. AList(list)
    BY QueryAssumption DEF AList
  <2>. QED BY <2>1, <2>2, OrderedIs
<1>2. /\ excluded = {} /\ nextIndex = 0 /\ inFlight = {} /\ failures = {} /\ hedge = FALSE
      /\ winner = "" /\ stage \in {"done", "first"}
      /\ stage = "done" => asked = <<>>
      /\ stage = "first" => candidates # <<>> /\ MaxRequests >= 1 /\ asked = <<candidates[1]>>
  <2>1. MaxRequests \in Nat
    BY QueryAssumption
  <2>2. /\ stage = IF candidates = <<>> \/ MaxRequests < 1 THEN "done" ELSE "first"
        /\ asked = IF stage = "done" THEN <<>> ELSE <<candidates[1]>>
        /\ excluded = {} /\ nextIndex = 0 /\ inFlight = {} /\ failures = {}
        /\ hedge = FALSE /\ winner = ""
    BY DEF JsQueryInit
  <2>3. CASE stage = "first"
    <3>1. candidates # <<>> /\ ~(MaxRequests < 1)
      BY <2>2, <2>3
    <3>2. MaxRequests >= 1
      BY <2>1, <3>1
    <3>. QED BY <2>2, <2>3, <3>1, <3>2
  <2>4. CASE stage # "first"
    BY <2>2, <2>4
  <2>. QED BY <2>3, <2>4
<1>3. /\ AList(asked) /\ NoneTwice(asked) /\ Len(asked) <= MaxRequests
      /\ stage = "done" => Contents(asked) = {}
  <2>1. CASE stage = "done"
    <3>1. asked = <<>> /\ MaxRequests \in Nat
      BY <1>2, <2>1, QueryAssumption
    <3>2. asked \in Seq({}) /\ Len(asked) = 0 /\ DOMAIN asked = {}
      BY <3>1
    <3>3. Contents(asked) = {} /\ NoneTwice(asked)
      BY <3>2 DEF Contents, NoneTwice
    <3>4. AList(asked)
      BY <3>2, ListOf
    <3>. QED BY <3>1, <3>2, <3>3, <3>4
  <2>2. CASE stage = "first"
    <3>1. asked = <<candidates[1]>> /\ MaxRequests >= 1
      BY <1>2, <2>2
    <3>2. asked \in Seq({candidates[1]}) /\ Len(asked) = 1 /\ DOMAIN asked = {1}
      BY <3>1
    <3>. QED BY <2>2, <3>1, <3>2, ListOf DEF NoneTwice
  <2>. QED BY <1>2, <2>1, <2>2
<1>4. IsFiniteSet({})
  BY FS_EmptySet
<1>5. 0 \in 0..MaxRequests
  BY QueryAssumption
<1>6. QueryLists
  BY <1>1, <1>2, <1>3, <1>4, <1>5 DEF QueryLists
<1>. QED BY <1>2, <1>3, <1>6 DEF QueryInv, QueryCounts

(* The sampled endpoint answers, or does not.                              *)
LEMMA FirstAnswersInv == ASSUME QueryInv, FirstAnswers PROVE QueryInv'
<1>1. /\ stage = "first" /\ candidates # <<>> /\ asked = <<candidates[1]>> /\ excluded = {}
      /\ inFlight = {}
  BY DEF FirstAnswers, QueryInv, QueryCounts
<1>2. candidates[1] \in Contents(candidates) /\ Contents(asked) = {candidates[1]}
  <2>1. /\ Len(candidates) \in Nat /\ DOMAIN candidates = 1..Len(candidates)
        /\ candidates \in Seq(Contents(candidates))
    BY ListFacts DEF QueryInv, QueryLists, AList
  <2>2. Len(candidates) # 0
    BY <1>1, <2>1
  <2>3. DOMAIN asked = {1} /\ asked[1] = candidates[1]
    BY <1>1
  <2>. QED BY <2>1, <2>2, <2>3 DEF Contents
<1>3. UNCHANGED <<candidates, nextIndex, inFlight, failures, hedge, asked>>
  BY DEF FirstAnswers
<1>4. /\ stage' \in {"done", "lists"} /\ excluded' \in {{}, {candidates[1]}}
      /\ stage' = "lists" => excluded' = {candidates[1]} /\ winner' = ""
      /\ stage' = "done" => winner' = candidates[1]
  BY <1>1 DEF FirstAnswers, QueryInv, QueryCounts
<1>5. IsFiniteSet(excluded')
  <2>1. \A x : IsFiniteSet({x})
    BY FS_Singleton
  <2>2. IsFiniteSet({})
    BY FS_EmptySet
  <2>. QED BY <1>4, <2>1, <2>2
<1>6. QueryLists'
  BY <1>3, <1>4, <1>5 DEF QueryInv, QueryLists, AList, NoneTwice, Contents
<1>7. winner' # "" \/ stage' = "lists"
  BY <1>2, <1>4 DEF QueryInv, QueryLists
<1>8. Contents(asked') = {candidates[1]} /\ Contents(candidates') = Contents(candidates)
  BY <1>2, <1>3
<1>9. QueryCounts'
  BY <1>1, <1>2, <1>3, <1>4, <1>7, <1>8 DEF QueryInv, QueryCounts, Contents
<1>. QED BY <1>6, <1>9 DEF QueryInv

(* What the race is about: candidates that did not fail before, and no     *)
(* more of them than the budget has left.                                  *)
LEMMA NextCandidatesAre ==
    ASSUME QueryInv, NEW list \in Listed, NEW n \in Nat, n = Cardinality(excluded),
           n < MaxRequests, NEW these, these = NextCandidates(list)
    PROVE  /\ AList(these) /\ NoneTwice(these) /\ "" \notin Contents(these)
           /\ Len(these) + n <= MaxRequests /\ excluded \cap Contents(these) = {}
<1>. DEFINE remote == DedupeEndpoints(list)
            all == DedupeEndpoints(candidates \o RemoteEndpoints(list))
            fresh == Those(all, {i \in DOMAIN all : all[i] \notin excluded})
            room == Min({Len(fresh), MaxRequests - Cardinality(excluded)})
<1>1. AList(RemoteEndpoints(list))
  <2>1. AList(list)
    BY QueryAssumption DEF AList
  <2>2. AList(remote) /\ NoneTwice(remote)
    BY <2>1, DedupedIs
  <2>. DEFINE kept == {i \in DOMAIN remote : IsHttps(remote[i])}
  <2>3. kept \in SUBSET DOMAIN remote /\ RemoteEndpoints(list) = Those(remote, kept)
    BY DEF RemoteEndpoints
  <2>. HIDE DEF remote, kept
  <2>. QED BY <2>2, <2>3, ThoseOnce DEF NoneTwice
<1>2. AList(all) /\ NoneTwice(all) /\ "" \notin Contents(all)
  BY <1>1, Joined, DedupedIs DEF QueryInv, QueryLists
<1>. HIDE DEF all
<1>3. /\ AList(fresh) /\ NoneTwice(fresh) /\ Contents(fresh) \subseteq Contents(all) \ excluded
  <2>. DEFINE kept == {i \in DOMAIN all : all[i] \notin excluded}
  <2>1. /\ kept \in SUBSET DOMAIN all /\ \A i, j \in kept : all[i] = all[j] => i = j
        /\ \A i \in kept : all[i] \in Contents(all) \ excluded
    BY <1>2 DEF NoneTwice, Contents
  <2>. HIDE DEF kept
  <2>2. /\ AList(Those(all, kept)) /\ NoneTwice(Those(all, kept))
        /\ Contents(Those(all, kept)) = {all[i] : i \in kept}
    BY <1>2, <2>1, ThoseOnce
  <2>. QED BY <2>1, <2>2 DEF kept
<1>. HIDE DEF fresh
<1>4. Len(fresh) \in Nat
  BY <1>3, ListFacts
<1>5. room \in 0..Len(fresh) /\ room + n <= MaxRequests
  <2>1. MaxRequests \in Nat
    BY QueryAssumption
  <2>2. MaxRequests - n \in Nat
    BY <2>1
  <2>3. ASSUME NEW x \in Nat, NEW y \in Nat PROVE Min({x, y}) \in 0..x /\ Min({x, y}) <= y
    BY DEF Min
  <2>. QED BY <1>4, <2>1, <2>2, <2>3
<1>6. these = SubSeq(fresh, 1, room)
  BY DEF NextCandidates, fresh, all, room
<1>. HIDE DEF room
<1>7. /\ AList(these) /\ NoneTwice(these) /\ Len(these) = room
      /\ Contents(these) \subseteq Contents(fresh)
  BY <1>3, <1>5, <1>6, Beginning
<1>. QED BY <1>2, <1>3, <1>5, <1>7

(* The numbers of a query are numbers.                                     *)
LEMMA Counts ==
    ASSUME QueryInv
    PROVE  /\ Cardinality(excluded) \in Nat /\ Len(candidates) \in Nat /\ Len(asked) \in Nat
           /\ DOMAIN candidates = 1..Len(candidates) /\ MaxRequests \in Nat
           /\ \A i \in 1..Len(candidates) : candidates[i] \in Contents(candidates)
           /\ Len(asked) = Cardinality(Contents(asked))
BY ListFacts, NoneTwiceCounts, FS_CardinalityType, QueryAssumption DEF QueryInv, QueryLists

(* One more of what was started, in a race.                                *)
LEMMA StartedMore ==
    ASSUME QueryInv, NEW k \in 0..Len(candidates), k < Len(candidates)
    PROVE  /\ Started(k + 1) = Started(k) \cup {candidates[k + 1]}
           /\ candidates[k + 1] \notin Started(k)
           /\ Started(k + 1) \subseteq Contents(candidates)
<1>1. /\ 1..k + 1 = (1..k) \cup {k + 1} /\ k + 1 \notin 1..k /\ k + 1 \in 1..Len(candidates)
      /\ 1..k \subseteq 1..Len(candidates)
  BY Counts
<1>2. Started(k + 1) = Started(k) \cup {candidates[k + 1]}
  BY <1>1 DEF Started
<1>3. candidates[k + 1] \notin Started(k)
  <2>1. \A i \in 1..k : candidates[i] = candidates[k + 1] => i = k + 1
    BY <1>1, Counts DEF QueryInv, QueryLists, NoneTwice
  <2>. QED BY <1>1, <2>1 DEF Started
<1>4. \A i \in 1..k + 1 : candidates[i] \in Contents(candidates)
  BY <1>1, Counts
<1>. QED BY <1>2, <1>3, <1>4 DEF Started

(* What excluded and started make together.                                *)
LEMMA StartedCounts ==
    ASSUME QueryInv, stage = "race"
    PROVE  Len(asked) = Cardinality(excluded) + nextIndex /\ IsFiniteSet(Started(nextIndex))
<1>1. /\ nextIndex \in 1..Len(candidates) /\ excluded \cap Contents(candidates) = {}
      /\ Contents(asked) = excluded \cup Started(nextIndex)
  BY DEF QueryInv, QueryCounts
<1>. DEFINE begun == SubSeq(candidates, 1, nextIndex)
<1>2. nextIndex \in 0..Len(candidates) /\ nextIndex \in Nat
  BY <1>1, Counts
<1>3. /\ AList(begun) /\ NoneTwice(begun) /\ Len(begun) = nextIndex
      /\ Contents(begun) \subseteq Contents(candidates)
  BY <1>2, Beginning DEF QueryInv, QueryLists
<1>4. Contents(begun) = Started(nextIndex)
  <2>1. begun = [i \in 1..nextIndex |-> candidates[i]]
    BY <1>1, <1>2, Counts DEF SubSeq
  <2>. QED BY <2>1 DEF Contents, Started
<1>5. IsFiniteSet(Started(nextIndex)) /\ Cardinality(Started(nextIndex)) = nextIndex
  BY <1>3, <1>4, NoneTwiceCounts
<1>6. excluded \cap Started(nextIndex) = {}
  BY <1>1, <1>3, <1>4
<1>7. Cardinality(excluded \cup Started(nextIndex))
        = Cardinality(excluded) + Cardinality(Started(nextIndex))
          - Cardinality(excluded \cap Started(nextIndex))
  BY <1>5, FS_Union DEF QueryInv, QueryLists
<1>8. Cardinality({}) = 0
  BY FS_EmptySet
<1>9. Cardinality(Contents(asked)) = Cardinality(excluded) + nextIndex - 0
  BY <1>1, <1>5, <1>6, <1>7, <1>8
<1>10. Len(asked) = Cardinality(Contents(asked)) /\ Cardinality(excluded) \in Nat
  BY Counts
<1>. QED BY <1>2, <1>5, <1>9, <1>10

(* The lists are had, and the race starts, or the query gives up.          *)
LEMMA GetRemoteEndpointsInv == ASSUME QueryInv, GetRemoteEndpoints PROVE QueryInv'
<1>1. /\ stage = "lists" /\ Contents(asked) = excluded /\ winner = "" /\ inFlight = {}
      /\ UNCHANGED <<excluded, winner>>
  BY DEF GetRemoteEndpoints, QueryInv, QueryCounts
<1>2. CASE Cardinality(excluded) >= MaxRequests
  <2>1. /\ stage' = "done"
        /\ UNCHANGED <<candidates, nextIndex, inFlight, failures, hedge, asked>>
    BY <1>2 DEF GetRemoteEndpoints
  <2>2. Contents(asked') = Contents(asked) /\ Contents(candidates') = Contents(candidates)
    BY <2>1
  <2>3. QueryLists'
    BY <1>1, <2>1 DEF QueryInv, QueryLists, AList, NoneTwice, Contents
  <2>. QED BY <1>1, <2>1, <2>2, <2>3 DEF QueryInv, QueryCounts, Contents
<1>3. CASE ~(Cardinality(excluded) >= MaxRequests)
  <2>1. PICK list \in Listed :
          /\ candidates' = NextCandidates(list)
          /\ failures' = {}
          /\ IF candidates' = <<>>
             THEN /\ stage' = "done"
                  /\ UNCHANGED <<nextIndex, inFlight, hedge, asked>>
             ELSE /\ stage' = "race"
                  /\ nextIndex' = 1
                  /\ inFlight' = {candidates'[1]}
                  /\ hedge' = (Len(candidates') > 1)
                  /\ asked' = Append(asked, candidates'[1])
    BY <1>3 DEF GetRemoteEndpoints
  <2>2. PICK these : these = NextCandidates(list)
    OBVIOUS
  <2>3. Cardinality(excluded) < MaxRequests
    BY <1>3, Counts
  <2>4. /\ AList(these) /\ NoneTwice(these) /\ "" \notin Contents(these)
        /\ Len(these) + Cardinality(excluded) <= MaxRequests
        /\ excluded \cap Contents(these) = {}
    BY <2>2, <2>3, Counts, NextCandidatesAre
  <2>5. candidates' = these /\ failures' = {} /\ Contents(candidates') = Contents(these)
    BY <2>1, <2>2
  <2>6. CASE these = <<>>
    <3>1. /\ stage' = "done" /\ UNCHANGED <<nextIndex, inFlight, hedge, asked>>
          /\ Contents(asked') = Contents(asked)
      BY <2>1, <2>5, <2>6
    <3>2. QueryLists'
      BY <1>1, <2>4, <2>5, <3>1 DEF QueryInv, QueryLists, AList, NoneTwice, Contents
    <3>. QED BY <1>1, <2>5, <3>1, <3>2 DEF QueryInv, QueryCounts, Contents
  <2>7. CASE these # <<>>
    <3>. DEFINE e == these[1]
    <3>1. /\ stage' = "race" /\ nextIndex' = 1 /\ inFlight' = {e} /\ hedge' \in BOOLEAN
          /\ asked' = Append(asked, e)
      BY <2>1, <2>5, <2>7
    <3>2. /\ Len(these) \in Nat /\ DOMAIN these = 1..Len(these) /\ Len(these) >= 1
          /\ e \in Contents(these)
      <4>1. /\ Len(these) \in Nat /\ DOMAIN these = 1..Len(these)
            /\ \A i \in 1..Len(these) : these[i] \in Contents(these)
        BY <2>4, ListFacts
      <4>2. Len(these) # 0
        BY <2>4, <2>7, EmptySeq DEF AList
      <4>. QED BY <4>1, <4>2
    <3>. HIDE DEF e
    <3>3. e \notin Contents(asked)
      BY <1>1, <2>4, <3>2
    <3>4. /\ AList(asked') /\ NoneTwice(asked') /\ Contents(asked') = Contents(asked) \cup {e}
          /\ Len(asked') = Len(asked) + 1
      BY <3>1, <3>3, AppendsOnce DEF QueryInv, QueryLists
    <3>5. Len(asked) = Cardinality(excluded)
      BY <1>1, Counts
    <3>6. Len(asked') <= MaxRequests /\ 1 \in 0..MaxRequests
      BY <2>3, <3>4, <3>5, Counts
    <3>7. QueryLists'
      BY <1>1, <2>4, <2>5, <3>1, <3>4, <3>6 DEF QueryInv, QueryLists, AList, NoneTwice, Contents
    <3>8. Started(nextIndex)' = {e}
      <4>1. 1..1 = {1}
        OBVIOUS
      <4>. QED BY <2>5, <3>1, <4>1 DEF Started, e
    <3>9. nextIndex' \in 1..Len(candidates')
      BY <2>5, <3>1, <3>2
    <3>. QED
      BY <1>1, <2>4, <2>5, <3>1, <3>4, <3>7, <3>8, <3>9 DEF QueryInv, QueryCounts, Contents
  <2>. QED BY <2>6, <2>7
<1>. QED BY <1>2, <1>3

(* A race has room for the candidates that are left.                       *)
LEMMA RoomForOne ==
    ASSUME NEW L \in Nat, NEW E \in Nat, NEW M \in Nat, L + E <= M, NEW k \in 1..L
    PROVE  /\ k < L => k + 1 \in 1..L /\ k + 1 \in 0..M /\ E + k + 1 <= M
           /\ ~(k < L) => k = L
OBVIOUS

(* The lists stay as they are.                                             *)
LEMMA ListsStay ==
    ASSUME QueryLists, candidates' = candidates, asked' = asked, nextIndex' = nextIndex,
           hedge' \in BOOLEAN, IsFiniteSet(excluded'),
           stage' \in {"first", "lists", "race", "done"}
    PROVE  QueryLists'
BY DEF QueryLists, AList, NoneTwice, Contents

(* A request is launched, or nobody is left to start.                      *)
LEMMA LaunchNextInv ==
    ASSUME QueryInv, stage = "race", NEW others, LaunchNext(others),
           UNCHANGED <<stage, candidates, excluded, winner>>,
           others \cup failures' = Started(nextIndex), failures' \subseteq Contents(candidates),
           others # {} \/ nextIndex # Len(candidates)
    PROVE  QueryInv'
<1>1. /\ nextIndex \in 1..Len(candidates) /\ nextIndex \in 0..Len(candidates)
      /\ Len(candidates) + Cardinality(excluded) <= MaxRequests
      /\ excluded \cap Contents(candidates) = {}
      /\ Contents(asked) = excluded \cup Started(nextIndex) /\ winner = ""
  <2>1. nextIndex \in 1..Len(candidates) /\ Len(candidates) \in Nat
    BY Counts DEF QueryInv, QueryCounts
  <2>2. nextIndex \in 0..Len(candidates)
    BY <2>1
  <2>. QED BY <2>1, <2>2 DEF QueryInv, QueryCounts
<1>2. UNCHANGED candidates /\ Contents(candidates') = Contents(candidates)
  OBVIOUS
<1>3. CASE nextIndex < Len(candidates)
  <2>. DEFINE e == candidates[nextIndex + 1]
  <2>1. /\ nextIndex' = nextIndex + 1 /\ inFlight' = others \cup {e} /\ hedge' \in BOOLEAN
        /\ asked' = Append(asked, e)
    BY <1>3 DEF LaunchNext
  <2>2. /\ Started(nextIndex + 1) = Started(nextIndex) \cup {e} /\ e \notin Started(nextIndex)
        /\ Started(nextIndex + 1) \subseteq Contents(candidates)
    BY <1>1, <1>3, StartedMore
  <2>. HIDE DEF e
  <2>3. e \notin Contents(asked)
    BY <1>1, <2>2
  <2>4. /\ AList(asked') /\ NoneTwice(asked') /\ Contents(asked') = Contents(asked) \cup {e}
        /\ Len(asked') = Len(asked) + 1
    BY <2>1, <2>3, AppendsOnce DEF QueryInv, QueryLists
  <2>5. /\ nextIndex' \in 1..Len(candidates) /\ nextIndex' \in 0..MaxRequests
        /\ Len(asked') <= MaxRequests
    <3>1. /\ Len(candidates) \in Nat /\ Cardinality(excluded) \in Nat /\ MaxRequests \in Nat
          /\ Len(asked) = Cardinality(excluded) + nextIndex
      BY Counts, StartedCounts
    <3>2. /\ nextIndex + 1 \in 1..Len(candidates) /\ nextIndex + 1 \in 0..MaxRequests
          /\ Cardinality(excluded) + nextIndex + 1 <= MaxRequests
      BY <1>1, <1>3, <3>1, RoomForOne
    <3>3. Len(asked') = Cardinality(excluded) + nextIndex + 1
      BY <2>4, <3>1
    <3>. QED BY <2>1, <3>2, <3>3
  <2>6. QueryLists'
    BY <1>2, <2>1, <2>4, <2>5 DEF QueryInv, QueryLists, AList, NoneTwice, Contents
  <2>7. Started(nextIndex)' = Started(nextIndex) \cup {e}
    BY <1>2, <2>1, <2>2 DEF Started
  <2>8. inFlight' \cup failures' = Started(nextIndex)' /\ inFlight' # {}
    BY <2>1, <2>7
  <2>9. Contents(asked') = excluded \cup Started(nextIndex)'
    BY <1>1, <2>4, <2>7
  <2>. QED BY <1>1, <1>2, <2>5, <2>6, <2>8, <2>9 DEF QueryInv, QueryCounts, Contents
<1>4. CASE ~(nextIndex < Len(candidates))
  <2>1. inFlight' = others /\ UNCHANGED <<nextIndex, hedge, asked>>
    BY <1>4 DEF LaunchNext
  <2>2. others # {}
    <3>1. nextIndex = Len(candidates)
      <4>1. /\ Len(candidates) \in Nat /\ Cardinality(excluded) \in Nat /\ MaxRequests \in Nat
        BY Counts
      <4>. QED BY <1>1, <1>4, <4>1, RoomForOne
    <3>. QED BY <3>1
  <2>3. QueryLists'
    <3>1. hedge \in BOOLEAN /\ IsFiniteSet(excluded) /\ QueryLists
      BY DEF QueryInv, QueryLists
    <3>. QED BY <2>1, <3>1, ListsStay
  <2>4. Started(nextIndex)' = Started(nextIndex) /\ Contents(asked') = Contents(asked)
    BY <1>2, <2>1 DEF Started
  <2>. QED BY <1>1, <1>2, <2>1, <2>2, <2>3, <2>4 DEF QueryInv, QueryCounts, Contents
<1>. QED BY <1>3, <1>4

(* An answer of the race: it is won, lost, or goes on.                     *)
LEMMA RaceAnswersInv ==
    ASSUME QueryInv, NEW e \in inFlight, Succeeds(e) \/ Fails(e)
    PROVE  QueryInv'
<1>1. /\ stage = "race" /\ UNCHANGED candidates /\ Contents(candidates') = Contents(candidates)
      /\ winner = ""
  BY DEF Succeeds, Fails, QueryInv, QueryCounts
<1>2. /\ Contents(asked) = excluded \cup Started(nextIndex)
      /\ inFlight \cup failures = Started(nextIndex)
      /\ nextIndex \in 1..Len(candidates)
  BY <1>1 DEF QueryInv, QueryCounts
<1>3. Started(nextIndex) \subseteq Contents(candidates) /\ e \in Contents(candidates)
  <2>1. \A i \in 1..nextIndex : candidates[i] \in Contents(candidates)
    BY <1>2, Counts
  <2>. QED BY <1>2, <2>1 DEF Started
<1>4. CASE Succeeds(e)
  <2>1. /\ stage' = "done" /\ winner' = e /\ inFlight' = {} /\ hedge' = FALSE
        /\ UNCHANGED <<candidates, excluded, nextIndex, failures, asked>>
    BY <1>4 DEF Succeeds
  <2>2. e # ""
    BY <1>3 DEF QueryInv, QueryLists
  <2>3. QueryLists'
    BY <2>1 DEF QueryInv, QueryLists, AList, NoneTwice, Contents
  <2>. QED BY <1>1, <2>1, <2>2, <2>3 DEF QueryInv, QueryCounts, Contents
<1>5. CASE Fails(e)
  <2>1. failures' = failures \cup {e} /\ failures' \subseteq Contents(candidates)
    BY <1>3, <1>5 DEF Fails, QueryInv, QueryCounts
  <2>2. (inFlight \ {e}) \cup failures' = Started(nextIndex)
    BY <1>2, <2>1
  <2>3. CASE RaceLost(inFlight \ {e})
    <3>1. /\ stage' = "lists" /\ excluded' = excluded \cup failures' /\ inFlight' = {}
          /\ hedge' = FALSE /\ UNCHANGED <<nextIndex, asked, candidates, winner>>
      BY <1>5, <2>3 DEF Fails
    <3>2. Contents(asked') = excluded'
      BY <1>2, <2>2, <2>3, <3>1 DEF RaceLost
    <3>3. IsFiniteSet(excluded')
      BY <1>1, <3>2, <3>1, NoneTwiceCounts DEF QueryInv, QueryLists
    <3>4. QueryLists'
      BY <3>1, <3>3 DEF QueryInv, QueryLists, AList, NoneTwice, Contents
    <3>. QED BY <1>1, <2>1, <3>1, <3>2, <3>4 DEF QueryInv, QueryCounts, Contents
  <2>4. CASE ~RaceLost(inFlight \ {e})
    <3>1. LaunchNext(inFlight \ {e}) /\ UNCHANGED <<stage, candidates, excluded, winner>>
      BY <1>5, <2>4 DEF Fails
    <3>. QED BY <1>1, <2>1, <2>2, <2>4, <3>1, LaunchNextInv DEF RaceLost
  <2>. QED BY <2>3, <2>4
<1>. QED BY <1>4, <1>5

(* Every step of the query keeps the invariant.                            *)
LEMMA QueryStepInv == QueryInv /\ [JsQueryAnswers]_queryVars => QueryInv'
<1>. SUFFICES ASSUME QueryInv, [JsQueryAnswers]_queryVars PROVE QueryInv'
  OBVIOUS
<1>1. CASE UNCHANGED queryVars
  <2>1. UNCHANGED <<stage, candidates, excluded, nextIndex, inFlight, failures, hedge, winner,
                    asked>>
    BY <1>1 DEF queryVars
  <2>2. QueryLists'
    BY <2>1 DEF QueryInv, QueryLists, AList, NoneTwice, Contents
  <2>3. /\ Contents(asked') = Contents(asked) /\ Contents(candidates') = Contents(candidates)
        /\ Started(nextIndex)' = Started(nextIndex)
    BY <2>1 DEF Started
  <2>4. QueryCounts'
    BY <2>1, <2>3 DEF QueryInv, QueryCounts, Contents
  <2>. QED BY <2>2, <2>4 DEF QueryInv
<1>2. CASE HedgeDelayOver
  <2>1. /\ stage = "race" /\ LaunchNext(inFlight)
        /\ UNCHANGED <<stage, candidates, excluded, failures, winner>>
    BY <1>2 DEF HedgeDelayOver
  <2>2. /\ inFlight \cup failures' = Started(nextIndex) /\ inFlight # {}
        /\ failures' \subseteq Contents(candidates)
    BY <2>1 DEF QueryInv, QueryCounts
  <2>. QED BY <2>1, <2>2, LaunchNextInv
<1>. QED
  BY <1>1, <1>2, FirstAnswersInv, GetRemoteEndpointsInv, RaceAnswersInv DEF JsQueryAnswers

(* A query that never began.                                               *)
LEMMA RestingQueryInv == NothingAsked => QueryInv
<1>. SUFFICES ASSUME NothingAsked PROVE QueryInv
  OBVIOUS
<1>1. /\ stage = "done" /\ candidates = <<>> /\ asked = <<>> /\ excluded = {}
      /\ nextIndex = 0 /\ inFlight = {} /\ failures = {} /\ hedge = FALSE /\ winner = ""
  BY DEF NothingAsked
<1>2. <<>> \in Seq({}) /\ DOMAIN <<>> = {} /\ Len(<<>>) = 0
  OBVIOUS
<1>3. AList(<<>>) /\ NoneTwice(<<>>) /\ Contents(<<>>) = {}
  <2>1. NoneTwice(<<>>) /\ Contents(<<>>) = {}
    BY <1>2 DEF NoneTwice, Contents
  <2>. QED BY <1>2, <2>1 DEF AList
<1>4. IsFiniteSet({})
  BY FS_EmptySet
<1>5. 0 \in 0..MaxRequests /\ 0 <= MaxRequests
  BY QueryAssumption
<1>6. QueryLists
  BY <1>1, <1>2, <1>3, <1>4, <1>5 DEF QueryLists
<1>7. QueryCounts
  BY <1>1, <1>3 DEF QueryCounts
<1>. QED BY <1>6, <1>7 DEF QueryInv
-----------------------------------------------------------------------------
(***************************************************************************)
(* The client as one: a part that rests stays where its invariant holds.   *)
(***************************************************************************)
ClientInv ==
    /\ UpdatesInv /\ AttemptsHold /\ (part # "updates" => task = [c \in Caller |-> NoTask])
    /\ CheckerInv /\ IInv /\ QueryInv /\ ReporterInv /\ ProviderInv /\ FlowInv

(* The invariant holds when the client starts.                             *)
LEMMA ClientInitInv == JsInit => ClientInv
<1>. SUFFICES ASSUME JsInit PROVE ClientInv
  OBVIOUS
<1>1. UpdateClientInit /\ CheckerInit /\ Init /\ ReporterInit /\ ProviderInit /\ ErrorFlowInit
  BY DEF JsInit
<1>2. task = [c \in Caller |-> NoTask]
  BY <1>1 DEF UpdateClientInit, DownloaderInit
<1>3. QueryInv
  BY QueryInitInv, RestingQueryInv DEF JsInit
<1>. QED BY <1>1, <1>2, <1>3, UpdatesInitInv, AttemptsInit, CheckerInitInv, InitIInv, ReporterInitInv,
            ProviderInitInv, FlowInitInv DEF ClientInv

(* Each step of the client is a step of each part, or leaves it alone.     *)
LEMMA ClientRunsItsParts ==
    ASSUME [JsNext]_jsVars
    PROVE  /\ \/ part = "switches" /\ ActNext /\ UNCHANGED taskVars
              \/ (part = "updates" \/ UNCHANGED task) /\ [UpdateClientNext]_updateClientVars
           /\ [CheckerNext]_checkerVars /\ [Next]_vars /\ [JsQueryAnswers]_queryVars
           /\ [ReporterNext]_reporterVars
           /\ [ProviderNext]_providerVars /\ [ErrorFlowNext]_errorFlowVars
           /\ part' = part
<1>1. CASE UNCHANGED jsVars
  <2>1. UNCHANGED <<part, updateClientVars, checkerVars, vars, queryVars, reporterVars,
                    providerVars, errorFlowVars>>
    BY <1>1 DEF jsVars
  <2>2. UNCHANGED task
    BY <2>1 DEF updateClientVars, taskVars
  <2>. QED BY <2>1, <2>2
<1>2. CASE JsNext
  <2>1. PartsRest
    BY <1>2 DEF JsNext
  <2>2. CASE part = "updates"
    BY <1>2, <2>1, <2>2 DEF JsNext, PartsRest
  <2>3. CASE part = "switches"
    BY <1>2, <2>1, <2>3 DEF JsNext, PartsRest
  <2>4. CASE part \notin {"updates", "switches"}
    <3>1. UNCHANGED updateClientVars
      BY <2>1, <2>4 DEF PartsRest
    <3>2. UNCHANGED task
      BY <3>1 DEF updateClientVars, taskVars
    <3>. QED BY <1>2, <2>1, <2>4, <3>1, <3>2 DEF JsNext, PartsRest
  <2>. QED BY <2>2, <2>3, <2>4
<1>. QED BY <1>1, <1>2

(* Every step of the client keeps the invariant.                           *)
LEMMA ClientStepInv == ClientInv /\ [JsNext]_jsVars => ClientInv'
<1>. SUFFICES ASSUME ClientInv, [JsNext]_jsVars PROVE ClientInv'
  OBVIOUS
<1>1. /\ CheckerInv' /\ IInv' /\ QueryInv' /\ ReporterInv' /\ ProviderInv' /\ FlowInv'
      /\ part' = part
  BY ClientRunsItsParts, CheckerStep, NextIInv, QueryStepInv, ReporterStep, ProviderStepInv,
     FlowStep
  DEF ClientInv
<1>2. UpdatesInv' /\ AttemptsHold' /\ (part # "updates" => task' = [c \in Caller |-> NoTask])
  <2>1. CASE part = "switches" /\ ActNext /\ UNCHANGED taskVars
    BY <2>1, SwitchesStep, SwitchesAttempts DEF ClientInv, taskVars
  <2>2. CASE (part = "updates" \/ UNCHANGED task) /\ [UpdateClientNext]_updateClientVars
    BY <2>2, UpdatesStep, AttemptsStep DEF ClientInv
  <2>. QED BY <2>1, <2>2, ClientRunsItsParts
<1>. QED BY <1>1, <1>2 DEF ClientInv

(* The invariant of all parts holds in every behaviour of the client.      *)
THEOREM ClientInvariant == JsSpec => []ClientInv
BY ClientInitInv, ClientStepInv, PTL DEF JsSpec

(* Every variable of the client has its type, whatever its parts do.       *)
THEOREM ClientTypeCorrect == JsSpec => []JsTypeOK
<1>1. ClientInv => UpdateClientTypeOK /\ CheckerTypeOK /\ TypeOK /\ JsQueryTypeOK
  BY AttemptsMean, CheckerInvMeans, QueryInvMeans DEF ClientInv, IInv
<1>2. ClientInv => ReporterTypeOK
  BY DEF ClientInv, ReporterInv, ReporterTypeOK, Installed
<1>3. ClientInv => ProviderTypeOK
  BY InvIsUsableOnce DEF ClientInv
<1>4. ClientInv => ErrorFlowTypeOK
  BY DEF ClientInv, FlowInv, FlowTypes, Call, ErrorFlowTypeOK
<1>5. ClientInv => JsTypeOK
  BY <1>1, <1>2, <1>3, <1>4 DEF JsTypeOK
<1>. QED BY <1>5, ClientInvariant, PTL

(* clientDownload.ts: no attempt is given up before each mirror of each    *)
(* strategy whose bytes did not spoil was tried, however the mirrors were  *)
(* raced, demoted and redirected.                                          *)
THEOREM AttemptsAlwaysTryAll == JsSpec => []AttemptTriesEveryMirror
<1>1. ClientInv => AttemptTriesEveryMirror
  BY AttemptsMean DEF ClientInv
<1>. QED BY <1>1, ClientInvariant, PTL

(* clientDownload.ts: however calls for one version overlap, one download  *)
(* of it runs, whoever waits hears its progress, and what switchVersion    *)
(* accepts is on disk with its metadata.                                   *)
THEOREM DownloadsAlwaysSound == JsSpec => []DownloadsAreSound
<1>1. ClientInv => DownloadsAreSound
  BY SharingMeans DEF ClientInv, UpdatesInv, DiskInv, DownloadsAreSound
<1>. QED BY <1>1, ClientInvariant, PTL

(* clientCheck.ts: whoever shares an answer asked its question, and native *)
(* code is told to skip only a round for which a check got its answer.     *)
THEOREM ChecksAlwaysFit == JsSpec => []ChecksFitTheirQuestion
<1>1. ClientInv => ChecksFitTheirQuestion
  BY CheckerInvMeans DEF ClientInv, ChecksFitTheirQuestion
<1>. QED BY <1>1, ClientInvariant, PTL

(* endpoint.ts: no endpoint of a query is asked twice, whatever the remote *)
(* lists hold, and none beyond the budget; a query that ends without a     *)
(* winner was failed by every endpoint it asked.                           *)
THEOREM QueryAlwaysAsksOnce == JsSpec => [](JsQueryTypeOK /\ QueryAsksEachOnce)
<1>1. ClientInv => JsQueryTypeOK /\ QueryAsksEachOnce
  BY QueryInvMeans DEF ClientInv
<1>. QED BY <1>1, ClientInvariant, PTL

(* An older check's failure leaves a newer one its slot, and error         *)
(* reporting leaves every other integration's handler in the chain.        *)
THEOREM OthersAlwaysLeftAlone == JsSpec => OthersAreLeftAlone
<1>1. ClientInv /\ [JsNext]_jsVars
        => [slot # NoPromise /\ slot' = NoPromise => promises[slot].state = "failed"]_checkerVars
  BY SlotFreed, ClientRunsItsParts DEF ClientInv
<1>2. ClientInv /\ [JsNext]_jsVars
        => [(\E on \in BOOLEAN : SetReporting(on)) \/ CleanUp =>
              ChainOf("other")' = ChainOf("other")]_reporterVars
  BY OthersKept DEF ClientInv
<1>. QED BY <1>1, <1>2, ClientInvariant, PTL
         DEF JsSpec, OthersAreLeftAlone, FailureFreesOnlyItsSlot, HandlersOfOthersStay

(* provider.tsx: what is shown, downloaded or switched to can be used on   *)
(* the device and was agreed to, and a mount checks once and follows the   *)
(* launch link once.                                                       *)
THEOREM ProviderAlwaysActsOnUsableOnce == JsSpec => []ProviderActsOnUsableOnce
<1>1. ClientInv => ProviderActsOnUsableOnce
  BY InvIsUsableOnce DEF ClientInv
<1>. QED BY <1>1, ClientInvariant, PTL

(* clientActivation.ts, clientNativeConfig.ts and the error paths keep their *)
(* word as parts of the client: the reload flag has one owner, a client    *)
(* that is quiet has stored its configuration, and errors surface once.    *)
THEOREM ClientKeepsItsWord ==
    JsSpec => [](FlagHasOneOwner /\ QuietMeansStored /\ ErrorsSurfaceOnce)
<1>1. ClientInv => FlagHasOneOwner
  BY DEF ClientInv, UpdatesInv, LeaseInv
<1>2. ClientInv => QuietMeansStored
  BY DEF ClientInv, IInv, TypeOK, SyncedIsStored, QuietMeansStored, Quiet, Wanted
<1>3. ClientInv => ErrorsSurfaceOnce
  BY DEF ClientInv, FlowInv, ShownOnce, LoggedOnce, ErrorsSurfaceOnce
<1>. QED BY <1>1, <1>2, <1>3, ClientInvariant, PTL

(* A switch that a reset superseded stays inert beside downloads too.      *)
THEOREM SupersededStaysInert == JsSpec => SupersededSwitchIsInert
<1>1. ClientInv /\ [JsNext]_jsVars =>
        [\A c \in Caller :
            (Switching(c) /\ act[c].generation # generation /\ act'[c] # act[c] /\ ~reloading) =>
                /\ act'[c] = NotActing
                /\ UNCHANGED <<applyingUpdate, generation, reloadWatchdog>>]_activationVars
  <2>. SUFFICES ASSUME ClientInv, [JsNext]_jsVars, NEW c \in Caller, Switching(c),
                       act[c].generation # generation, act'[c] # act[c], ~reloading
       PROVE  act'[c] = NotActing /\ UNCHANGED <<applyingUpdate, generation, reloadWatchdog>>
    OBVIOUS
  <2>1. ActNext \/ [UpdateClientNext]_updateClientVars
    BY ClientRunsItsParts
  <2>2. ActNext
    BY <2>1 DEF UpdateClientNext, ActNext, updateClientVars, actVars
  <2>. QED BY <2>2, SupersededStep DEF ClientInv, UpdatesInv
<1>. QED BY <1>1, ClientInvariant, PTL DEF JsSpec, SupersededSwitchIsInert
-----------------------------------------------------------------------------
(***************************************************************************)
(* Decisions                                                               *)
(***************************************************************************)

(* What is offered is not what the device runs already.                    *)
News(o, dev) ==
    /\ Announced(o)
    /\ o.update => o.hash # dev.currentVersion \/ o.hash = ""

(* A response of a version is about one the device does not run, and about *)
(* the partial offer only inside its rollout.                              *)
LEMMA ResolveIs ==
    ASSUME NEW dev, NEW o, Announced(o), NEW g, Announced(g), NEW rate,
           NEW found, found = ResolveCheckResult([root |-> o, candidate |-> g, rollout |-> rate], dev)
    PROVE  /\ News(found, dev)
           /\ \/ found = UpToDate
              \/ found = o
              \/ found.hash = g.hash /\ dev.bucket < rate /\ rate # 101
<1> DEFINE info == [root |-> o, candidate |-> g, rollout |-> rate]
           gray == o.update /\ g # NoRelease /\ rate # 101 /\ IsInRollout(rate, dev.bucket)
           chosen == IF gray THEN [g EXCEPT !.update = TRUE] ELSE o
<1>1. found = IF chosen.update /\ chosen.hash # "" /\ chosen.hash = dev.currentVersion
              THEN UpToDate ELSE chosen
  BY DEF ResolveCheckResult
<1>2. /\ Announced(chosen)
      /\ \/ chosen = o
         \/ chosen.hash = g.hash /\ dev.bucket < rate /\ rate # 101
  <2>1. Announced([g EXCEPT !.update = TRUE]) /\ [g EXCEPT !.update = TRUE].hash = g.hash
    BY DEF Announced, NoRelease
  <2>2. QED
    BY <2>1 DEF IsInRollout
<1>3. Announced(UpToDate) /\ UpToDate.update = FALSE
  BY DEF Announced, UpToDate, NoRelease
<1> HIDE DEF chosen
<1>4. QED
  BY <1>1, <1>2, <1>3 DEF News

(* Deciding again changes nothing.                                         *)
LEMMA ResolveAgain ==
    ASSUME NEW dev, NEW o, News(o, dev)
    PROVE  ResolveCheckResult([root |-> o, candidate |-> NoRelease, rollout |-> 101], dev) = o
BY DEF ResolveCheckResult, News

(* What a decision plans fits the offer and the device.                    *)
PlansWell(made, o, dev) ==
    made.action = "download" =>
        /\ o.hash \notin {"", dev.currentVersion, dev.rolledBackVersion}
        /\ made.attempts # <<>> \/ dev.isDev
        /\ \A i \in DOMAIN made.attempts :
             /\ made.attempts[i].urls # <<>>
             /\ made.attempts[i].type = "full" => i = Len(made.attempts)
             /\ dev.isDev => made.attempts[i].type = "full"

(* The downloads tried in turn each have a mirror, the full one comes last *)
(* and a development build has no other.                                   *)
LEMMA DecideIs ==
    ASSUME NEW dev, NEW o, NEW ps, NEW made, made = DecideDownload(o, ps, dev)
    PROVE  PlansWell(made, o, dev)
<1> DEFINE A(type, file) == IF JoinUrls(ps, file) = <<>> THEN <<>>
                            ELSE <<[type |-> type, urls |-> JoinUrls(ps, file)]>>
           final == A("full", o.full)
           first == A("diff", o.diff) \o A("pdiff", o.pdiff)
           all == IF dev.isDev THEN final ELSE first \o final
           noop == dev.isDev /\ final = <<>>
<1>1. made = IF ~o.update \/ o.hash = "" THEN None("noUpdate")
             ELSE IF o.hash = dev.currentVersion THEN None("alreadyCurrent")
             ELSE IF o.hash = dev.rolledBackVersion THEN None("rolledBack")
             ELSE IF all = <<>> /\ ~noop THEN None("noArtifact")
             ELSE [action |-> "download", reason |-> "", attempts |-> all, devNoop |-> noop]
  BY DEF DecideDownload
<1>2. \A why : None(why).action = "none"
  BY DEF None
<1> DEFINE Mirrors == {JoinUrls(ps, o.diff), JoinUrls(ps, o.pdiff), JoinUrls(ps, o.full)} \ {<<>>}
           Inc == [type : {"diff", "pdiff"}, urls : Mirrors]
           Whole == [type : {"full"}, urls : Mirrors]
<1>3. ASSUME NEW t, NEW u, NEW X, u # <<>> => [type |-> t, urls |-> u] \in X
      PROVE  LET a == IF u = <<>> THEN <<>> ELSE <<[type |-> t, urls |-> u]>>
             IN  a \in Seq(X) /\ Len(a) \in {0, 1}
  <2>1. CASE u = <<>>
    BY <2>1
  <2>2. CASE u # <<>>
    <3>1. <<[type |-> t, urls |-> u]>> \in Seq(X) /\ Len(<<[type |-> t, urls |-> u]>>) = 1
      BY <1>3, <2>2
    <3>2. QED
      BY <2>2, <3>1
  <2>3. QED
    BY <2>1, <2>2
<1>4. final \in Seq(Whole) /\ Len(final) \in {0, 1}
  BY <1>3
<1>5. first \in Seq(Inc)
  <2>1. A("diff", o.diff) \in Seq(Inc) /\ A("pdiff", o.pdiff) \in Seq(Inc)
    BY <1>3
  <2> HIDE DEF A, Inc
  <2>2. QED
    BY <2>1, ConcatProperties
<1>6. /\ \A a \in Inc : a.urls # <<>> /\ a.type # "full"
      /\ \A a \in Whole : a.urls # <<>> /\ a.type = "full"
  OBVIOUS
<1> HIDE DEF A, first, final, Inc, Whole, Mirrors
<1>7. \A i \in DOMAIN all : /\ all[i].urls # <<>>
                            /\ all[i].type = "full" => i = Len(all)
                            /\ dev.isDev => all[i].type = "full"
  <2>1. CASE dev.isDev
    <3>1. DOMAIN final = 1..Len(final) /\ \A i \in DOMAIN final : final[i] \in Whole /\ i = Len(final)
      BY <1>4
    <3>2. QED
      BY <1>6, <2>1, <3>1
  <2>2. CASE ~dev.isDev
    <3> DEFINE s == first \o final
    <3>1. /\ Len(first) \in Nat /\ Len(final) \in {0, 1} /\ Len(s) = Len(first) + Len(final)
          /\ DOMAIN s = 1..Len(s)
          /\ \A i \in 1..Len(first) : s[i] = first[i] /\ first[i] \in Inc
          /\ \A i \in Len(first) + 1..Len(s) : s[i] = final[i - Len(first)]
      BY <1>4, <1>5
    <3> HIDE DEF s
    <3>2. ASSUME NEW i \in DOMAIN s
          PROVE  s[i].urls # <<>> /\ (s[i].type = "full" => i = Len(s))
      <4>1. CASE i \in 1..Len(first)
        BY <1>6, <3>1, <4>1
      <4>2. CASE i \notin 1..Len(first)
        <5>1. i = Len(s) /\ Len(final) = 1 /\ i - Len(first) = 1 /\ i \in Len(first) + 1..Len(s)
          BY <3>1, <4>2
        <5>2. s[i] = final[i - Len(first)]
          BY <3>1, <5>1
        <5>3. final[1] \in Whole
          <6>1. DOMAIN final = 1..Len(final) /\ 1 \in 1..Len(final)
            BY <1>4, <5>1
          <6>2. QED
            BY <1>4, <6>1
        <5>4. QED
          BY <1>6, <5>1, <5>2, <5>3
      <4>3. QED
        BY <4>1, <4>2
    <3>3. QED
      BY <2>2, <3>2 DEF s
  <2>3. QED
    BY <2>1, <2>2
<1> DEFINE plan == [action |-> "download", reason |-> "", attempts |-> all, devNoop |-> noop]
<1>8. plan.attempts = all /\ (noop => dev.isDev)
  OBVIOUS
<1> HIDE DEF all, noop, plan
<1>9. made.action = "download" =>
        /\ o.hash \notin {"", dev.currentVersion, dev.rolledBackVersion}
        /\ all # <<>> \/ noop
        /\ made = plan
  BY <1>1, <1>2 DEF plan
<1>10. QED
  BY <1>7, <1>8, <1>9 DEF PlansWell

(* What a caller may add: some fields, or none at all.                     *)
Fields(extra) == DOMAIN extra = {} => extra = <<>>

(* The request of a check says what the device is.                         *)
SaysOf(body, dev, extra) ==
    /\ body.packageVersion = dev.packageVersion
    /\ body.hash = dev.currentVersion
    /\ "bundleHash" \in DOMAIN body <=> dev.bundleHash # ""
    /\ "buildTime" \in DOMAIN body <=> ~dev.isDev
    /\ extra # <<>> => body.extra = extra

(* A request says of the device what the device is, whatever is added.     *)
LEMMA RequestIs ==
    ASSUME NEW dev, NEW extra, Fields(extra),
           NEW body, body = BuildCheckRequestBody(dev, extra)
    PROVE  SaysOf(body, dev, extra)
<1> DEFINE own == [packageVersion |-> dev.packageVersion, hash |-> dev.currentVersion,
                   buildTime |-> dev.buildTime, bundleHash |-> dev.bundleHash]
           spread == With(extra, own)
           dropped == (IF dev.bundleHash = "" THEN {"bundleHash"} ELSE {})
                      \cup (IF dev.isDev THEN {"buildTime"} ELSE {})
           nested == IF extra = <<>> \/ DOMAIN extra = {} THEN <<>> ELSE [extra |-> extra]
<1>1. body = With(Without(spread, dropped), nested)
  BY DEF BuildCheckRequestBody
<1>2. /\ DOMAIN own = {"packageVersion", "hash", "buildTime", "bundleHash"}
      /\ own["packageVersion"] = dev.packageVersion /\ own["hash"] = dev.currentVersion
  OBVIOUS
<1> HIDE DEF own
<1>3. /\ DOMAIN spread = DOMAIN extra \cup DOMAIN own
      /\ \A k \in DOMAIN own : spread[k] = own[k]
  BY DEF With
<1>0. DOMAIN extra = {} => extra = <<>>
  BY DEF Fields
<1>4. /\ DOMAIN nested \subseteq {"extra"}
      /\ extra # <<>> => "extra" \in DOMAIN nested /\ nested["extra"] = extra
  <2>1. CASE extra = <<>>
    BY <2>1
  <2>2. CASE extra # <<>>
    BY <1>0, <2>2
  <2>3. QED
    BY <2>1, <2>2
<1>11. /\ "packageVersion" \notin dropped /\ "hash" \notin dropped
       /\ "bundleHash" \in dropped <=> dev.bundleHash = ""
       /\ "buildTime" \in dropped <=> dev.isDev
       /\ "extra" \notin dropped
  OBVIOUS
<1> HIDE DEF spread, nested, dropped
<1>5. /\ DOMAIN body = (DOMAIN spread \ dropped) \cup DOMAIN nested
      /\ \A k \in DOMAIN body : body[k] = IF k \in DOMAIN nested THEN nested[k]
                                          ELSE Without(spread, dropped)[k]
  BY <1>1 DEF With, Without
<1>6. ASSUME NEW k \in DOMAIN own, k # "extra"
      PROVE  /\ k \in DOMAIN body <=> k \notin dropped
             /\ k \in DOMAIN body => body[k] = own[k]
  <2>1. k \in DOMAIN spread /\ spread[k] = own[k] /\ k \notin DOMAIN nested
    BY <1>3, <1>4, <1>6
  <2>2. k \notin dropped => Without(spread, dropped)[k] = spread[k]
    BY <2>1 DEF Without
  <2>3. QED
    BY <1>5, <2>1, <2>2
<1>7. body["packageVersion"] = dev.packageVersion /\ body["hash"] = dev.currentVersion
  BY <1>2, <1>6, <1>11
<1>8. /\ "bundleHash" \in DOMAIN body <=> dev.bundleHash # ""
      /\ "buildTime" \in DOMAIN body <=> ~dev.isDev
  BY <1>2, <1>6, <1>11
<1>9. extra # <<>> => body["extra"] = extra
  BY <1>4, <1>5
<1>10. QED
  BY <1>7, <1>8, <1>9 DEF SaysOf

(* One of the combinations, or the one a part that does not run rests at.  *)
SampleOK ==
    /\ Announced(sample.root) /\ Announced(sample.candidate)
    /\ sample.rollout \in 0..101
    /\ sample.device \in Device

(* Every such combination is decided for its device.                       *)
LEMMA DecisionsFit ==
    ASSUME SampleOK
    PROVE  DecisionFitsDevice
<1> DEFINE dev == sample.device
<1>1. dev.bucket \in 0..99 /\ dev.isDev \in BOOLEAN
  BY DecisionAssumption DEF SampleOK
<1>2. RequestIsTheDevices
  <2>1. \A extra \in Extra : Fields(extra)
    BY DecisionAssumption DEF Fields
  <2>2. \A extra \in Extra : SaysOf(BuildCheckRequestBody(sample.device, extra), sample.device, extra)
    BY <2>1, RequestIs
  <2>3. QED
    BY <2>2 DEF RequestIsTheDevices, SaysOf
<1>3. /\ News(Chosen, dev)
      /\ \/ Chosen = UpToDate
         \/ Chosen = sample.root
         \/ Chosen.hash = sample.candidate.hash /\ dev.bucket < sample.rollout /\ sample.rollout # 101
  BY ResolveIs DEF Chosen, SampleOK
<1>4. ResolveCheckResult([root |-> Chosen, candidate |-> NoRelease, rollout |-> 101], dev) = Chosen
  BY <1>3, ResolveAgain
<1>5. PlansWell(Decided, Chosen, dev)
  BY DecideIs DEF Decided
<1>6. UpToDate.hash = ""
  BY DEF UpToDate, NoRelease
<1>7. Chosen.hash # "" =>
         \/ Chosen.hash = sample.root.hash
         \/ dev.bucket < sample.rollout /\ sample.rollout \in 1..100
  <2>1. CASE dev.bucket < sample.rollout /\ sample.rollout # 101
    <3>1. \A k \in 0..99 : \A l \in 0..101 : k < l /\ l # 101 => l \in 1..100
      OBVIOUS
    <3>2. QED
      BY <1>1, <2>1, <3>1 DEF SampleOK
  <2>2. QED
    BY <1>3, <1>6, <2>1
<1> DEFINE types == [i \in DOMAIN Decided.attempts |-> Decided.attempts[i].type]
<1>8. ASSUME NEW i \in DOMAIN types, Decided.action = "download"
      PROVE  /\ Decided.attempts[i].urls # <<>>
             /\ types[i] = "full" => i = Len(types)
             /\ dev.isDev => types[i] = "full"
  <2>1. DOMAIN types = DOMAIN Decided.attempts /\ types[i] = Decided.attempts[i].type
    OBVIOUS
  <2>2. Len(types) = Len(Decided.attempts)
    OBVIOUS
  <2>3. QED
    BY <1>5, <1>8, <2>1, <2>2 DEF PlansWell
<1>9. QED
  BY <1>2, <1>3, <1>4, <1>5, <1>7, <1>8 DEF DecisionFitsDevice, PlanFitsDevice, News, PlansWell

(* A sample stays what it was chosen to be.                                *)
LEMMA SampleInvariant == JsSpec => []SampleOK
<1>1. JsInit => SampleOK
  <2> SUFFICES ASSUME JsInit PROVE SampleOK
    OBVIOUS
  <2>1. Announced(NoRelease)
    BY DEF Announced, NoRelease
  <2>2. CASE sample = NoSample
    <3>1. (CHOOSE d \in Device : TRUE) \in Device
      BY DecisionAssumption
    <3>2. sample.root = NoRelease /\ sample.candidate = NoRelease /\ sample.rollout = 101
          /\ sample.device \in Device
      BY <2>2, <3>1 DEF NoSample
    <3>. QED BY <2>1, <3>2 DEF SampleOK
  <2>3. CASE DecisionsInit
    BY <2>1, <2>3, DecisionAssumption DEF DecisionsInit, SampleOK
  <2>. QED BY <2>2, <2>3 DEF JsInit
<1>2. SampleOK /\ [JsNext]_jsVars => SampleOK'
  BY DEF JsNext, PartsRest, jsVars, SampleOK
<1>. QED BY <1>1, <1>2, PTL DEF JsSpec

(* client.ts, updateFlowCore.ts: for every release a server may offer, to  *)
(* all devices or to a part of them, and every device, the request is the  *)
(* device's own and what is downloaded is for it: never what it runs or    *)
(* rolled back from, nor a partial offer outside its rollout.              *)
THEOREM DecisionsAlwaysFit == JsSpec => []DecisionFitsDevice
<1>1. SampleOK => DecisionFitsDevice
  BY DecisionsFit
<1>. QED BY <1>1, SampleInvariant, PTL

=============================================================================

