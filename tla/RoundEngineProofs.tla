-------------------------- MODULE RoundEngineProofs --------------------------
(***************************************************************************)
(* What a round lands belongs to the world it lands in, what it starts     *)
(* keeps its deadline, a spoiled strategy stays behind, the query stays    *)
(* bounded and on https, the full package gets its window and the host     *)
(* what it was promised, for every set of configurations, responses and    *)
(* lists, and every bound on time, requests and generations.               *)
(***************************************************************************)
EXTENDS RoundEngine, SelectionProofs, WellFoundedInduction

GenerationTypeOK ==
    /\ round \in Round
    /\ resetGeneration \in Nat
    /\ configGeneration \in Nat
    /\ stored \in NativeConfig
    /\ moved \in BOOLEAN
    /\ crashHold \in BOOLEAN
    /\ phase \in Phase

(* The sampled generation is the current one for exactly as long as        *)
(* nothing came between, and from its start the round runs with the stored *)
(* configuration for as long as that is so.                                *)
SampleIsCurrent ==
    /\ phase = "idle" => ~moved
    /\ phase # "idle" => round.resetGeneration <= resetGeneration
    /\ phase # "idle" /\ moved => round.resetGeneration < resetGeneration
    /\ phase \notin {"idle", "sampled", "done"} /\ ~moved => round.config = stored

IInv == GenerationTypeOK /\ SampleIsCurrent

(* What an event leaves alone: the configuration and the generations the   *)
(* round started with.                                                     *)
KeepsItsSample ==
    /\ round' \in Round
    /\ round'.config = round.config
    /\ round'.resetGeneration = round.resetGeneration
    /\ round'.configGeneration = round.configGeneration

(* How an event ends a round without landing anything.                     *)
LandsNothing ==
    finish' = finish \/ finish'.reason \notin {"none", "download_failed", "downloaded"}

-----------------------------------------------------------------------------
(* No request, whether one more is sent or the query is over, lands        *)
(* anything.                                                               *)
LEMMA QueryLandsNothing ==
  ASSUME NEW now, NEW at, QueryNext(now, at)
  PROVE  LandsNothing /\ phase' \in {"http", "done"}
BY DEF QueryNext, End, Await, LandsNothing

(* Neither the next download nor the commit of the response alone lands    *)
(* anything yet.                                                           *)
LEMMA AttemptLandsNothing ==
  ASSUME NEW now, NEW c, NextAttempt(now, c)
  PROVE  LandsNothing /\ phase' \in {"download", "committed"}
BY DEF NextAttempt, Download, Commit, Await, LandsNothing

(* An event samples nothing anew, and all but the answer to a commit land  *)
(* nothing.                                                                *)
LEMMA EventKeepsSample ==
  ASSUME IInv, NEW now, Event(now), UNCHANGED <<world, moved>>, ~Start(now)
  PROVE  /\ KeepsItsSample
         /\ phase \notin {"idle", "done"}
         /\ phase' \in Phase \ {"idle", "sampled"}
         /\ phase = "sampled" => phase' = "done"
         /\ (\A error \in BOOLEAN : ~OnCommitted(now, error)) => LandsNothing
<1>0. round \in Round /\ crashHold \in BOOLEAN
  BY DEF IInv, GenerationTypeOK
<1>1. [round EXCEPT !.crashHold = Held] \in Round
  BY <1>0 DEF Round, Held
<1>2. CASE Abort(now)
  BY <1>0, <1>2 DEF Abort, End, KeepsItsSample, LandsNothing, Phase
<1>3. ASSUME NEW origin \in BOOLEAN, OnEnv(now, origin)
      PROVE  KeepsItsSample /\ phase = "env" /\ phase' \in {"http", "done"} /\ LandsNothing
  <2>1. round' \in Round /\ KeepsItsSample /\ phase = "env"
    BY <1>0, <1>3 DEF OnEnv, KeepsItsSample, Round, Held
  <2>2. PICK at : QueryNext(now, at)
    BY <1>3 DEF OnEnv
  <2> QED
    BY <2>1, <2>2, QueryLandsNothing
<1>4. ASSUME NEW reply, OnHttp(now, reply)
      PROVE  /\ KeepsItsSample /\ phase = "http" /\ LandsNothing
             /\ phase' \in {"http", "done", "committed", "installed"}
  <2>1. KeepsItsSample /\ phase = "http"
    BY <1>0, <1>1, <1>4 DEF OnHttp, KeepsItsSample, Round
  <2>2. CASE Respond(now, reply.response)
    BY <2>1, <2>2 DEF Respond, Commit, Await, End, LandsNothing
  <2>3. CASE QueryNext(now, Answered(query, reply))
    BY <2>1, <2>3, QueryLandsNothing
  <2> QED
    BY <1>4, <2>2, <2>3 DEF OnHttp
<1>5. ASSUME NEW complete \in BOOLEAN, OnInstalled(now, complete)
      PROVE  /\ KeepsItsSample /\ phase = "installed" /\ LandsNothing
             /\ phase' \in {"download", "committed"}
  <2>1. KeepsItsSample /\ phase = "installed"
    BY <1>0, <1>1, <1>5 DEF OnInstalled, KeepsItsSample, Round
  <2>2. CASE CommitVersion(now)
    BY <2>1, <2>2 DEF CommitVersion, Commit, Await, LandsNothing
  <2>3. CASE NextAttempt(now, [FirstAttempt EXCEPT !.incremental = DeadlineIn(now, DownloadPhase)])
    BY <2>1, <2>3, AttemptLandsNothing
  <2> QED
    BY <1>5, <2>2, <2>3 DEF OnInstalled
<1>6. ASSUME NEW outcome, OnDownload(now, outcome)
      PROVE  /\ KeepsItsSample /\ phase = "download" /\ LandsNothing
             /\ phase' \in {"download", "committed"}
  <2>1. KeepsItsSample /\ phase = "download"
    BY <1>0, <1>1, <1>6 DEF OnDownload, KeepsItsSample, Round
  <2>2. CASE CommitVersion(now)
    BY <2>1, <2>2 DEF CommitVersion, Commit, Await, LandsNothing
  <2>3. CASE NextAttempt(now, AfterFailure(outcome))
    BY <2>1, <2>3, AttemptLandsNothing
  <2> QED
    BY <1>6, <2>2, <2>3 DEF OnDownload
<1>7. ASSUME NEW error \in BOOLEAN, OnCommitted(now, error)
      PROVE  KeepsItsSample /\ phase = "committed" /\ phase' = "done"
  BY <1>0, <1>1, <1>7 DEF OnCommitted, End, KeepsItsSample, Round
<1> QED
  BY <1>2, <1>3, <1>4, <1>5, <1>6, <1>7 DEF Event, Phase

-----------------------------------------------------------------------------
(* A round that has not begun has nothing that could be out of date.       *)
LEMMA InitIInv == Init => IInv
<1> SUFFICES ASSUME Init PROVE IInv
  OBVIOUS
<1>1. NoRound \in Round
  BY DEF Init, NoRound, Round
<1> QED
  BY <1>1 DEF Init, IInv, GenerationTypeOK, SampleIsCurrent, Phase

(* Every step keeps the sample honest: the round's own steps take it once  *)
(* and leave it alone, the others move the generation they change.         *)
LEMMA NextIInv == IInv /\ [Next]_vars => IInv'
<1> SUFFICES ASSUME IInv, [Next]_vars PROVE IInv'
  OBVIOUS
<1>0. GenerationTypeOK /\ SampleIsCurrent
  BY DEF IInv
<1>1. CASE Sample
  <2>1. PICK deadline \in {NoDeadline} \cup (IF crashHold THEN Deadline ELSE {}) :
          round' = [round EXCEPT !.resetGeneration = resetGeneration,
                                 !.configGeneration = configGeneration,
                                 !.deadline = deadline]
    BY <1>1 DEF Sample
  <2>2. round' \in Round /\ round'.resetGeneration = resetGeneration
    BY <1>0, <2>1 DEF GenerationTypeOK, Round
  <2>3. phase = "idle" /\ phase' = "sampled" /\ UNCHANGED <<world, moved>>
    BY <1>1 DEF Sample
  <2> QED
    BY <1>0, <2>2, <2>3 DEF IInv, GenerationTypeOK, SampleIsCurrent, world, Phase
<1>2. CASE Step
  <2>1. UNCHANGED <<world, moved>>
    BY <1>2 DEF Step
  <2>2. PICK now : Event(now)
    BY <1>2 DEF Step
  <2>3. CASE Start(now)
    <3>1. /\ round' = [round EXCEPT !.config = stored, !.crashHold = crashHold]
          /\ phase = "sampled" /\ phase' \in {"env", "done"}
      BY <2>3 DEF Start, Await, End
    <3>2. /\ round' \in Round /\ round'.config = stored
          /\ round'.resetGeneration = round.resetGeneration
      BY <1>0, <3>1 DEF GenerationTypeOK, Round
    <3> QED
      BY <1>0, <2>1, <3>1, <3>2 DEF IInv, GenerationTypeOK, SampleIsCurrent, world, Phase
  <2>4. CASE ~Start(now)
    <3>1. /\ KeepsItsSample /\ phase \notin {"idle", "done"}
          /\ phase' \in Phase \ {"idle", "sampled"}
          /\ phase = "sampled" => phase' = "done"
      BY <2>1, <2>2, <2>4, EventKeepsSample
    <3> QED
      BY <1>0, <2>1, <3>1 DEF IInv, GenerationTypeOK, SampleIsCurrent, KeepsItsSample, world
  <2> QED
    BY <2>3, <2>4
<1>3. CASE World
  <2>1. UNCHANGED <<phase, round>>
    BY <1>3 DEF World, engine
  <2>2. CASE HoldCrash
    BY <1>0, <2>1, <2>2 DEF HoldCrash, IInv, GenerationTypeOK, SampleIsCurrent
  <2>3. CASE Reset
    BY <1>0, <2>1, <2>3 DEF Reset, IInv, GenerationTypeOK, SampleIsCurrent, Round
  <2>4. CASE SetNativeConfig
    <3>1. /\ stored' \in NativeConfig /\ resetGeneration' \in Nat /\ configGeneration' \in Nat
          /\ resetGeneration < resetGeneration' /\ round.resetGeneration \in Nat
      BY <1>0, <2>4 DEF SetNativeConfig, GenerationTypeOK, Round
    <3>2. crashHold' = crashHold /\ moved' \in BOOLEAN /\ (moved' <=> phase # "idle")
      BY <2>4 DEF SetNativeConfig
    <3>3. resetGeneration \in Nat
      BY <1>0 DEF GenerationTypeOK
    <3> QED
      BY <1>0, <2>1, <3>1, <3>2, <3>3 DEF IInv, GenerationTypeOK, SampleIsCurrent
  <2> QED
    BY <1>3, <2>2, <2>3, <2>4 DEF World
<1>4. CASE UNCHANGED vars
  BY <1>0, <1>4 DEF vars, world, engine, IInv, GenerationTypeOK, SampleIsCurrent
<1> QED
  BY <1>1, <1>2, <1>3, <1>4 DEF Next

(* What a round lands - the response, or a version with it - it lands with *)
(* no reset and no other configuration since its first step, and decided   *)
(* with the configuration that is stored (SyncCoordinator.runOnce,         *)
(* UpdateContext.commitSyncResult), for every value of the constants.      *)
THEOREM RoundLandsInItsOwnWorld == Spec => LandsInItsOwnWorld
<1>1. ASSUME IInv, [Next]_vars
      PROVE  finish' # finish /\ finish'.reason \in {"none", "download_failed", "downloaded"} =>
                 ~moved /\ round.config = stored
  <2> SUFFICES ASSUME ~LandsNothing PROVE ~moved /\ round.config = stored
    BY DEF LandsNothing
  <2>1. CASE Sample
    BY <2>1 DEF Sample, LandsNothing
  <2>2. CASE Step
    <3>1. PICK now : Event(now)
      BY <2>2 DEF Step
    <3>2. ~Start(now)
      BY DEF Start, Await, End, LandsNothing
    <3>3. PICK error \in BOOLEAN : OnCommitted(now, error)
      BY <1>1, <2>2, <3>1, <3>2, EventKeepsSample DEF Step
    <3>4. phase = "committed" /\ Current
      BY <3>3 DEF OnCommitted, End, LandsNothing
    <3> QED
      BY <1>1, <3>4 DEF Current, IInv, GenerationTypeOK, SampleIsCurrent, Round
  <2>3. CASE World \/ UNCHANGED vars
    BY <2>3 DEF World, engine, vars, LandsNothing
  <2> QED
    BY <1>1, <2>1, <2>2, <2>3 DEF Next
<1> QED
  BY <1>1, InitIInv, NextIInv, PTL DEF Spec, LandsInItsOwnWorld

-----------------------------------------------------------------------------
(* The least of two numbers.                                               *)
LEMMA MinOfTwo ==
    ASSUME NEW m \in Int, NEW n \in Int
    PROVE  Min({m, n}) \in {m, n} /\ Min({m, n}) <= m /\ Min({m, n}) <= n
<1>1. \E x \in {m, n} : \A y \in {m, n} : x <= y
  OBVIOUS
<1>2. Min({m, n}) \in {m, n} /\ \A y \in {m, n} : Min({m, n}) <= y
  BY <1>1 DEF Min
<1>3. QED
  BY <1>2

(* Of some natural numbers one is the least.                               *)
LEMMA MinOfSome ==
    ASSUME NEW S \in SUBSET Nat, S # {}
    PROVE  Min(S) \in S /\ \A y \in S : Min(S) <= y
<1> DEFINE less == OpToRel(<, Nat)
<1>1. \A x, y \in Nat : y < x => <<y, x>> \in less
  BY DEF OpToRel
<1>2. \E x \in S : \A y \in S : <<y, x>> \notin less
  BY NatLessThanWellFounded, WFMin
<1> HIDE DEF less
<1>3. PICK x \in S : \A y \in S : <<y, x>> \notin less
  BY <1>2
<1>4. ASSUME NEW y \in S
      PROVE  x <= y
  <2>1. x \in Nat /\ y \in Nat
    OBVIOUS
  <2>2. ~(y < x)
    BY <1>1, <1>3, <2>1, Zenon
  <2>3. QED
    BY <2>1, <2>2
<1>5. QED
  BY <1>4 DEF Min

(***************************************************************************)
(* Deadlines and strategies                                                *)
(***************************************************************************)

(* A command that may take long has time left and gives up in time.        *)
InTime(c) == round.deadline # NoDeadline => c.at < c.until /\ c.until <= round.deadline

(* So do the windows of a cursor.                                          *)
WindowsEnd(c) ==
    round.deadline # NoDeadline => c.incremental <= round.deadline /\ c.full <= round.deadline

(* The cursor is past every strategy that is spoiled, and at the one whose *)
(* download is under way; before the first download it has not moved.      *)
CursorMovesOn ==
    /\ spoiled \subseteq Nat
    /\ phase \notin {"download", "committed", "done"} => cursor = FirstAttempt /\ spoiled = {}
    /\ phase \in {"idle", "sampled"} => command.type = "none"
    /\ command.type = "download" => phase = "download"
    /\ phase = "download" =>
         /\ command.attempt = cursor.attempt
         /\ \A a \in spoiled : a < cursor.attempt

(* The commands of a round are bounded, and its strategies taken in order. *)
Bounded ==
    /\ clock \in Nat
    /\ cursor \in Cursor
    /\ CursorMovesOn
    /\ WindowsEnd(cursor)
    /\ command.type \in {"http", "download"} => InTime(command)

(* The bounds are numbers.                                                 *)
LEMMA TimesAreNumbers ==
    /\ QueryIdle \in Nat \ {0} /\ QueryCall \in Nat \ {0} /\ DownloadPhase \in Nat \ {0}
    /\ round \in Round => round.deadline \in Nat
<1>1. QueryIdle \in Nat \ {0} /\ QueryCall \in Nat \ {0} /\ DownloadPhase \in Nat \ {0}
  BY TimeAssumption
<1>2. ASSUME round \in Round
      PROVE  round.deadline \in Nat
  <2>1. round.deadline \in Deadline \cup {0}
    BY <1>2 DEF Round, NoDeadline
  <2>2. Deadline \subseteq Nat
    BY TimeAssumption
  <2>3. 0 \in Nat
    OBVIOUS
  <2>4. QED
    BY <2>1, <2>2, <2>3, Zenon
<1>3. QED
  BY <1>1, <1>2

(* A time within the deadline, and what is left until it.                  *)
LEMMA DeadlineInIs ==
    ASSUME round \in Round, NEW now \in Nat, NEW span \in Nat
    PROVE  /\ DeadlineIn(now, span) \in Nat
           /\ round.deadline # NoDeadline => DeadlineIn(now, span) <= round.deadline
<1>1. round.deadline \in Int /\ now + span \in Int
  BY TimesAreNumbers
<1>2. Min({now + span, round.deadline}) \in {now + span, round.deadline}
      /\ Min({now + span, round.deadline}) <= round.deadline
  BY <1>1, MinOfTwo
<1>3. Min({now + span, round.deadline}) \in Nat
  BY <1>2, TimesAreNumbers
<1>4. QED
  BY <1>2, <1>3 DEF DeadlineIn

(* The time left until the deadline, when there is one.                   *)
LEMMA WithinIs ==
    ASSUME round \in Round, NEW now \in Nat, NEW limit \in Nat \ {0}, round.deadline # NoDeadline
    PROVE  /\ Within(now, limit) \in {limit, round.deadline - now}
           /\ Within(now, limit) <= round.deadline - now
           /\ Within(now, limit) \in Int
<1>1. limit \in Int /\ round.deadline - now \in Int
  BY TimesAreNumbers
<1>2. /\ Min({limit, round.deadline - now}) \in {limit, round.deadline - now}
      /\ Min({limit, round.deadline - now}) <= round.deadline - now
  BY <1>1, MinOfTwo
<1>3. Within(now, limit) = Min({limit, round.deadline - now})
  BY DEF Within
<1>4. QED
  BY <1>1, <1>2, <1>3

(* A request is sent only while there is time, and never for longer.       *)
LEMMA QueryInTime ==
    ASSUME round \in Round, NEW now \in Nat, NEW at, QueryNext(now, at)
    PROVE  /\ phase' \in {"http", "done"}
           /\ command'.type \in {"http", "none"}
           /\ command'.type = "http" => InTime(command')
<1>1. CASE End("check_failed", FALSE)
  BY <1>1 DEF End, NoCommand
<1>2. ASSUME NEW next, ~(Within(now, QueryIdle) <= 0),
             Await("http", [NoCommand EXCEPT !.type = "http", !.url = next.url, !.at = now,
                                             !.until = now + Within(now, QueryCall)])
      PROVE  /\ phase' = "http"
             /\ command'.type = "http"
             /\ InTime(command')
  <2>1. /\ phase' = "http"
        /\ command'.type = "http" /\ command'.at = now
        /\ command'.until = now + Within(now, QueryCall)
    BY <1>2 DEF Await, NoCommand
  <2>2. ASSUME round.deadline # NoDeadline
        PROVE  now < now + Within(now, QueryCall)
               /\ now + Within(now, QueryCall) <= round.deadline
    <3>1. QueryIdle \in Nat \ {0} /\ QueryCall \in Nat \ {0} /\ round.deadline \in Nat
      BY TimesAreNumbers
    <3>2. round.deadline - now > 0
      BY <1>2, <2>2, <3>1, WithinIs
    <3>3. QED
      BY <2>2, <3>1, <3>2, WithinIs
  <2>3. QED
    BY <2>1, <2>2 DEF InTime
<1>3. QED
  BY <1>1, <1>2 DEF QueryNext

(* So is a download, and the strategies are taken in their order.          *)
LEMMA AttemptInTime ==
    ASSUME round \in Round, NEW now \in Nat, NEW c \in Cursor, WindowsEnd(c), NextAttempt(now, c)
    PROVE  /\ cursor' \in Cursor
           /\ WindowsEnd(cursor')
           /\ \/ /\ phase' = "download"
                 /\ command'.type = "download"
                 /\ command'.attempt = cursor'.attempt
                 /\ cursor'.attempt >= c.attempt
                 /\ c.attempt <= Len(decision.attempts)
                 /\ InTime(command')
              \/ phase' = "committed" /\ command'.type = "commit"
<1>0. /\ c.attempt \in Nat \ {0} /\ c.url \in Nat \ {0} /\ c.incremental \in Nat /\ c.full \in Nat
      /\ round.deadline \in Nat /\ DownloadPhase \in Nat
  BY TimesAreNumbers DEF Cursor
<1>1. CASE Commit(now, "response", FALSE, "download_failed") /\ cursor' = FirstAttempt
  <2>1. phase' = "committed" /\ command'.type = "commit"
    BY <1>1 DEF Commit, Await, NoCommand
  <2>2. QED
    BY <1>0, <1>1, <2>1 DEF FirstAttempt, Cursor, WindowsEnd
<1>2. CASE Open(now, c) # {} /\ Download(now, c, Min(Open(now, c)))
  <2> DEFINE next == Min(Open(now, c))
  <2>1. Open(now, c) \subseteq c.attempt..Len(decision.attempts)
        /\ \A a \in Open(now, c) : Limit(now, c, a) > now
    BY DEF Open
  <2>2. Open(now, c) \subseteq Nat
    BY <1>0, <2>1
  <2>3. next \in Open(now, c)
    BY <1>2, <2>2, MinOfSome
  <2>4. next \in Nat /\ next >= c.attempt /\ c.attempt <= Len(decision.attempts)
        /\ Limit(now, c, next) > now
    BY <1>0, <2>1, <2>2, <2>3
  <2>5. /\ FullWindow(now, c) \in Nat
        /\ round.deadline # NoDeadline => FullWindow(now, c) <= round.deadline
    BY <1>0, DeadlineInIs DEF FullWindow, WindowsEnd
  <2>6. /\ Limit(now, c, next) \in Nat
        /\ round.deadline # NoDeadline => Limit(now, c, next) <= round.deadline
    BY <1>0, <2>5 DEF Limit, WindowsEnd
  <2>7. PICK url : Await("download", [NoCommand EXCEPT !.type = "download", !.url = url,
                                                       !.attempt = next, !.at = now,
                                                       !.until = Limit(now, c, next)])
    BY <1>2 DEF Download
  <2>8. /\ phase' = "download"
        /\ command'.type = "download" /\ command'.attempt = next
        /\ command'.at = now /\ command'.until = Limit(now, c, next)
    BY <2>7 DEF Await, NoCommand
  <2>9. cursor' = [c EXCEPT !.attempt = next, !.url = Mirror(c, next),
                            !.full = IF IsFull(next) THEN FullWindow(now, c) ELSE @]
    BY <1>2 DEF Download
  <2>10. Mirror(c, next) \in Nat \ {0}
    BY <1>0 DEF Mirror
  <2>. HIDE DEF next
  <2>11. /\ cursor' \in Cursor
         /\ cursor'.attempt = next
         /\ cursor'.incremental = c.incremental
         /\ cursor'.full \in {c.full, FullWindow(now, c)}
    <3>1. next \in Nat \ {0}
      BY <1>0, <2>4
    <3>2. cursor' = [c EXCEPT !.attempt = next, !.url = Mirror(c, next), !.full = cursor'.full]
          /\ cursor'.full \in {c.full, FullWindow(now, c)}
      BY <2>9 DEF Cursor
    <3>3. QED
      BY <1>0, <2>5, <2>10, <3>1, <3>2 DEF Cursor
  <2>12. WindowsEnd(cursor')
    BY <2>5, <2>11 DEF WindowsEnd
  <2>13. InTime(command')
    BY <2>4, <2>6, <2>8 DEF InTime
  <2>14. QED
    BY <2>4, <2>8, <2>11, <2>12, <2>13
<1>3. QED
  BY <1>1, <1>2 DEF NextAttempt

(* A failed download leaves a strategy whose bytes did not apply, or that  *)
(* timed out, behind, and opens no window.                                 *)
LEMMA AfterFailureIs ==
    ASSUME cursor \in Cursor, NEW outcome \in {"unreachable", "notApplied", "timedOut"}
    PROVE  /\ AfterFailure(outcome) \in Cursor
           /\ AfterFailure(outcome).incremental = cursor.incremental
           /\ AfterFailure(outcome).full = cursor.full
           /\ outcome = "unreachable" => AfterFailure(outcome).attempt = cursor.attempt
           /\ outcome # "unreachable" =>
                AfterFailure(outcome).attempt \in {cursor.attempt + 1, Len(decision.attempts) + 1}
<1>1. Len(decision.attempts) + 1 \in Nat \ {0} /\ cursor.attempt + 1 \in Nat \ {0}
      /\ cursor.url + 1 \in Nat \ {0}
  BY DEF Cursor
<1>2. CASE outcome = "unreachable"
  <2>1. AfterFailure(outcome) = [cursor EXCEPT !.url = @ + 1]
    BY <1>2 DEF AfterFailure
  <2>2. QED
    BY <1>1, <1>2, <2>1 DEF Cursor
<1>3. CASE outcome # "unreachable"
  <2>1. \/ AfterFailure(outcome) = [cursor EXCEPT !.attempt = Len(decision.attempts) + 1]
        \/ AfterFailure(outcome) = [cursor EXCEPT !.attempt = @ + 1, !.url = 1]
    BY <1>3 DEF AfterFailure
  <2>2. CASE AfterFailure(outcome) = [cursor EXCEPT !.attempt = Len(decision.attempts) + 1]
    BY <1>1, <1>3, <2>2 DEF Cursor
  <2>3. CASE AfterFailure(outcome) = [cursor EXCEPT !.attempt = @ + 1, !.url = 1]
    <3>1. cursor.attempt + 1 \in Nat \ {0} /\ 1 \in Nat \ {0}
      BY <1>1
    <3>2. AfterFailure(outcome) = [cursor EXCEPT !.attempt = cursor.attempt + 1, !.url = 1]
      BY <2>3
    <3>3. /\ AfterFailure(outcome) \in Cursor
          /\ AfterFailure(outcome).attempt = cursor.attempt + 1
          /\ AfterFailure(outcome).incremental = cursor.incremental
          /\ AfterFailure(outcome).full = cursor.full
      <4> DEFINE a == cursor.attempt + 1
                 u == 1
      <4>1. a \in Nat \ {0} /\ u \in Nat \ {0}
            /\ AfterFailure(outcome) = [cursor EXCEPT !.attempt = a, !.url = u]
        BY <3>1, <3>2
      <4> HIDE DEF a, u
      <4>2. AfterFailure(outcome) = [attempt |-> a, url |-> u, incremental |-> cursor.incremental,
                                     full |-> cursor.full]
        BY <4>1, Zenon DEF Cursor
      <4>3. cursor.incremental \in Nat /\ cursor.full \in Nat
        BY DEF Cursor
      <4>4. QED
        BY <4>1, <4>2, <4>3 DEF Cursor, a
    <3>4. QED
      BY <1>3, <3>3
  <2>4. QED
    BY <2>1, <2>2, <2>3
<1>4. QED
  BY <1>2, <1>3

(* No event lets a command outlive the deadline or takes the cursor back.  *)
LEMMA EventBounded ==
    ASSUME IInv, Bounded, NEW now \in Nat, Event(now), UNCHANGED world
    PROVE  /\ round'.deadline = round.deadline
           /\ cursor' \in Cursor
           /\ CursorMovesOn'
           /\ WindowsEnd(cursor')
           /\ command'.type \in {"http", "download"} => InTime(command')
<1>1. /\ round \in Round /\ cursor \in Cursor /\ CursorMovesOn /\ WindowsEnd(cursor)
      /\ cursor.attempt \in Nat \ {0}
  BY DEF IInv, GenerationTypeOK, Bounded, Cursor
<1>2. FirstAttempt \in Cursor /\ WindowsEnd(FirstAttempt)
  BY TimesAreNumbers, <1>1 DEF FirstAttempt, Cursor, WindowsEnd
<1>3. ASSUME round'.deadline = round.deadline, UNCHANGED <<cursor, spoiled>>,
             phase \notin {"download", "committed", "done"},
             phase' \notin {"idle", "sampled", "download"},
             command'.type # "download", command'.type = "http" => InTime(command')
      PROVE  /\ cursor' \in Cursor /\ CursorMovesOn' /\ WindowsEnd(cursor')
             /\ command'.type \in {"http", "download"} => InTime(command')
  BY <1>1, <1>3 DEF CursorMovesOn
<1>4. ASSUME round' = [round EXCEPT !.crashHold = Held]
      PROVE  round'.deadline = round.deadline
  BY <1>1, <1>4 DEF Round
<1>5. ASSUME NEW reason, NEW activated, End(reason, activated)
      PROVE  phase' = "done" /\ command'.type = "none"
  BY <1>5 DEF End, NoCommand
<1>6. ASSUME NEW content, NEW activate, NEW reason, Commit(now, content, activate, reason)
      PROVE  phase' = "committed" /\ command'.type = "commit"
  BY <1>6 DEF Commit, Await, NoCommand
<1>7. CASE Start(now)
  <2>1. round'.deadline = round.deadline
    BY <1>1, <1>7 DEF Start, Round
  <2>2. phase' \in {"env", "done"} /\ command'.type \in {"collectEnv", "none"}
    BY <1>5, <1>7 DEF Start, Await, NoCommand
  <2>3. QED
    BY <2>1, <2>2, <1>3, <1>7 DEF Start
<1>8. CASE Abort(now)
  BY <1>3, <1>5, <1>8 DEF Abort
<1>9. ASSUME NEW origin \in BOOLEAN, OnEnv(now, origin)
      PROVE  /\ round'.deadline = round.deadline
             /\ cursor' \in Cursor /\ CursorMovesOn' /\ WindowsEnd(cursor')
             /\ command'.type \in {"http", "download"} => InTime(command')
  <2>1. round'.deadline = round.deadline
    BY <1>1, <1>9 DEF OnEnv, Round
  <2>2. PICK at : QueryNext(now, at)
    BY <1>9 DEF OnEnv
  <2>3. QED
    BY <2>1, <2>2, <1>1, <1>3, <1>9, QueryInTime DEF OnEnv
<1>10. ASSUME NEW reply, OnHttp(now, reply)
       PROVE  /\ round'.deadline = round.deadline
              /\ cursor' \in Cursor /\ CursorMovesOn' /\ WindowsEnd(cursor')
              /\ command'.type \in {"http", "download"} => InTime(command')
  <2>1. round'.deadline = round.deadline
    BY <1>4, <1>10 DEF OnHttp
  <2>2. CASE Respond(now, reply.response)
    <3>1. phase' \in {"committed", "done", "installed"}
          /\ command'.type \in {"commit", "none", "checkInstalled"}
      BY <2>2, <1>5, <1>6 DEF Respond, Await, NoCommand
    <3>2. QED
      BY <2>1, <3>1, <1>3, <1>10 DEF OnHttp
  <2>3. CASE QueryNext(now, Answered(query, reply))
    BY <2>1, <2>3, <1>1, <1>3, <1>10, QueryInTime DEF OnHttp
  <2>4. QED
    BY <2>2, <2>3, <1>10 DEF OnHttp
<1>11. ASSUME NEW complete \in BOOLEAN, OnInstalled(now, complete)
       PROVE  /\ round'.deadline = round.deadline
              /\ cursor' \in Cursor /\ CursorMovesOn' /\ WindowsEnd(cursor')
              /\ command'.type \in {"http", "download"} => InTime(command')
  <2>1. round'.deadline = round.deadline /\ UNCHANGED spoiled /\ spoiled = {}
    BY <1>1, <1>4, <1>11 DEF OnInstalled, CursorMovesOn
  <2>2. CASE CommitVersion(now) /\ UNCHANGED cursor
    BY <2>1, <2>2, <1>3, <1>6, <1>11 DEF CommitVersion, OnInstalled
  <2> DEFINE c == [FirstAttempt EXCEPT !.incremental = DeadlineIn(now, DownloadPhase)]
  <2>3. CASE NextAttempt(now, c)
    <3>1. c \in Cursor /\ WindowsEnd(c)
      BY <1>1, DeadlineInIs, TimesAreNumbers DEF FirstAttempt, Cursor, WindowsEnd
    <3>2. QED
      BY <2>1, <2>3, <3>1, <1>1, AttemptInTime DEF CursorMovesOn
  <2>4. QED
    BY <2>2, <2>3, <1>11 DEF OnInstalled
<1>12. ASSUME NEW outcome \in {"ok", "unreachable", "notApplied", "timedOut"},
              OnDownload(now, outcome)
       PROVE  /\ round'.deadline = round.deadline
              /\ cursor' \in Cursor /\ CursorMovesOn' /\ WindowsEnd(cursor')
              /\ command'.type \in {"http", "download"} => InTime(command')
  <2>1. round'.deadline = round.deadline /\ spoiled \subseteq Nat
        /\ spoiled' = (IF outcome \in {"timedOut", "notApplied"} THEN spoiled \cup {cursor.attempt}
                       ELSE spoiled)
        /\ \A a \in spoiled : a < cursor.attempt
    BY <1>1, <1>4, <1>12 DEF OnDownload, CursorMovesOn
  <2>2. spoiled' \subseteq Nat
    BY <2>1, <1>1
  <2>3. CASE CommitVersion(now) /\ cursor' = FirstAttempt
    <3>1. phase' = "committed" /\ command'.type = "commit"
      BY <2>3, <1>6 DEF CommitVersion
    <3>2. QED
      BY <2>1, <2>2, <2>3, <3>1, <1>2 DEF CursorMovesOn
  <2>4. CASE outcome # "ok" /\ NextAttempt(now, AfterFailure(outcome))
    <3> DEFINE c == AfterFailure(outcome)
    <3>1. /\ c \in Cursor /\ WindowsEnd(c)
          /\ outcome = "unreachable" => c.attempt = cursor.attempt
          /\ outcome # "unreachable" => \/ c.attempt = cursor.attempt + 1
                                        \/ c.attempt = Len(decision.attempts) + 1
      BY <2>4, <1>1, AfterFailureIs DEF WindowsEnd
    <3> HIDE DEF c
    <3>2. c.attempt <= Len(decision.attempts) => \A a \in spoiled' : a < c.attempt
      BY <2>1, <2>4, <3>1, <1>1
    <3>3. c.attempt \in Nat
      BY <3>1 DEF Cursor
    <3>4. /\ cursor' \in Cursor
          /\ WindowsEnd(cursor')
          /\ \/ /\ phase' = "download"
                /\ command'.type = "download"
                /\ command'.attempt = cursor'.attempt
                /\ cursor'.attempt >= c.attempt
                /\ c.attempt <= Len(decision.attempts)
                /\ InTime(command')
             \/ phase' = "committed" /\ command'.type = "commit"
      BY <2>4, <3>1, <1>1, AttemptInTime DEF c
    <3>5. phase' = "download" => \A a \in spoiled' : a < cursor'.attempt
      BY <2>2, <3>2, <3>3, <3>4 DEF Cursor
    <3>6. QED
      BY <2>1, <2>2, <3>4, <3>5 DEF CursorMovesOn
  <2>5. QED
    BY <2>1, <2>3, <2>4, <1>12 DEF OnDownload
<1>13. ASSUME NEW error \in BOOLEAN, OnCommitted(now, error)
       PROVE  /\ round'.deadline = round.deadline
              /\ cursor' \in Cursor /\ CursorMovesOn' /\ WindowsEnd(cursor')
              /\ command'.type \in {"http", "download"} => InTime(command')
  <2>1. round'.deadline = round.deadline /\ UNCHANGED <<cursor, spoiled>>
    BY <1>4, <1>13 DEF OnCommitted
  <2>2. phase' = "done" /\ command'.type = "none"
    BY <1>5, <1>13 DEF OnCommitted
  <2>3. QED
    BY <2>1, <2>2, <1>1 DEF CursorMovesOn
<1>14. QED
  BY <1>7, <1>8, <1>9, <1>10, <1>11, <1>12, <1>13 DEF Event

(* So a round is bounded from its first step to its last.                  *)
LEMMA BoundedInvariance == Spec => []Bounded
<1>1. Init => Bounded
  BY DEF Init, NoRound, NoDeadline, FirstAttempt, Cursor, NoCommand, Bounded, CursorMovesOn,
     WindowsEnd
<1>2. IInv /\ Bounded /\ [Next]_vars => Bounded'
  <2> SUFFICES ASSUME IInv, Bounded, [Next]_vars PROVE Bounded'
    OBVIOUS
  <2>1. CASE Sample
    <3>1. UNCHANGED <<clock, cursor, command, spoiled>> /\ phase = "idle" /\ phase' = "sampled"
      BY <2>1 DEF Sample
    <3>2. cursor = FirstAttempt /\ command.type = "none" /\ spoiled = {}
      BY <3>1 DEF Bounded, CursorMovesOn
    <3>3. round \in Round /\ Deadline \subseteq Nat /\ 0 \in Nat
      BY TimeAssumption DEF IInv, GenerationTypeOK
    <3>4. PICK deadline \in {NoDeadline} \cup Deadline :
             round' = [round EXCEPT !.resetGeneration = resetGeneration,
                                    !.configGeneration = configGeneration,
                                    !.deadline = deadline]
      BY <2>1 DEF Sample
    <3>5. round'.deadline = deadline
      BY <3>3, <3>4 DEF Round
    <3>6. deadline \in Nat
      BY <3>3, <3>4, Zenon DEF NoDeadline
    <3>7. QED
      BY <3>1, <3>2, <3>5, <3>6 DEF Bounded, CursorMovesOn, WindowsEnd, FirstAttempt
  <2>2. CASE Step
    <3>1. PICK now \in clock..MaxClock : clock' = now /\ Event(now)
      BY <2>2 DEF Step
    <3>2. now \in Nat
      BY <3>1 DEF Bounded
    <3>3. UNCHANGED world
      BY <2>2 DEF Step
    <3>4. QED
      BY <3>1, <3>2, <3>3, EventBounded DEF Bounded, WindowsEnd, InTime
  <2>3. CASE World \/ UNCHANGED vars
    BY <2>3 DEF World, engine, vars, Bounded, CursorMovesOn, WindowsEnd, InTime
  <2>4. QED
    BY <2>1, <2>2, <2>3 DEF Next
<1>3. QED
  BY <1>1, <1>2, InitIInv, NextIInv, PTL DEF Spec

(* Whatever deadline a crash hold sets and whenever the events come, every *)
(* request and every download a round starts has time left and is given up *)
(* by the deadline (Within, DeadlineIn).                                   *)
THEOREM RoundKeepsItsDeadline == Spec => []NothingOutlivesDeadline
<1>1. Bounded => NothingOutlivesDeadline
  BY DEF Bounded, InTime, NothingOutlivesDeadline
<1>2. QED
  BY <1>1, BoundedInvariance, PTL

(* For any response and any order of failures, a strategy that timed out   *)
(* or whose bytes did not apply is not tried again (OnDownload).           *)
THEOREM SpoiledStrategyStaysLeft == Spec => []SpoiledStrategyIsLeft
<1>1. Bounded => SpoiledStrategyIsLeft
  BY DEF Bounded, CursorMovesOn, Cursor, SpoiledStrategyIsLeft
<1>2. QED
  BY <1>1, BoundedInvariance, PTL

(***************************************************************************)
(* What the host is promised                                               *)
(***************************************************************************)

(* A commit is under way, with what it carries and what it will report, in *)
(* one phase only; before it nothing is installed and nothing reported.    *)
PromiseKept ==
    /\ phase \notin {"committed", "done"} => installed = FALSE
    /\ phase # "committed" => command.content = "none"
    /\ phase = "committed" =>
         \/ command.content = "version" /\ command.reason = "downloaded"
         \/ command.content = "response" /\ command.reason \in {"none", "download_failed"}
    /\ phase # "done" => finish.reason = "unfinished"

(* The round has neither asked for its commit nor ended.                   *)
Undecided == phase \notin {"committed", "done"}

(* What a step that decides something may be to the host.                  *)
Decides ==
    \/ phase' \notin {"committed", "done"} /\ command'.content = "none"
         /\ installed' = FALSE /\ finish' = finish
    \/ phase' = "done" /\ command'.content = "none" /\ installed' = installed
         /\ finish'.reason \in {"rejected", "check_failed", "invalid_response", "internal_error"}
    \/ phase' = "committed" /\ command'.content = "response" /\ installed' = FALSE
         /\ command'.reason \in {"none", "download_failed"} /\ finish' = finish
    \/ phase' = "committed" /\ command'.content = "version" /\ installed' = TRUE
         /\ command'.reason = "downloaded" /\ finish' = finish

(* And what the answer to its commit may be.                               *)
Concludes ==
    /\ phase' = "done" /\ command'.content = "none" /\ UNCHANGED installed
    /\ finish'.reason \in {"commit_failed", "config_changed", "reset", command.reason}

(* The end of a round carries nothing and says why.                        *)
LEMMA EndIs ==
    ASSUME NEW reason, NEW activated, End(reason, activated)
    PROVE  phase' = "done" /\ command'.content = "none" /\ finish'.reason = reason
BY DEF End, NoCommand

(* A commit leaves the round waiting for its answer.                       *)
LEMMA CommitIs ==
    ASSUME NEW now, NEW content, NEW activate, NEW reason, Commit(now, content, activate, reason)
    PROVE  /\ phase' = "committed" /\ command'.content = content
           /\ command'.reason = reason /\ finish' = finish
BY DEF Commit, Await, NoCommand

(* One request more, or none and the round is over.                        *)
LEMMA QueryDecides ==
    ASSUME installed = FALSE, NEW now, NEW at, QueryNext(now, at), UNCHANGED installed
    PROVE  Decides
<1>1. CASE End("check_failed", FALSE)
  BY <1>1, EndIs DEF Decides
<1>2. ASSUME NEW next,
             Await("http", [NoCommand EXCEPT !.type = "http", !.url = next.url, !.at = now,
                                             !.until = now + Within(now, QueryCall)])
      PROVE  Decides
  <2>1. phase' = "http" /\ command'.content = "none" /\ finish' = finish
    BY <1>2 DEF Await, NoCommand
  <2>2. QED
    BY <2>1 DEF Decides
<1>3. QED
  BY <1>1, <1>2 DEF QueryNext

(* One download more, or only the response is committed.                   *)
LEMMA AttemptDecides ==
    ASSUME NEW now, NEW c, NextAttempt(now, c), installed' = FALSE
    PROVE  Decides
<1>1. CASE Commit(now, "response", FALSE, "download_failed")
  BY <1>1, CommitIs DEF Decides
<1>2. ASSUME NEW url, NEW next, NEW until,
             Await("download", [NoCommand EXCEPT !.type = "download", !.url = url,
                                                 !.attempt = next, !.at = now, !.until = until])
      PROVE  Decides
  <2>1. phase' = "download" /\ command'.content = "none" /\ finish' = finish
    BY <1>2 DEF Await, NoCommand
  <2>2. QED
    BY <2>1 DEF Decides
<1>3. QED
  BY <1>1, <1>2 DEF NextAttempt, Download

(* A version is committed when its install is there.                       *)
LEMMA VersionDecides ==
    ASSUME NEW now, CommitVersion(now), installed' = TRUE
    PROVE  Decides
BY CommitIs DEF CommitVersion, Decides

(* Each event decides something or answers the commit.                     *)
LEMMA EventDecides ==
    ASSUME PromiseKept, NEW now, Event(now)
    PROVE  (Undecided /\ Decides) \/ (phase = "committed" /\ Concludes)
<1>1. Undecided => installed = FALSE
  BY DEF PromiseKept, Undecided
<1>2. ASSUME NEW p \in {"env", "installed"}, NEW c, c.content = "none", Await(p, c),
             installed' = FALSE
      PROVE  Decides
  BY <1>2 DEF Await, Decides
<1>3. ASSUME NEW reason \in {"rejected", "check_failed", "invalid_response", "internal_error"},
             End(reason, FALSE), UNCHANGED installed
      PROVE  Decides
  BY <1>3, EndIs DEF Decides
<1>4. CASE Start(now)
  <2>1. Undecided
    BY <1>4 DEF Start, Undecided
  <2>2. [NoCommand EXCEPT !.type = "collectEnv", !.at = now].content = "none"
    BY DEF NoCommand
  <2>3. UNCHANGED installed /\ (Undecided => installed' = FALSE)
    BY <1>1, <1>4, Zenon DEF Start
  <2>4. CASE Await("env", [NoCommand EXCEPT !.type = "collectEnv", !.at = now])
    BY <1>2, <2>1, <2>2, <2>3, <2>4, Zenon
  <2>5. CASE End("rejected", FALSE)
    BY <1>3, <2>1, <2>3, <2>5
  <2>6. QED
    BY <1>4, <2>1, <2>4, <2>5, Zenon DEF Start
<1>5. CASE Abort(now)
  BY <1>3, <1>5 DEF Abort, Undecided
<1>6. ASSUME NEW origin \in BOOLEAN, OnEnv(now, origin)
      PROVE  Undecided /\ Decides
  BY <1>1, <1>6, QueryDecides DEF OnEnv, Undecided
<1>7. ASSUME NEW reply, OnHttp(now, reply)
      PROVE  Undecided /\ Decides
  <2>1. Undecided /\ UNCHANGED installed
    BY <1>7 DEF OnHttp, Undecided
  <2>2. CASE Respond(now, reply.response)
    <3>1. CASE Commit(now, "response", FALSE, "none")
      BY <1>1, <2>1, <3>1, CommitIs DEF Decides
    <3>2. [NoCommand EXCEPT !.type = "checkInstalled", !.at = now].content = "none"
      BY DEF NoCommand
    <3>3. CASE Await("installed", [NoCommand EXCEPT !.type = "checkInstalled", !.at = now])
      <4>1. installed' = FALSE
        BY <1>1, <2>1
      <4>2. QED
        BY <1>2, <2>1, <3>2, <3>3, <4>1, Zenon
    <3>4. QED
      BY <1>3, <2>1, <2>2, <3>1, <3>3 DEF Respond
  <2>3. CASE QueryNext(now, Answered(query, reply))
    BY <1>1, <2>1, <2>3, QueryDecides
  <2>4. QED
    BY <1>7, <2>2, <2>3 DEF OnHttp
<1>8. ASSUME NEW complete \in BOOLEAN, OnInstalled(now, complete)
      PROVE  Undecided /\ Decides
  <2>1. CASE complete
    BY <1>8, <2>1, VersionDecides DEF OnInstalled, Undecided
  <2>2. CASE ~complete
    BY <1>8, <2>2, AttemptDecides DEF OnInstalled, Undecided
  <2>3. QED
    BY <2>1, <2>2
<1>9. ASSUME NEW outcome \in {"ok", "unreachable", "notApplied", "timedOut"},
             OnDownload(now, outcome)
      PROVE  Undecided /\ Decides
  <2>1. CASE outcome = "ok"
    BY <1>9, <2>1, VersionDecides DEF OnDownload, Undecided
  <2>2. CASE outcome # "ok"
    BY <1>9, <2>2, AttemptDecides DEF OnDownload, Undecided
  <2>3. QED
    BY <2>1, <2>2
<1>10. ASSUME NEW error \in BOOLEAN, OnCommitted(now, error)
       PROVE  phase = "committed" /\ Concludes
  BY <1>10, EndIs DEF OnCommitted, Concludes
<1>11. QED
  BY <1>4, <1>5, <1>6, <1>7, <1>8, <1>9, <1>10 DEF Event

(* So every step is one the host was promised, or none at all to it.       *)
LEMMA PromiseStep ==
    ASSUME PromiseKept, [Next]_vars
    PROVE  PromiseKept' /\ [Promise!Next]_(Promise!vars)
<1>1. CASE Sample \/ World \/ UNCHANGED vars
  <2>1. UNCHANGED <<command, finish, installed>>
        /\ \/ UNCHANGED phase
           \/ phase = "idle" /\ phase' = "sampled"
    BY <1>1 DEF Sample, World, engine, vars
  <2>2. UNCHANGED Promise!vars
    BY <2>1 DEF Promise!vars
  <2>3. QED
    BY <2>1, <2>2 DEF PromiseKept, Phase
<1>2. CASE Step
  <2>1. PICK now \in clock..MaxClock : Event(now)
    BY <1>2 DEF Step
  <2>2. CASE Undecided /\ Decides
    BY <2>2 DEF Undecided, Decides, PromiseKept, Promise!Next, Promise!vars, Promise!GiveUp,
       Promise!AskToCommit, Promise!Content
  <2>3. CASE phase = "committed" /\ Concludes
    BY <2>3 DEF Concludes, PromiseKept, Promise!Next, Promise!vars, Promise!Land,
       Promise!Refuse
  <2>4. QED
    BY <2>1, <2>2, <2>3, EventDecides
<1>3. QED
  BY <1>1, <1>2 DEF Next

(* Whatever the servers answer and whatever happens around it, a round     *)
(* commits once at most, a version only when a complete install of it is   *)
(* there, and reports what landed: each of its steps is one of             *)
(* RoundPromise, or changes nothing its host sees.                         *)
THEOREM StepsKeepThePromise == Spec => Promise!Init /\ [][Promise!Next]_(Promise!vars)
<1>1. Init => PromiseKept /\ Promise!Init
  <2> SUFFICES ASSUME Init PROVE PromiseKept /\ Promise!Init
    OBVIOUS
  <2>1. phase = "idle" /\ installed = FALSE /\ command.content = "none"
        /\ finish.reason = "unfinished"
    BY DEF Init, NoCommand, NotFinished
  <2>2. QED
    BY <2>1 DEF PromiseKept, Promise!Init
<1>2. PromiseKept /\ [Next]_vars => PromiseKept' /\ [Promise!Next]_(Promise!vars)
  BY PromiseStep
<1>3. QED
  BY <1>1, <1>2, PTL DEF Spec

(***************************************************************************)
(* The requests of the query                                               *)
(***************************************************************************)

(* The fields of a query that a request changes.                           *)
IsQuery(q) == {"list", "next", "tried", "spent", "url"} \subseteq DOMAIN q

(* What the round asked of the endpoints.                                  *)
Requests == Asked("get") \cup Asked("post")

(* The query has counted what it asked for and remembers whom.             *)
QueryCounts ==
    /\ \E S : issued \in Seq(S)
    /\ IsFiniteSet(Requests)
    /\ QueryStaysBounded
    /\ phase \in {"idle", "sampled", "env"} => issued = <<>>
    /\ phase = "http" =>
         /\ IsQuery(query)
         /\ query.next \in Nat
         /\ query.spent = Cardinality(Requests)
         /\ \A i \in Asked("post") : issued[i].url \in query.tried

(* The next request is for a usable entry of the list the query is at, or  *)
(* of the next one.                                                        *)
LEMMA NextAsks ==
    ASSUME NEW q, IsQuery(q), q.next \in Nat, NextRequest(q).url # NoUrl
    PROVE  /\ ~(q.spent >= MaxQueryRequests)
           /\ \E p \in Ahead(q) : \E i \in Left(p) : i \in Nat /\ NextRequest(q) = Ask(p, i)
<1> DEFINE asks == {Ask(p, Min(Left(p))) : p \in {p \in Ahead(q) : Left(p) # {}}}
           here == {ask \in asks : ask.list = q.list}
<1>1. Over(q).url = NoUrl
  BY DEF Over, IsQuery
<1>2. /\ asks # {} /\ ~(q.spent >= MaxQueryRequests)
      /\ NextRequest(q) = CHOOSE ask \in asks : here # {} => ask \in here
  BY <1>1 DEF NextRequest
<1>3. \E ask \in asks : here # {} => ask \in here
  BY <1>2
<1>4. NextRequest(q) \in asks
  BY <1>2, <1>3
<1>5. PICK p \in Ahead(q) : Left(p) # {} /\ NextRequest(q) = Ask(p, Min(Left(p)))
  BY <1>4
<1>6. p.next \in Nat
  <2>1. CASE p = q
    BY <2>1
  <2>2. CASE p = [q EXCEPT !.list = "queryUrls", !.next = 0]
    BY <2>2 DEF IsQuery
  <2>3. QED
    BY <1>5, <2>1, <2>2 DEF Ahead
<1>7. Left(p) \subseteq Nat
  BY <1>6 DEF Left
<1>8. Min(Left(p)) \in Left(p) /\ Min(Left(p)) \in Nat
  BY <1>5, <1>7, MinOfSome
<1>9. QED
  BY <1>2, <1>5, <1>8

(* Where the next request goes: to an endpoint not tried yet, and only     *)
(* while there are requests to spend.                                      *)
LEMMA NextRequestIs ==
    ASSUME NEW q, IsQuery(q), q.next \in Nat, q.spent \in Nat, NextRequest(q).url # NoUrl
    PROVE  /\ q.spent < MaxQueryRequests
           /\ IsQuery(NextRequest(q))
           /\ NextRequest(q).next \in Nat
           /\ NextRequest(q).spent = q.spent + 1
           /\ IF Post(NextRequest(q))
              THEN NextRequest(q).url \notin q.tried
                   /\ NextRequest(q).tried = q.tried \cup {NextRequest(q).url}
              ELSE NextRequest(q).tried = q.tried
<1>1. MaxQueryRequests \in Nat
  BY UrlAssumption
<1>2. PICK p \in Ahead(q) : \E i \in Left(p) : i \in Nat /\ NextRequest(q) = Ask(p, i)
  BY NextAsks
<1>7. IsQuery(p) /\ p.next \in Nat /\ p.spent = q.spent /\ p.tried = q.tried
  <2>1. CASE p = q
    BY <2>1
  <2>2. CASE p = [q EXCEPT !.list = "queryUrls", !.next = 0]
    <3>1. DOMAIN p = DOMAIN q
      BY <2>2
    <3>2. p.next = 0 /\ p.spent = q.spent /\ p.tried = q.tried
      BY <2>2 DEF IsQuery
    <3>3. QED
      BY <3>1, <3>2 DEF IsQuery
  <2>3. QED
    BY <1>2, <2>1, <2>2 DEF Ahead
<1>9. PICK i \in Left(p) : i \in Nat /\ NextRequest(q) = Ask(p, i)
  BY <1>2
<1>10. i \in Nat /\ (Post(p) => Target(p, i) \notin p.tried)
  BY <1>9 DEF Left, UsableAt, Usable
<1>11. /\ Ask(p, i).next = i /\ Ask(p, i).url = Target(p, i) /\ Ask(p, i).list = p.list
       /\ Ask(p, i).spent = p.spent + 1
       /\ Ask(p, i).tried = IF Post(p) THEN p.tried \cup {Target(p, i)} ELSE p.tried
       /\ IsQuery(Ask(p, i))
  <2> DEFINE t == Target(p, i)
             n == p.spent + 1
             w == IF Post(p) THEN p.tried \cup {Target(p, i)} ELSE p.tried
  <2>1. Ask(p, i) = [p EXCEPT !.next = i, !.url = t, !.tried = w, !.spent = n]
    BY DEF Ask
  <2> HIDE DEF t, n, w
  <2>2. DOMAIN Ask(p, i) = DOMAIN p
    BY <2>1
  <2>3. /\ Ask(p, i).next = i /\ Ask(p, i).url = t /\ Ask(p, i).list = p.list
        /\ Ask(p, i).spent = n
        /\ Ask(p, i).tried = w
    BY <1>7, <2>1 DEF IsQuery
  <2>4. QED
    BY <1>7, <2>2, <2>3 DEF IsQuery, t, n, w
<1>12. NextRequest(q) = Ask(p, i)
  BY <1>9
<1>13. q.spent < MaxQueryRequests
  BY <1>1, NextAsks
<1>14. Post(NextRequest(q)) <=> Post(p)
  BY <1>11, <1>12 DEF Post
<1>15. IsQuery(NextRequest(q)) /\ NextRequest(q).next \in Nat
       /\ NextRequest(q).spent = q.spent + 1
  BY <1>7, <1>10, <1>11, <1>12
<1>16. IF Post(NextRequest(q))
       THEN NextRequest(q).url \notin q.tried
            /\ NextRequest(q).tried = q.tried \cup {NextRequest(q).url}
       ELSE NextRequest(q).tried = q.tried
  BY <1>7, <1>10, <1>11, <1>12, <1>14
<1>17. QED
  BY <1>13, <1>15, <1>16

(* One more entry of what was issued.                                      *)
LEMMA IssuedMore ==
    ASSUME NEW S, issued \in Seq(S), NEW e, issued' = Append(issued, e)
    PROVE  /\ \E T : issued' \in Seq(T)
           /\ \A t : Asked(t)' = Asked(t) \cup (IF e.type = t THEN {Len(issued) + 1} ELSE {})
           /\ \A t : Len(issued) + 1 \notin Asked(t)
           /\ \A i \in 1..Len(issued) : issued'[i] = issued[i]
           /\ issued'[Len(issued) + 1] = e
           /\ \A t : Asked(t) \subseteq 1..Len(issued)
<1>1. issued \in Seq(S \cup {e}) /\ e \in S \cup {e} /\ Len(issued) \in Nat
  OBVIOUS
<1>2. /\ issued' \in Seq(S \cup {e}) /\ Len(issued') = Len(issued) + 1
      /\ \A i \in 1..Len(issued) : issued'[i] = issued[i]
      /\ issued'[Len(issued) + 1] = e
  BY <1>1
<1>3. DOMAIN issued = 1..Len(issued) /\ DOMAIN issued' = 1..Len(issued) + 1
  BY <1>1, <1>2
<1>4. \E T : issued' \in Seq(T)
  BY <1>2
<1>5. ASSUME NEW t
      PROVE  /\ Asked(t)' = Asked(t) \cup (IF e.type = t THEN {Len(issued) + 1} ELSE {})
             /\ Len(issued) + 1 \notin Asked(t)
             /\ Asked(t) \subseteq 1..Len(issued)
  BY <1>1, <1>2, <1>3 DEF Asked
<1>6. QED
  BY <1>2, <1>4, <1>5

(* A step that asks for nothing keeps the count.                           *)
LEMMA AsksNothing ==
    ASSUME QueryCounts, UNCHANGED issued, issued = <<>> \/ phase' \notin {"idle", "sampled", "env"},
           phase' # "http"
    PROVE  QueryCounts'
<1>1. UNCHANGED <<Requests, Asked("post")>> /\ QueryStaysBounded'
  BY DEF Requests, Asked, QueryCounts, QueryStaysBounded
<1>2. QED
  BY <1>1 DEF QueryCounts

(* A download is no request.                                               *)
LEMMA DownloadIsNoRequest ==
    ASSUME QueryCounts, NEW now, NEW c, NextAttempt(now, c)
    PROVE  QueryCounts'
<1>1. phase' \in {"download", "committed"}
  BY AttemptLandsNothing
<1>2. CASE UNCHANGED issued
  BY <1>1, <1>2, AsksNothing
<1>3. ASSUME NEW e, e.type = "download", issued' = Append(issued, e)
      PROVE  QueryCounts'
  <2>1. PICK S : issued \in Seq(S)
    BY DEF QueryCounts
  <2>2. /\ \E T : issued' \in Seq(T)
        /\ Asked("get")' = Asked("get") /\ Asked("post")' = Asked("post")
        /\ \A i \in Asked("post") : issued'[i] = issued[i]
    <3>1. /\ \A t : Asked(t)' = Asked(t) \cup (IF e.type = t THEN {Len(issued) + 1} ELSE {})
          /\ \A i \in 1..Len(issued) : issued'[i] = issued[i]
          /\ \A t : Asked(t) \subseteq 1..Len(issued)
          /\ \E T : issued' \in Seq(T)
      BY <1>3, <2>1, IssuedMore
    <3>2. QED
      BY <1>3, <3>1
  <2>3. Requests' = Requests
    BY <2>2 DEF Requests
  <2>4. QueryStaysBounded'
    BY <2>2 DEF QueryCounts, QueryStaysBounded
  <2>5. QED
    BY <1>1, <2>2, <2>3, <2>4 DEF QueryCounts
<1>4. ASSUME NEW n, Download(now, c, n)
      PROVE  QueryCounts'
  <2>1. PICK url : issued' = Append(issued, [type |-> "download", attempt |-> n, url |-> url])
    BY <1>4 DEF Download
  <2>2. [type |-> "download", attempt |-> n, url |-> url].type = "download"
    OBVIOUS
  <2>3. QED
    BY <1>3, <2>1, <2>2
<1>5. QED
  BY <1>2, <1>4 DEF NextAttempt

(* A request counts, and goes to nobody it went to before.                 *)
LEMMA RequestCounts ==
    ASSUME QueryCounts, NEW now, NEW at, IsQuery(at), at.next \in Nat,
           at.spent = Cardinality(Requests),
           \A i \in Asked("post") : issued[i].url \in at.tried,
           QueryNext(now, at)
    PROVE  QueryCounts'
<1>1. IsFiniteSet(Requests) /\ QueryStaysBounded /\ at.spent \in Nat
      /\ \A i, j \in Asked("post") : issued[i].url = issued[j].url => i = j
  BY FS_CardinalityType DEF QueryCounts, QueryStaysBounded
<1>2. CASE End("check_failed", FALSE) /\ UNCHANGED issued
  <2>1. phase' = "done"
    BY <1>2 DEF End
  <2>2. QED
    BY <1>2, <2>1, AsksNothing
<1>3. ASSUME NEW next, next = NextRequest(at), next.url # NoUrl, query' = next, phase' = "http",
             NEW e, e.type = (IF Post(next) THEN "post" ELSE "get"), e.url = next.url,
             issued' = Append(issued, e)
      PROVE  QueryCounts'
  <2>1. PICK S : issued \in Seq(S)
    BY DEF QueryCounts
  <2> DEFINE n == Len(issued) + 1
  <2>2. /\ at.spent < MaxQueryRequests
        /\ IsQuery(next) /\ next.next \in Nat /\ next.spent = at.spent + 1
        /\ IF Post(next) THEN next.url \notin at.tried /\ next.tried = at.tried \cup {next.url}
           ELSE next.tried = at.tried
    BY <1>1, <1>3, NextRequestIs
  <2>3. /\ \A t : Asked(t)' = Asked(t) \cup (IF e.type = t THEN {n} ELSE {})
        /\ \A t : n \notin Asked(t)
        /\ \A i \in 1..Len(issued) : issued'[i] = issued[i]
        /\ \A t : Asked(t) \subseteq 1..Len(issued)
        /\ issued'[n] = e
        /\ \E T : issued' \in Seq(T)
    BY <1>3, <2>1, IssuedMore
  <2> HIDE DEF n
  <2>4. Requests' = Requests \cup {n} /\ n \notin Requests
    BY <1>3, <2>3 DEF Requests
  <2>5. IsFiniteSet(Requests') /\ Cardinality(Requests') = Cardinality(Requests) + 1
    BY <1>1, <2>4, FS_AddElement
  <2>6. \A i \in Asked("post") : issued'[i] = issued[i]
    BY <2>3
  <2>7. /\ \A i \in Asked("post")' : issued'[i].url \in next.tried
        /\ \A i, j \in Asked("post")' : issued'[i].url = issued'[j].url => i = j
    <3>1. CASE Post(next)
      <4>1. Asked("post")' = Asked("post") \cup {n} /\ issued'[n].url \notin at.tried
            /\ issued'[n].url \in next.tried
        BY <1>3, <2>2, <2>3, <3>1
      <4>2. QED
        BY <1>1, <2>2, <2>6, <3>1, <4>1
    <3>2. CASE ~Post(next)
      <4>1. Asked("post")' = Asked("post")
        BY <1>3, <2>3, <3>2
      <4>2. QED
        BY <1>1, <2>2, <2>6, <3>2, <4>1
    <3>3. QED
      BY <3>1, <3>2
  <2>8. Cardinality(Requests') <= MaxQueryRequests
    BY <1>1, <2>2, <2>5, UrlAssumption
  <2>9. QueryStaysBounded'
    BY <2>7, <2>8 DEF QueryStaysBounded, Requests
  <2>10. QED
    BY <1>3, <2>2, <2>3, <2>5, <2>7, <2>9 DEF QueryCounts
<1>4. CASE End("check_failed", FALSE) /\ UNCHANGED <<query, issued>>
  BY <1>2, <1>4
<1>5. ASSUME NEW next, next = NextRequest(at), next.url # NoUrl,
             Await("http", [NoCommand EXCEPT !.type = "http", !.url = next.url, !.at = now,
                                             !.until = now + Within(now, QueryCall)]),
             query' = next,
             issued' = Append(issued, [type |-> IF Post(next) THEN "post" ELSE "get",
                                       url |-> next.url, attempt |-> 0])
      PROVE  QueryCounts'
  <2>1. phase' = "http"
    BY <1>5 DEF Await
  <2>2. QED
    BY <1>3, <1>5, <2>1
<1>6. QED
  BY <1>4, <1>5 DEF QueryNext

(* Only the query asks, and every event but a failed answer ends it.       *)
LEMMA QueryCountsOn ==
    ASSUME QueryCounts, NEW now, Event(now)
    PROVE  QueryCounts'
<1>1. CASE Start(now)
  <2>1. UNCHANGED issued /\ issued = <<>> /\ phase' # "http"
    BY <1>1 DEF Start, End, Await, QueryCounts
  <2>2. QED
    BY <2>1, AsksNothing
<1>2. CASE Abort(now)
  <2>1. UNCHANGED issued /\ phase' = "done"
    BY <1>2 DEF Abort, End
  <2>2. QED
    BY <2>1, AsksNothing
<1>3. ASSUME NEW origin \in BOOLEAN, OnEnv(now, origin)
      PROVE  QueryCounts'
  <2>1. issued = <<>>
    BY <1>3 DEF OnEnv, QueryCounts
  <2>2. Requests = {} /\ Asked("post") = {}
    BY <2>1 DEF Requests, Asked
  <2>3. PICK endpoints : QueryNext(now, FirstQuery(round.config, endpoints))
    BY <1>3 DEF OnEnv
  <2> DEFINE at == FirstQuery(round.config, endpoints)
  <2>4. IsQuery(at) /\ at.next = 0 /\ at.spent = 0
    BY DEF FirstQuery, NoQuery, IsQuery
  <2>5. Cardinality(Requests) = 0
    BY <2>2, FS_EmptySet
  <2> HIDE DEF at
  <2>6. QED
    BY <2>2, <2>3, <2>4, <2>5, RequestCounts DEF at
<1>4. ASSUME NEW reply, OnHttp(now, reply)
      PROVE  QueryCounts'
  <2>1. phase = "http"
    BY <1>4 DEF OnHttp
  <2>2. CASE Respond(now, reply.response)
    <3>1. UNCHANGED issued /\ phase' \in {"committed", "done", "installed"}
      BY <2>2 DEF Respond, Commit, End, Await
    <3>2. QED
      BY <3>1, AsksNothing
  <2>3. CASE QueryNext(now, Answered(query, reply))
    <3>1. IsQuery(query) /\ query.next \in Nat
      BY <2>1 DEF QueryCounts
    <3> DEFINE at == Answered(query, reply)
    <3>2. DOMAIN at = DOMAIN query
      BY DEF Answered
    <3>3. at.next \in Nat /\ at.spent = query.spent /\ at.tried = query.tried
      BY <3>1 DEF Answered, IsQuery
    <3>4. IsQuery(at)
      BY <3>1, <3>2 DEF IsQuery
    <3>5. /\ at.spent = Cardinality(Requests)
          /\ \A i \in Asked("post") : issued[i].url \in at.tried
      BY <2>1, <3>3 DEF QueryCounts
    <3> HIDE DEF at
    <3>6. QED
      BY <2>3, <3>3, <3>4, <3>5, RequestCounts DEF at
  <2>4. QED
    BY <1>4, <2>2, <2>3 DEF OnHttp
<1>5. ASSUME CommitVersion(now), UNCHANGED issued
      PROVE  QueryCounts'
  <2>1. phase' = "committed"
    BY <1>5 DEF CommitVersion, Commit, Await
  <2>2. QED
    BY <1>5, <2>1, AsksNothing
<1>6. ASSUME NEW complete \in BOOLEAN, OnInstalled(now, complete)
      PROVE  QueryCounts'
  BY <1>5, <1>6, DownloadIsNoRequest DEF OnInstalled
<1>7. ASSUME NEW outcome \in {"ok", "unreachable", "notApplied", "timedOut"},
             OnDownload(now, outcome)
      PROVE  QueryCounts'
  BY <1>5, <1>7, DownloadIsNoRequest DEF OnDownload
<1>8. ASSUME NEW error \in BOOLEAN, OnCommitted(now, error)
      PROVE  QueryCounts'
  <2>1. UNCHANGED issued /\ phase' = "done"
    BY <1>8 DEF OnCommitted, End
  <2>2. QED
    BY <2>1, AsksNothing
<1>9. QED
  BY <1>1, <1>2, <1>3, <1>4, <1>6, <1>7, <1>8 DEF Event

(* So the count holds in every state.                                      *)
LEMMA QueryCountsInvariance == Spec => []QueryCounts
<1>1. Init => QueryCounts
  <2> SUFFICES ASSUME Init PROVE QueryCounts
    OBVIOUS
  <2>1. issued = <<>> /\ phase = "idle"
    BY DEF Init
  <2>2. Requests = {} /\ Asked("get") \cup Asked("post") = {} /\ Asked("post") = {}
    BY <2>1 DEF Requests, Asked
  <2>3. IsFiniteSet({}) /\ Cardinality({}) = 0 /\ MaxQueryRequests \in Nat
    BY FS_EmptySet, UrlAssumption
  <2>4. QueryStaysBounded
    BY <2>2, <2>3 DEF QueryStaysBounded
  <2>5. issued \in Seq({})
    BY <2>1
  <2>6. QED
    BY <2>1, <2>2, <2>3, <2>4, <2>5 DEF QueryCounts
<1>2. QueryCounts /\ [Next]_vars => QueryCounts'
  <2> SUFFICES ASSUME QueryCounts, [Next]_vars PROVE QueryCounts'
    OBVIOUS
  <2>1. CASE Step
    BY <2>1, QueryCountsOn DEF Step
  <2>2. CASE Sample
    <3>1. UNCHANGED issued /\ issued = <<>> /\ phase' = "sampled"
      BY <2>2 DEF Sample, QueryCounts
    <3>2. QED
      BY <3>1, AsksNothing
  <2>3. CASE World \/ UNCHANGED vars
    <3>1. UNCHANGED <<issued, phase, query>>
      BY <2>3 DEF World, engine, vars
    <3>2. UNCHANGED <<Requests, Asked("post")>> /\ QueryStaysBounded'
      BY <3>1 DEF Requests, Asked, QueryCounts, QueryStaysBounded
    <3>3. QED
      BY <3>1, <3>2 DEF QueryCounts
  <2>4. QED
    BY <2>1, <2>2, <2>3 DEF Next
<1>3. QED
  BY <1>1, <1>2, PTL DEF Spec

(* Whatever the lists hold and the servers answer, no endpoint is asked    *)
(* twice under any spelling, and the query costs at most MaxQueryRequests  *)
(* requests (NextQueryStep).                                               *)
THEOREM QueriesStayBounded == Spec => []QueryStaysBounded
<1>1. QueryCounts => QueryStaysBounded
  BY DEF QueryCounts
<1>2. QED
  BY <1>1, QueryCountsInvariance, PTL

(***************************************************************************)
(* Types, transport and the window of the last resort                      *)
(***************************************************************************)

(* The round may use https only.                                           *)
Only == IsHttpsOnly(round.config.endpoints)

(* An address the round may use.                                           *)
Safe(u, only) == u \in Url /\ (only => u \notin Cleartext)
AllSafe(s, only) == \A i \in DOMAIN s : Safe(s[i], only)

(* A query that is not over and leaves https nowhere.                      *)
Honest(q, only) ==
    /\ q \in Query
    /\ q.list # "over"
    /\ q.httpsOnly = only
    /\ only => AllSafe(q.endpoints, only)

(* A plan holds one full package at most.                                  *)
OneFull(attempts) ==
    \A i, j \in DOMAIN attempts :
        attempts[i].type = "full" /\ attempts[j].type = "full" => i = j

(* Strategies each of which has a mirror to try, and may be tried.         *)
Reachable(attempts, only) ==
    /\ attempts \in Seq(Attempt)
    /\ \A i \in DOMAIN attempts :
         attempts[i].urls # <<>> /\ AllSafe(attempts[i].urls, only)
    /\ OneFull(attempts)

(* An ordering of the endpoints names no other one.                        *)
LEMMA OrderingIs ==
    ASSUME NEW e \in List, NEW s \in OrderEndpointCandidates(e)
    PROVE  s \in List /\ \A i \in DOMAIN s : s[i] \in Contents(e) \ {NoUrl}
<1>1. AList(e) /\ Contents(e) \subseteq Url \cup {NoUrl}
  BY ListOf DEF List
<1>2. CASE s = <<>>
  <2>1. <<>> \in Seq(Url \cup {NoUrl}) /\ DOMAIN <<>> = {}
    OBVIOUS
  <2>2. QED
    BY <1>2, <2>1 DEF List
<1>3. ASSUME NEW first \in Candidates(e), s = StartingWith(e, first)
      PROVE  s \in List /\ \A i \in DOMAIN s : s[i] \in Contents(e) \ {NoUrl}
  <2> DEFINE X == Contents(e) \ {NoUrl}
             rest == Those(e, Candidates(e) \ {first})
  <2>1. \A i \in Candidates(e) : i \in DOMAIN e /\ e[i] \in X
    BY <1>1, ListFacts DEF Candidates
  <2>2. Candidates(e) \ {first} \in SUBSET DOMAIN e
    BY <2>1
  <2>3. rest \in Seq(Contents(e)) /\ \A n \in DOMAIN rest : rest[n] \in X
    <3>1. /\ rest \in Seq(Contents(e))
          /\ \A n \in DOMAIN rest : /\ Nth(Candidates(e) \ {first}, n) \in Candidates(e) \ {first}
                                    /\ rest[n] = e[Nth(Candidates(e) \ {first}, n)]
      BY <1>1, <2>2, ThoseAre DEF AList
    <3> HIDE DEF rest, X
    <3>2. QED
      BY <2>1, <3>1
  <2>4. X \subseteq Url \cup {NoUrl}
    BY <1>1
  <2> HIDE DEF X, rest
  <2>5. rest \in Seq(X) /\ <<e[first]>> \in Seq(X)
    BY <2>1, <2>3
  <2>6. s = <<e[first]>> \o rest
    BY <1>3 DEF StartingWith, rest
  <2>7. s \in Seq(X)
    BY <2>5, <2>6, ConcatProperties
  <2>8. \A i \in DOMAIN s : s[i] \in X
    BY <2>7
  <2>9. s \in List
    BY <2>4, <2>7 DEF List
  <2>10. QED
    BY <2>8, <2>9 DEF X
<1>4. QED
  BY <1>2, <1>3 DEF OrderEndpointCandidates

(* What a round plans of a response is what it may try.                    *)
LEMMA PlanIs ==
    ASSUME NEW attempts \in Seq(Attempt), OneFull(attempts)
    PROVE  Reachable(PlanAttempts(attempts), Only)
<1> DEFINE Usable1(u) == u # NoUrl /\ ~(Only /\ u \in Cleartext)
           Mirrors(s) == Those(s, {i \in DOMAIN s : Usable1(s[i])})
           kept == [k \in DOMAIN attempts |-> [attempts[k] EXCEPT !.urls = Mirrors(@)]]
           usable == {k \in DOMAIN kept : /\ kept[k].urls # <<>>
                                          /\ kept[k].type = "diff" => round.origin}
           plan == Those(kept, usable)
<1>1. ASSUME NEW s \in List
      PROVE  Mirrors(s) \in List /\ AllSafe(Mirrors(s), Only)
  <2> DEFINE at == {i \in DOMAIN s : Usable1(s[i])}
  <2>1. at \in SUBSET DOMAIN s
    OBVIOUS
  <2>2. /\ Those(s, at) \in List
        /\ \A n \in DOMAIN Those(s, at) : /\ Nth(at, n) \in at
                                          /\ Those(s, at)[n] = s[Nth(at, n)]
    BY <2>1, ThoseAre DEF List
  <2>3. \A i \in at : Safe(s[i], Only)
    <3>1. \A i \in DOMAIN s : s[i] \in Url \cup {NoUrl}
      BY DEF List
    <3>2. QED
      BY <3>1 DEF Safe
  <2> HIDE DEF at
  <2>4. AllSafe(Those(s, at), Only)
    BY <2>2, <2>3 DEF AllSafe
  <2>5. QED
    BY <2>2, <2>4 DEF at
<1>2. \A k \in DOMAIN attempts : attempts[k] \in Attempt
  OBVIOUS
<1> HIDE DEF Mirrors
<1>3. ASSUME NEW k \in DOMAIN attempts
      PROVE  /\ kept[k] \in Attempt /\ kept[k].type = attempts[k].type
             /\ kept[k].urls = Mirrors(attempts[k].urls)
             /\ AllSafe(kept[k].urls, Only)
  <2>1. attempts[k].urls \in List
    BY <1>2 DEF Attempt
  <2> DEFINE m == Mirrors(attempts[k].urls)
  <2>2. m \in List /\ AllSafe(m, Only)
    BY <1>1, <2>1
  <2>3. kept[k] = [attempts[k] EXCEPT !.urls = m]
    OBVIOUS
  <2> HIDE DEF m, kept
  <2>4. kept[k] \in Attempt /\ kept[k].type = attempts[k].type /\ kept[k].urls = m
    BY <1>2, <2>2, <2>3 DEF Attempt
  <2>5. QED
    BY <2>2, <2>4 DEF m
<1>4. kept \in Seq(Attempt)
  <2>1. Len(attempts) \in Nat /\ DOMAIN attempts = 1..Len(attempts) /\ DOMAIN kept = DOMAIN attempts
    OBVIOUS
  <2>2. \A k \in 1..Len(attempts) : kept[k] \in Attempt
    BY <1>3, <2>1
  <2>3. kept = [k \in 1..Len(attempts) |-> kept[k]]
    BY <2>1
  <2> HIDE DEF kept
  <2>4. QED
    BY <2>1, <2>2, <2>3
<1>5. DOMAIN kept = DOMAIN attempts
  OBVIOUS
<1> HIDE DEF kept
<1>6. usable \in SUBSET DOMAIN kept /\ \A k \in usable : kept[k].urls # <<>>
  OBVIOUS
<1>7. PlanAttempts(attempts) = plan
  BY DEF PlanAttempts, Mirrors, kept, Only
<1> HIDE DEF usable
<1>8. /\ plan \in Seq(Attempt)
      /\ \A n \in DOMAIN plan : Nth(usable, n) \in usable /\ plan[n] = kept[Nth(usable, n)]
  BY <1>4, <1>6, ThoseAre
<1>9. \A n \in DOMAIN plan : plan[n].urls # <<>> /\ AllSafe(plan[n].urls, Only)
  BY <1>3, <1>5, <1>6, <1>8
<1>10. OneFull(plan)
  <2> SUFFICES ASSUME NEW m \in DOMAIN plan, NEW n \in DOMAIN plan,
                      plan[m].type = "full", plan[n].type = "full"
               PROVE  m = n
    BY DEF OneFull
  <2>1. Nth(usable, m) = Nth(usable, n)
    BY <1>3, <1>5, <1>6, <1>8 DEF OneFull
  <2>2. Positions(usable)
    <3>1. Len(kept) \in Nat /\ DOMAIN kept = 1..Len(kept)
      BY <1>4
    <3>2. IsFiniteSet(DOMAIN kept)
      BY <3>1, FS_Interval
    <3>3. QED
      BY <1>6, <3>1, <3>2, FS_Subset DEF Positions
  <2>3. m \in 1..Cardinality(usable) /\ n \in 1..Cardinality(usable)
    BY DEF Those
  <2>4. QED
    BY <2>1, <2>2, <2>3, NthIs
<1>11. QED
  BY <1>7, <1>8, <1>9, <1>10 DEF Reachable

(* It leaves https nowhere: the configured endpoints do not, and a fetched *)
(* one is looked at.                                                       *)
LEMMA NextIsHonest ==
    ASSUME NEW only, NEW q, Honest(q, only), NextRequest(q).url # NoUrl
    PROVE  /\ Honest(NextRequest(q), only)
           /\ NextRequest(q).url \in Url
           /\ Post(NextRequest(q)) => Safe(NextRequest(q).url, only)
<1>1. /\ q \in Query /\ q.list # "over" /\ q.httpsOnly = only
      /\ only => AllSafe(q.endpoints, only)
  BY DEF Honest
<1>2. IsQuery(q) /\ q.next \in Nat
  BY <1>1 DEF Query, IsQuery
<1>3. PICK p \in Ahead(q) : \E i \in Left(p) : i \in Nat /\ NextRequest(q) = Ask(p, i)
  BY <1>2, NextAsks
<1>4. PICK i \in Left(p) : i \in Nat /\ NextRequest(q) = Ask(p, i)
  BY <1>3
<1>5. /\ p \in Query /\ p.list \in {"endpoints", "queryUrls", "remote"}
      /\ p.httpsOnly = q.httpsOnly /\ p.endpoints = q.endpoints
  <2>1. CASE p = q
    BY <1>1, <2>1 DEF Query
  <2>2. CASE p = [q EXCEPT !.list = "queryUrls", !.next = 0]
    <3>1. 0 \in Nat
      OBVIOUS
    <3>2. QED
      BY <1>1, <2>2, <3>1 DEF Query
  <2>3. QED
    BY <1>3, <2>1, <2>2 DEF Ahead
<1>6. Entries(p) \in List /\ p.next \in Nat
  BY <1>5 DEF Query, Entries
<1>7. i \in DOMAIN Entries(p) /\ Entries(p)[i] \in Url \cup {NoUrl}
  <2>1. i \in p.next + 1..Len(Entries(p))
    BY DEF Left
  <2>2. i \in 1..Len(Entries(p))
    BY <1>4, <1>6, <2>1 DEF List
  <2>3. QED
    BY <1>6, <2>2 DEF List
<1> DEFINE t == Target(p, i)
<1>8. Usable(p, t)
  BY DEF Left, UsableAt
<1>9. t \in Url
  <2>1. Base[Entries(p)[i]] \in Url \cup {NoUrl}
    BY <1>7, UrlAssumption
  <2>2. QED
    BY <1>7, <1>8, <2>1 DEF Target, Usable
<1>10. Post(p) => Safe(t, only)
  <2>1. CASE p.list = "endpoints" /\ only
    <3>1. Entries(p)[i] \in Url \ Cleartext /\ t = Base[Entries(p)[i]]
      BY <1>1, <1>5, <1>7, <2>1 DEF Entries, AllSafe, Safe, Target, Post
    <3>2. QED
      BY <1>9, <3>1, UrlAssumption DEF Safe
  <2>2. CASE p.list = "remote" /\ only
    BY <1>1, <1>5, <1>8, <1>9, <2>2 DEF Usable, Safe
  <2>3. QED
    BY <1>5, <1>9, <2>1, <2>2 DEF Safe, Post
<1> DEFINE n == p.spent + 1
           w == IF Post(p) THEN p.tried \cup {t} ELSE p.tried
<1>11. n \in Nat /\ w \in SUBSET Url
  BY <1>5, <1>9 DEF Query
<1>12. Ask(p, i) = [p EXCEPT !.next = i, !.url = t, !.tried = w, !.spent = n]
  BY DEF Ask
<1> HIDE DEF t, n, w
<1>13. /\ Ask(p, i) \in Query
       /\ Ask(p, i).list = p.list /\ Ask(p, i).url = t
       /\ Ask(p, i).httpsOnly = p.httpsOnly /\ Ask(p, i).endpoints = p.endpoints
  BY <1>4, <1>5, <1>9, <1>11, <1>12 DEF Query
<1>14. Honest(Ask(p, i), only)
  BY <1>1, <1>5, <1>13 DEF Honest
<1>15. QED
  BY <1>4, <1>9, <1>10, <1>13, <1>14 DEF Post

(* A line of what the round issued.                                        *)
Entry == [type : {"get", "post", "download"}, url : Url, attempt : Nat]

(* The fields of the engine between two of its events.                     *)
EngineTypeOK ==
    /\ query \in Query
    /\ decision \in Decision
    /\ command \in Command
    /\ finish \in Finish \cup {NotFinished}
    /\ issued \in Seq(Entry)
    /\ installed \in BOOLEAN

(* Nothing in clear was asked for, or is to be.                            *)
IssuedSafely ==
    \A i \in DOMAIN issued : issued[i].type \in {"post", "download"} => Safe(issued[i].url, Only)
QueryIsHonest == phase = "http" => Honest(query, Only)
PlanIsReachable == phase \in {"installed", "download"} => Reachable(decision.attempts, Only)

Sound == EngineTypeOK /\ IssuedSafely /\ QueryIsHonest /\ PlanIsReachable

(* A safe request or download more.                                        *)
LEMMA IssuedSafelyMore ==
    ASSUME issued \in Seq(Entry), IssuedSafely, UNCHANGED Only,
           NEW e \in Entry, e.type \in {"post", "download"} => Safe(e.url, Only),
           issued' = Append(issued, e)
    PROVE  issued' \in Seq(Entry) /\ IssuedSafely'
<1>1. /\ issued' \in Seq(Entry)
      /\ \A i \in 1..Len(issued) : issued'[i] = issued[i]
      /\ issued'[Len(issued) + 1] = e
      /\ DOMAIN issued = 1..Len(issued) /\ DOMAIN issued' = 1..Len(issued) + 1
      /\ Len(issued) \in Nat
  OBVIOUS
<1>2. \A i \in DOMAIN issued' : i \in 1..Len(issued) \/ i = Len(issued) + 1
  BY <1>1
<1>3. ASSUME NEW i \in DOMAIN issued', issued'[i].type \in {"post", "download"}
      PROVE  Safe(issued'[i].url, Only')
  <2>1. CASE i \in 1..Len(issued)
    BY <1>1, <1>3, <2>1 DEF IssuedSafely
  <2>2. CASE i = Len(issued) + 1
    BY <1>1, <1>3, <2>2
  <2>3. QED
    BY <1>2, <2>1, <2>2
<1>4. QED
  BY <1>1, <1>3 DEF IssuedSafely, Safe

(* The times a command carries are numbers.                                *)
LEMMA UntilIs ==
    ASSUME round \in Round, NEW now \in Nat, ~(Within(now, QueryIdle) <= 0)
    PROVE  now + Within(now, QueryCall) \in Nat
<1>1. QueryIdle \in Nat \ {0} /\ QueryCall \in Nat \ {0} /\ round.deadline \in Nat
  BY TimesAreNumbers
<1>2. CASE round.deadline = NoDeadline
  BY <1>1, <1>2 DEF Within
<1>3. CASE round.deadline # NoDeadline
  BY <1>1, <1>3, WithinIs
<1>4. QED
  BY <1>2, <1>3

(* The commands and the ends of a round.                                   *)
LEMMA CommandsAre ==
    ASSUME NEW now \in Nat
    PROVE  /\ NoCommand \in Command
           /\ [NoCommand EXCEPT !.type = "collectEnv", !.at = now] \in Command
           /\ [NoCommand EXCEPT !.type = "checkInstalled", !.at = now] \in Command
           /\ \A url \in Url : \A until \in Nat :
                [NoCommand EXCEPT !.type = "http", !.url = url, !.at = now, !.until = until]
                    \in Command
           /\ \A url \in Url : \A next \in Nat : \A until \in Nat :
                [NoCommand EXCEPT !.type = "download", !.url = url, !.attempt = next,
                                  !.at = now, !.until = until] \in Command
           /\ \A content \in {"response", "version"} : \A activate \in BOOLEAN :
              \A reason \in {"none", "download_failed", "downloaded"} :
                [NoCommand EXCEPT !.type = "commit", !.at = now, !.content = content,
                                  !.activate = activate, !.reason = reason] \in Command
BY DEF NoCommand, Command

(* A query that goes on stays sound.                                       *)
LEMMA QuerySound ==
    ASSUME IInv, Sound, NEW now \in Nat, NEW at, Honest(at, Only), QueryNext(now, at),
           UNCHANGED <<Only, decision, installed>>
    PROVE  Sound'
<1>1. CASE End("check_failed", FALSE) /\ UNCHANGED <<query, issued>>
  <2>1. phase' = "done" /\ command' = NoCommand
        /\ finish' = [reason |-> "check_failed", activated |-> FALSE]
    BY <1>1 DEF End
  <2>2. EngineTypeOK'
    BY <1>1, <2>1, CommandsAre DEF Sound, EngineTypeOK, Finish, Reason
  <2>3. IssuedSafely'
    BY <1>1 DEF Sound, IssuedSafely, Safe
  <2>4. QED
    BY <2>1, <2>2, <2>3 DEF Sound, QueryIsHonest, PlanIsReachable
<1>2. ASSUME NEW next, next = NextRequest(at), next.url # NoUrl, ~(Within(now, QueryIdle) <= 0),
             Await("http", [NoCommand EXCEPT !.type = "http", !.url = next.url, !.at = now,
                                             !.until = now + Within(now, QueryCall)]),
             query' = next,
             issued' = Append(issued, [type |-> IF Post(next) THEN "post" ELSE "get",
                                       url |-> next.url, attempt |-> 0])
      PROVE  Sound'
  <2>1. /\ Honest(next, Only) /\ next.url \in Url
        /\ Post(next) => Safe(next.url, Only)
    BY <1>2, NextIsHonest
  <2> DEFINE e == [type |-> IF Post(next) THEN "post" ELSE "get", url |-> next.url, attempt |-> 0]
             until == now + Within(now, QueryCall)
  <2>2. e \in Entry /\ (e.type \in {"post", "download"} => Safe(e.url, Only))
    BY <2>1 DEF Entry
  <2>3. until \in Nat
    BY <1>2, UntilIs DEF IInv, GenerationTypeOK
  <2>4. issued' = Append(issued, e) /\ phase' = "http" /\ UNCHANGED finish
        /\ command' = [NoCommand EXCEPT !.type = "http", !.url = next.url, !.at = now,
                                        !.until = until]
    BY <1>2 DEF Await
  <2> HIDE DEF e, until
  <2>5. issued' \in Seq(Entry) /\ IssuedSafely'
    BY <2>2, <2>4, IssuedSafelyMore DEF Sound, EngineTypeOK
  <2>6. command' \in Command
    BY <2>1, <2>3, <2>4, CommandsAre
  <2>7. EngineTypeOK'
    BY <1>2, <2>1, <2>4, <2>5, <2>6 DEF Sound, EngineTypeOK, Honest
  <2>8. QueryIsHonest'
    BY <1>2, <2>1, <2>4 DEF QueryIsHonest
  <2>9. QED
    BY <2>4, <2>5, <2>7, <2>8 DEF Sound, PlanIsReachable
<1>3. QED
  BY <1>1, <1>2 DEF QueryNext

(* The cursor of a strategy that is tried next, its mirror and its window. *)
LEMMA OpenIs ==
    ASSUME round \in Round, NEW now \in Nat, NEW c \in Cursor, Open(now, c) # {}
    PROVE  /\ Min(Open(now, c)) \in Open(now, c)
           /\ \A i \in Open(now, c) : Min(Open(now, c)) <= i
           /\ \A i \in Open(now, c) :
                /\ i \in Nat \ {0} /\ i >= c.attempt /\ i <= Len(decision.attempts)
                /\ Mirror(c, i) \in Nat \ {0}
                /\ Mirror(c, i) <= Len(decision.attempts[i].urls)
                /\ Limit(now, c, i) \in Nat /\ FullWindow(now, c) \in Nat
<1>1. /\ c.attempt \in Nat \ {0} /\ c.url \in Nat \ {0} /\ c.incremental \in Nat /\ c.full \in Nat
      /\ DownloadPhase \in Nat
  BY TimesAreNumbers DEF Cursor
<1>2. FullWindow(now, c) \in Nat
  BY <1>1, DeadlineInIs DEF FullWindow
<1>3. \A i \in Open(now, c) :
        /\ i \in c.attempt..Len(decision.attempts)
        /\ Mirror(c, i) <= Len(decision.attempts[i].urls)
  BY DEF Open
<1>4. ASSUME NEW i \in Open(now, c)
      PROVE  i \in Nat \ {0} /\ i >= c.attempt /\ i <= Len(decision.attempts)
  BY <1>1, <1>3
<1>5. ASSUME NEW i \in Open(now, c)
      PROVE  Mirror(c, i) \in Nat \ {0} /\ Limit(now, c, i) \in Nat
  BY <1>1, <1>2 DEF Mirror, Limit
<1>6. Open(now, c) \in SUBSET Nat
  BY <1>4
<1>7. QED
  BY <1>2, <1>3, <1>4, <1>5, <1>6, MinOfSome

(* So does a round that tries the next mirror, or has none left.           *)
LEMMA AttemptSound ==
    ASSUME IInv, Sound, NEW now \in Nat, NEW c \in Cursor, NextAttempt(now, c),
           Reachable(decision.attempts, Only),
           UNCHANGED <<Only, query, decision>>, installed' \in BOOLEAN
    PROVE  Sound'
<1>0. round \in Round
  BY DEF IInv, GenerationTypeOK
<1>1. CASE Commit(now, "response", FALSE, "download_failed") /\ UNCHANGED issued
  <2>1. command' \in Command /\ phase' = "committed" /\ UNCHANGED finish
    BY <1>1, CommandsAre DEF Commit, Await
  <2>2. EngineTypeOK'
    BY <1>1, <2>1 DEF Sound, EngineTypeOK
  <2>3. IssuedSafely'
    BY <1>1 DEF Sound, IssuedSafely, Safe
  <2>4. QED
    BY <2>1, <2>2, <2>3 DEF Sound, QueryIsHonest, PlanIsReachable
<1>2. CASE Open(now, c) # {} /\ Download(now, c, Min(Open(now, c)))
  <2> DEFINE next == Min(Open(now, c))
             url == decision.attempts[next].urls[Mirror(c, next)]
             until == Limit(now, c, next)
             e == [type |-> "download", attempt |-> next, url |-> url]
  <2>1. /\ next \in Nat \ {0} /\ next <= Len(decision.attempts)
        /\ Mirror(c, next) \in Nat \ {0} /\ Mirror(c, next) <= Len(decision.attempts[next].urls)
        /\ until \in Nat
    BY <1>0, <1>2, OpenIs
  <2>2. /\ phase' = "download" /\ UNCHANGED finish
        /\ command' = [NoCommand EXCEPT !.type = "download", !.url = url, !.attempt = next,
                                        !.at = now, !.until = until]
        /\ issued' = Append(issued, e)
    BY <1>2 DEF Download, Await
  <2> HIDE DEF next
  <2>3. next \in DOMAIN decision.attempts
        /\ decision.attempts[next].urls \in List
        /\ AllSafe(decision.attempts[next].urls, Only)
    <3>1. decision.attempts \in Seq(Attempt)
      BY DEF Reachable
    <3>2. next \in DOMAIN decision.attempts
      BY <2>1, <3>1
    <3>3. decision.attempts[next] \in Attempt
      BY <3>1, <3>2
    <3>4. QED
      BY <3>2, <3>3 DEF Attempt, Reachable
  <2>4. Safe(url, Only)
    <3>1. Mirror(c, next) \in DOMAIN decision.attempts[next].urls
      BY <2>1, <2>3 DEF List
    <3>2. QED
      BY <2>3, <3>1 DEF AllSafe
  <2> HIDE DEF url, until
  <2>5. url \in Url
    BY <2>4 DEF Safe
  <2>6. e \in Entry /\ e.url = url
    BY <2>1, <2>5 DEF Entry
  <2> HIDE DEF e
  <2>7. issued' \in Seq(Entry) /\ IssuedSafely'
    BY <2>2, <2>4, <2>6, IssuedSafelyMore DEF Sound, EngineTypeOK
  <2>8. command' \in Command
    BY <2>1, <2>2, <2>5, CommandsAre
  <2>9. EngineTypeOK'
    BY <2>2, <2>7, <2>8 DEF Sound, EngineTypeOK
  <2>10. Reachable(decision'.attempts, Only')
    OBVIOUS
  <2>11. QED
    BY <2>2, <2>7, <2>9, <2>10 DEF Sound, QueryIsHonest, PlanIsReachable
<1>3. QED
  BY <1>1, <1>2 DEF NextAttempt

(* Its answer once known, the version and the response are committed.      *)
LEMMA VersionSound ==
    ASSUME IInv, Sound, NEW now \in Nat, CommitVersion(now),
           UNCHANGED <<Only, query, decision, issued>>, installed' \in BOOLEAN
    PROVE  Sound'
<1> DEFINE activate == decision.activate \/ Held
<1>1. activate \in BOOLEAN
  OBVIOUS
<1>2. /\ phase' = "committed" /\ UNCHANGED finish
      /\ command' = [NoCommand EXCEPT !.type = "commit", !.at = now, !.content = "version",
                                      !.activate = activate, !.reason = "downloaded"]
  BY DEF CommitVersion, Commit, Await
<1> HIDE DEF activate
<1>3. command' \in Command
  BY <1>1, <1>2, CommandsAre
<1>4. EngineTypeOK'
  BY <1>2, <1>3 DEF Sound, EngineTypeOK
<1>5. IssuedSafely'
  BY DEF Sound, IssuedSafely, Safe
<1>6. QED
  BY <1>2, <1>4, <1>5 DEF Sound, QueryIsHonest, PlanIsReachable

(* An event that asks for nothing and answers with a command or the end.   *)
LEMMA QuietSound ==
    ASSUME Sound, UNCHANGED <<Only, query, issued>>, decision' \in Decision, command' \in Command,
           finish' \in Finish \cup {NotFinished}, UNCHANGED installed,
           phase' \in {"sampled", "env", "committed", "done"}
    PROVE  Sound'
<1>1. EngineTypeOK'
  BY DEF Sound, EngineTypeOK
<1>2. IssuedSafely'
  BY DEF Sound, IssuedSafely, Safe
<1>3. QED
  BY <1>1, <1>2 DEF Sound, QueryIsHonest, PlanIsReachable

(* Each event leaves the round sound.                                      *)
LEMMA EventSound ==
    ASSUME IInv, Bounded, QueryCounts, Sound, NEW now \in Nat, Event(now), UNCHANGED world
    PROVE  Sound'
<1>0. /\ round \in Round /\ stored \in NativeConfig /\ EngineTypeOK
      /\ crashHold \in BOOLEAN
  BY DEF IInv, GenerationTypeOK, Sound
<1>1. ASSUME NEW reason \in Reason, NEW activated \in BOOLEAN, End(reason, activated),
             UNCHANGED <<Only, query, issued, installed>>, decision' \in Decision
      PROVE  Sound'
  BY <1>1, CommandsAre, QuietSound DEF End, Finish
<1>2. ASSUME round' = [round EXCEPT !.crashHold = Held]
      PROVE  UNCHANGED Only
  <2>1. round'.config = round.config
    BY <1>0, <1>2 DEF Round
  <2>2. QED
    BY <2>1 DEF Only
<1>3. CASE Start(now)
  <2>1. issued = <<>> /\ UNCHANGED <<query, decision, issued, installed>>
    BY <1>3 DEF Start, QueryCounts
  <2>2. IssuedSafely'
    <3>1. DOMAIN issued' = {}
      BY <2>1
    <3>2. QED
      BY <3>1 DEF IssuedSafely
  <2>3. CASE Await("env", [NoCommand EXCEPT !.type = "collectEnv", !.at = now])
    <3>1. command' \in Command /\ phase' = "env" /\ UNCHANGED finish
      BY <2>3, CommandsAre DEF Await
    <3>2. EngineTypeOK'
      BY <1>0, <2>1, <3>1 DEF EngineTypeOK
    <3>3. QED
      BY <2>2, <3>1, <3>2 DEF Sound, QueryIsHonest, PlanIsReachable
  <2>4. CASE End("rejected", FALSE)
    <3>1. command' \in Command /\ phase' = "done" /\ finish' \in Finish
      BY <2>4, CommandsAre DEF End, Finish, Reason
    <3>2. EngineTypeOK'
      BY <1>0, <2>1, <3>1 DEF EngineTypeOK
    <3>3. QED
      BY <2>2, <3>1, <3>2 DEF Sound, QueryIsHonest, PlanIsReachable
  <2>5. QED
    BY <1>3, <2>3, <2>4 DEF Start
<1>4. CASE Abort(now)
  <2>1. /\ UNCHANGED <<round, query, decision, issued, installed>>
        /\ End("internal_error", FALSE)
    BY <1>4 DEF Abort
  <2>2. UNCHANGED Only
    BY <2>1 DEF Only
  <2>3. QED
    BY <1>0, <1>1, <2>1, <2>2 DEF EngineTypeOK, Reason
<1>5. ASSUME NEW origin \in BOOLEAN, OnEnv(now, origin)
      PROVE  Sound'
  <2>1. UNCHANGED <<decision, installed>> /\ round' = [round EXCEPT !.origin = origin, !.crashHold = Held]
    BY <1>5 DEF OnEnv
  <2>2. round'.config = round.config
    BY <1>0, <2>1 DEF Round
  <2>3. UNCHANGED Only
    BY <2>2 DEF Only
  <2>4. PICK endpoints \in OrderEndpointCandidates(round.config.endpoints) :
           QueryNext(now, FirstQuery(round.config, endpoints))
    BY <1>5 DEF OnEnv
  <2>5. round.config.endpoints \in List /\ round.config.queryUrls \in List
    <3>1. round.config \in NativeConfig
      BY <1>0 DEF Round
    <3>2. QED
      BY <3>1, RoundAssumption
  <2>6. endpoints \in List
        /\ \A i \in DOMAIN endpoints : endpoints[i] \in Contents(round.config.endpoints) \ {NoUrl}
    BY <2>4, <2>5, OrderingIs
  <2>7. Only => AllSafe(endpoints, Only)
    BY <2>6 DEF Only, IsHttpsOnly, Contents, AllSafe, Safe
  <2> DEFINE at == FirstQuery(round.config, endpoints)
  <2>8. /\ at \in Query /\ at.list = "endpoints" /\ at.httpsOnly = Only
        /\ at.endpoints = endpoints
    <3>1. <<>> \in List
      <4>1. ASSUME NEW X PROVE <<>> \in Seq(X)
        OBVIOUS
      <4>2. QED
        BY <4>1 DEF List
    <3>2. Only \in BOOLEAN
      BY DEF Only, IsHttpsOnly
    <3>3. at = [NoQuery EXCEPT !.list = "endpoints", !.endpoints = endpoints,
                               !.queryUrls = round.config.queryUrls, !.httpsOnly = Only]
      BY DEF FirstQuery, Only
    <3> HIDE DEF at
    <3>4. QED
      BY <2>5, <2>6, <3>1, <3>2, <3>3 DEF NoQuery, Query
  <2>9. Honest(at, Only)
    BY <2>7, <2>8 DEF Honest
  <2> HIDE DEF at
  <2>10. QED
    BY <2>1, <2>3, <2>4, <2>9, QuerySound DEF at
<1>6. ASSUME NEW reply \in {Failed} \cup Answers \cup Listings, OnHttp(now, reply)
      PROVE  Sound'
  <2>1. UNCHANGED <<Only, installed>> /\ Honest(query, Only)
    BY <1>2, <1>6 DEF OnHttp, Sound, QueryIsHonest
  <2>2. CASE Found(query, reply) /\ Respond(now, reply.response)
    <3>1. reply.response \in Response
      BY <2>2 DEF Found, Failed, Answers, Listings
    <3> DEFINE response == reply.response
    <3>2. /\ response.attempts \in Seq(Attempt) /\ response.activate \in BOOLEAN
          /\ OneFull(response.attempts)
      BY <3>1, RoundAssumption DEF OneFull
    <3>3. query' = NoQuery /\ UNCHANGED issued
      BY <2>2 DEF Respond
    <3>4. query' \in Query
      <4>1. ASSUME NEW X PROVE <<>> \in Seq(X)
        OBVIOUS
      <4>2. QED
        BY <3>3, <4>1 DEF NoQuery, Query, List
    <3>5. IssuedSafely'
      BY <2>1, <3>3 DEF Sound, IssuedSafely, Safe
    <3>6. CASE Commit(now, "response", FALSE, "none") /\ UNCHANGED decision
      <4>1. command' \in Command /\ phase' = "committed" /\ UNCHANGED finish
        BY <3>6, CommandsAre DEF Commit, Await
      <4>2. EngineTypeOK'
        BY <1>0, <2>1, <3>3, <3>4, <3>6, <4>1 DEF EngineTypeOK
      <4>3. QED
        BY <3>5, <4>1, <4>2 DEF Sound, QueryIsHonest, PlanIsReachable
    <3>7. CASE End("invalid_response", FALSE) /\ UNCHANGED decision
      <4>1. command' \in Command /\ phase' = "done" /\ finish' \in Finish
        BY <3>7, CommandsAre DEF End, Finish, Reason
      <4>2. EngineTypeOK'
        BY <1>0, <2>1, <3>3, <3>4, <3>7, <4>1 DEF EngineTypeOK
      <4>3. QED
        BY <3>5, <4>1, <4>2 DEF Sound, QueryIsHonest, PlanIsReachable
    <3>8. CASE /\ decision' = [attempts |-> PlanAttempts(response.attempts),
                               activate |-> response.activate]
               /\ Await("installed", [NoCommand EXCEPT !.type = "checkInstalled", !.at = now])
      <4>1. command' \in Command /\ phase' = "installed" /\ UNCHANGED finish
        BY <3>8, CommandsAre DEF Await
      <4> DEFINE plan == PlanAttempts(response.attempts)
                 activate == response.activate
      <4>2. Reachable(plan, Only) /\ activate \in BOOLEAN
        BY <3>2, PlanIs
      <4>3. decision' = [attempts |-> plan, activate |-> activate]
        BY <3>8
      <4> HIDE DEF plan, activate, response
      <4>4. decision' \in Decision /\ decision'.attempts = plan
        BY <4>2, <4>3 DEF Decision, Reachable
      <4>5. EngineTypeOK'
        BY <1>0, <2>1, <3>3, <3>4, <4>1, <4>4 DEF EngineTypeOK
      <4>6. Reachable(decision'.attempts, Only')
        BY <2>1, <4>2, <4>4
      <4>7. QED
        BY <3>5, <4>1, <4>5, <4>6 DEF Sound, QueryIsHonest, PlanIsReachable
    <3>9. QED
      BY <2>2, <3>6, <3>7, <3>8 DEF Respond
  <2>3. CASE QueryNext(now, Answered(query, reply)) /\ UNCHANGED decision
    <3> DEFINE at == Answered(query, reply)
    <3>1. /\ query \in Query /\ query.list # "over" /\ query.httpsOnly = Only
          /\ Only => AllSafe(query.endpoints, Only)
      BY <2>1 DEF Honest
    <3>2. ~Post(query) /\ reply.kind = "list" => reply.list \in List
      BY RoundAssumption DEF Failed, Answers, Listings
    <3>3. /\ at \in Query /\ at.list # "over" /\ at.httpsOnly = query.httpsOnly
          /\ at.endpoints = query.endpoints
      <4>1. CASE ~Post(query) /\ reply.kind = "list"
        <5> DEFINE l == reply.list
        <5>1. l \in List /\ 0 \in Nat
          BY <3>2, <4>1
        <5>2. at = [query EXCEPT !.url = NoUrl, !.list = "remote", !.remote = l, !.next = 0]
          BY <4>1 DEF Answered
        <5> HIDE DEF l, at
        <5>3. QED
          BY <3>1, <5>1, <5>2 DEF Query
      <4>2. CASE ~(~Post(query) /\ reply.kind = "list")
        <5>1. at = [query EXCEPT !.url = NoUrl]
          BY <4>2 DEF Answered
        <5> HIDE DEF at
        <5>2. QED
          BY <3>1, <5>1 DEF Query
      <4>3. QED
        BY <4>1, <4>2
    <3>4. Honest(at, Only)
      BY <3>1, <3>3 DEF Honest
    <3> HIDE DEF at
    <3>5. QED
      BY <2>1, <2>3, <3>4, QuerySound DEF at
  <2>4. QED
    BY <1>6, <2>2, <2>3 DEF OnHttp
<1>7. ASSUME NEW complete \in BOOLEAN, OnInstalled(now, complete)
      PROVE  Sound'
  <2>1. /\ UNCHANGED <<Only, query, decision>> /\ installed' \in BOOLEAN
        /\ Reachable(decision.attempts, Only)
    BY <1>2, <1>7 DEF OnInstalled, Sound, PlanIsReachable
  <2>2. CASE CommitVersion(now) /\ UNCHANGED issued
    BY <2>1, <2>2, VersionSound
  <2> DEFINE c == [FirstAttempt EXCEPT !.incremental = DeadlineIn(now, DownloadPhase)]
  <2>3. CASE NextAttempt(now, c)
    <3>1. c \in Cursor
      BY <1>0, DeadlineInIs, TimesAreNumbers DEF FirstAttempt, Cursor
    <3> HIDE DEF c
    <3>2. QED
      BY <2>1, <2>3, <3>1, AttemptSound
  <2>4. QED
    BY <1>7, <2>2, <2>3 DEF OnInstalled
<1>8. ASSUME NEW outcome \in {"ok", "unreachable", "notApplied", "timedOut"},
             OnDownload(now, outcome)
      PROVE  Sound'
  <2>1. /\ UNCHANGED <<Only, query, decision>> /\ installed' \in BOOLEAN
        /\ Reachable(decision.attempts, Only)
    BY <1>2, <1>8 DEF OnDownload, Sound, PlanIsReachable
  <2>2. CASE CommitVersion(now) /\ UNCHANGED issued
    BY <2>1, <2>2, VersionSound
  <2>3. CASE outcome # "ok" /\ NextAttempt(now, AfterFailure(outcome))
    <3>1. AfterFailure(outcome) \in Cursor
      BY <2>3, AfterFailureIs DEF Bounded
    <3>2. QED
      BY <2>1, <2>3, <3>1, AttemptSound
  <2>4. QED
    BY <1>8, <2>2, <2>3 DEF OnDownload
<1>9. ASSUME NEW error \in BOOLEAN, OnCommitted(now, error)
      PROVE  Sound'
  <2>1. UNCHANGED <<Only, query, decision, issued, installed>>
    BY <1>2, <1>9 DEF OnCommitted
  <2>2. command.reason \in Reason /\ command.activate \in BOOLEAN
    BY <1>0 DEF EngineTypeOK, Command, Reason
  <2>3. \E reason \in Reason : \E activated \in BOOLEAN : End(reason, activated)
    BY <1>9, <2>2 DEF OnCommitted, Reason
  <2>4. QED
    BY <1>0, <1>1, <2>1, <2>3 DEF EngineTypeOK
<1>10. QED
  BY <1>3, <1>4, <1>5, <1>6, <1>7, <1>8, <1>9 DEF Event

-----------------------------------------------------------------------------
(* Without a deadline: until the cursor has opened the full strategy's     *)
(* window that strategy is still ahead of it, and then it was tried.       *)
FullIsToCome(c) ==
    IF c.full = 0 THEN \A i \in Full : i > c.attempt \/ (i = c.attempt /\ c.url = 1)
    ELSE \A i \in Full : Tried(i) # {}

(* The window of the full package is what is left when it is asked.        *)
LastResort ==
    /\ FullDownloadHasItsWindow
    /\ command.reason = "download_failed" => phase = "committed"
    /\ phase = "download" =>
         /\ cursor.attempt \in DOMAIN decision.attempts
         /\ round.deadline = NoDeadline =>
              IF cursor.full = 0 THEN \A i \in Full : i > cursor.attempt
              ELSE \A i \in Full : Tried(i) # {}

(* What was asked before stays asked.                                      *)
LEMMA TriedMore ==
    ASSUME issued \in Seq(Entry), NEW n \in Nat, NEW url,
           issued' = Append(issued, [type |-> "download", attempt |-> n, url |-> url])
    PROVE  /\ \A i : Tried(i) \subseteq Tried(i)'
           /\ Tried(n)' # {}
           /\ Tried(n) # {} => Cardinality(Tried(n)') # 1
<1> DEFINE e == [type |-> "download", attempt |-> n, url |-> url]
           m == Len(issued) + 1
<1>1. issued' = Append(issued, e) /\ e.type = "download" /\ e.attempt = n
  OBVIOUS
<1> HIDE DEF e
<1>2. /\ m \in DOMAIN issued' /\ issued'[m] = e /\ m \notin DOMAIN issued
      /\ \A i \in DOMAIN issued : i \in DOMAIN issued' /\ issued'[i] = issued[i]
  BY <1>1
<1> HIDE DEF m
<1>3. ASSUME NEW i
      PROVE  Tried(i) \subseteq Tried(i)'
  BY <1>2 DEF Tried, Asked
<1>4. m \in Tried(n)' /\ m \notin Tried(n)
  BY <1>1, <1>2 DEF Tried, Asked
<1>5. ASSUME Tried(n) # {}, Cardinality(Tried(n)') = 1
      PROVE  FALSE
  <2>1. PICK k \in Tried(n) : TRUE
    BY <1>5
  <2>2. k \in Tried(n)' /\ m \in Tried(n)' /\ k # m
    BY <1>3, <1>4, <2>1
  <2>3. Len(issued') \in Nat /\ DOMAIN issued' = 1..Len(issued')
    BY <1>1
  <2>4. Tried(n)' \in SUBSET (1..Len(issued'))
    BY <2>3 DEF Tried, Asked
  <2> DEFINE all == 1..Len(issued')
             tried == Tried(n)'
  <2>5. IsFiniteSet(tried)
    <3>1. IsFiniteSet(all)
      <4>1. 1 \in Int /\ Len(issued') \in Int
        BY <2>3
      <4>2. QED
        BY <4>1, FS_Interval
    <3>2. tried \in SUBSET all
      BY <2>4
    <3> HIDE DEF all, tried
    <3>3. QED
      BY <3>1, <3>2, FS_Subset
  <2>6. PICK x : Tried(n)' = {x}
    BY <1>5, <2>5, FS_Singleton
  <2>7. QED
    BY <2>2, <2>6
<1>6. QED
  BY <1>3, <1>4, <1>5

(* An event after which nothing is downloaded and nothing given up.        *)
LEMMA QuietLastResort ==
    ASSUME phase' # "download", command'.type # "download", command'.reason # "download_failed"
    PROVE  LastResort'
BY DEF LastResort, FullDownloadHasItsWindow

(* The next mirror, or the end of the version's downloads.                 *)
LEMMA AttemptLastResort ==
    ASSUME IInv, Sound, NEW now \in Nat, NEW c \in Cursor, NextAttempt(now, c),
           Reachable(decision.attempts, Only),
           UNCHANGED <<decision, round.deadline>>,
           round.deadline = NoDeadline => FullIsToCome(c)
    PROVE  LastResort'
<1>0. /\ round \in Round /\ issued \in Seq(Entry) /\ DownloadPhase \in Nat \ {0}
      /\ Len(decision.attempts) \in Nat /\ DOMAIN decision.attempts = 1..Len(decision.attempts)
      /\ c.attempt \in Nat \ {0}
      /\ UNCHANGED Full
  BY TimesAreNumbers DEF IInv, GenerationTypeOK, Sound, EngineTypeOK, Reachable, Cursor, Full
<1>1. ASSUME round.deadline = NoDeadline, c.full = 0, NEW i \in Full
      PROVE  i \in Open(now, c)
  <2>1. /\ i \in 1..Len(decision.attempts) /\ i \in Nat /\ decision.attempts[i].type = "full"
        /\ i > c.attempt \/ (i = c.attempt /\ c.url = 1)
    BY <1>0, <1>1 DEF FullIsToCome, Full
  <2>2. i \in c.attempt..Len(decision.attempts) /\ Mirror(c, i) = 1
    BY <1>0, <2>1 DEF Mirror
  <2>3. Limit(now, c, i) > now
    BY <1>0, <1>1, <2>1 DEF Limit, IsFull, FullWindow, DeadlineIn
  <2>4. 1 <= Len(decision.attempts[i].urls)
    <3>1. decision.attempts[i] \in Attempt /\ decision.attempts[i].urls # <<>>
      BY <1>0, <2>1 DEF Reachable
    <3>2. decision.attempts[i].urls \in List
      BY <3>1 DEF Attempt
    <3>3. QED
      BY <3>1, <3>2 DEF List
  <2>5. QED
    BY <2>2, <2>3, <2>4 DEF Open
<1>2. CASE Open(now, c) = {} /\ Commit(now, "response", FALSE, "download_failed") /\ UNCHANGED issued
  <2>1. phase' = "committed" /\ command'.type = "commit"
    BY <1>2 DEF Commit, Await, NoCommand
  <2>2. round.deadline = NoDeadline => \A i \in Full : Tried(i) # {}
    BY <1>1, <1>2 DEF FullIsToCome
  <2>3. \A i : Tried(i)' = Tried(i)
    BY <1>2 DEF Tried, Asked
  <2>4. QED
    BY <1>0, <2>1, <2>2, <2>3 DEF LastResort, FullDownloadHasItsWindow
<1>3. CASE Open(now, c) # {} /\ Download(now, c, Min(Open(now, c)))
  <2>0. PICK next : next = Min(Open(now, c))
    OBVIOUS
  <2>1. /\ next \in Nat \ {0} /\ next <= Len(decision.attempts) /\ next \in Open(now, c)
        /\ \A i \in Open(now, c) : next <= i
        /\ FullWindow(now, c) \in Nat
        /\ Mirror(c, next) \in Nat \ {0}
    BY <1>0, <1>3, <2>0, OpenIs
  <2>2. PICK url :
        /\ phase' = "download"
        /\ command' = [NoCommand EXCEPT !.type = "download", !.url = url, !.attempt = next,
                                        !.at = now, !.until = Limit(now, c, next)]
        /\ issued' = Append(issued, [type |-> "download", attempt |-> next, url |-> url])
        /\ cursor' = [c EXCEPT !.attempt = next, !.url = Mirror(c, next),
                               !.full = IF IsFull(next) THEN FullWindow(now, c) ELSE @]
    BY <1>3, <2>0 DEF Download, Await
  <2>3. /\ \A i : Tried(i) \subseteq Tried(i)'
        /\ Tried(next)' # {}
        /\ Tried(next) # {} => Cardinality(Tried(next)') # 1
    BY <1>0, <2>1, <2>2, TriedMore
  <2>4. /\ command'.type = "download" /\ command'.attempt = next /\ command'.at = now
        /\ command'.until = Limit(now, c, next) /\ command'.reason = "none"
    BY <2>2 DEF NoCommand
  <2>5. /\ cursor'.attempt = next
        /\ cursor'.full = IF IsFull(next) THEN FullWindow(now, c) ELSE c.full
    <3> DEFINE full == IF IsFull(next) THEN FullWindow(now, c) ELSE c.full
               mirror == Mirror(c, next)
    <3>1. cursor' = [c EXCEPT !.attempt = next, !.url = mirror, !.full = full]
      BY <2>2 DEF Cursor
    <3> HIDE DEF full, mirror
    <3>2. cursor'.attempt = next /\ cursor'.full = full
      BY <3>1 DEF Cursor
    <3>3. QED
      BY <3>2 DEF full
  <2>6. next \in DOMAIN decision'.attempts
    BY <1>0, <2>1
  <2>7. next \in Full <=> IsFull(next)
    BY <2>6 DEF Full, IsFull
  <2>8. ASSUME round.deadline = NoDeadline
        PROVE  /\ next \in Full /\ Cardinality(Tried(next)') = 1 =>
                     Limit(now, c, next) = now + DownloadPhase
               /\ IF cursor'.full = 0 THEN \A i \in Full : i > next
                  ELSE \A i \in Full : Tried(i)' # {}
    <3>1. CASE c.full # 0
      <4>1. \A i \in Full : Tried(i) # {}
        BY <2>8, <3>1 DEF FullIsToCome
      <4>2. cursor'.full # 0
        BY <2>5, <3>1 DEF FullWindow
      <4>3. QED
        BY <2>3, <4>1, <4>2
    <3>2. CASE c.full = 0 /\ IsFull(next)
      <4>1. Limit(now, c, next) = now + DownloadPhase /\ cursor'.full = now + DownloadPhase
        BY <2>5, <2>8, <3>2 DEF Limit, FullWindow, DeadlineIn
      <4>2. cursor'.full # 0
        BY <1>0, <4>1
      <4>3. \A i \in Full : i = next
        BY <2>6, <2>7, <3>2 DEF Reachable, OneFull, Full
      <4>4. QED
        BY <2>3, <4>1, <4>2, <4>3
    <3>3. CASE c.full = 0 /\ ~IsFull(next)
      <4>1. \A i \in Full : next <= i /\ i # next /\ i \in Nat
        BY <1>0, <1>1, <2>1, <2>7, <2>8, <3>3 DEF Full
      <4>2. \A i \in Full : i > next
        BY <2>1, <4>1
      <4>3. QED
        BY <2>5, <2>7, <3>3, <4>2
    <3>4. QED
      BY <3>1, <3>2, <3>3
  <2>9. FullDownloadHasItsWindow'
    BY <1>0, <2>4, <2>8 DEF FullDownloadHasItsWindow
  <2>10. QED
    BY <1>0, <2>2, <2>4, <2>5, <2>6, <2>8, <2>9 DEF LastResort
<1>4. QED
  BY <1>2, <1>3 DEF NextAttempt

(* A failed download leaves the full strategy ahead, or was one of it.     *)
LEMMA AfterFailureKeepsFull ==
    ASSUME cursor \in Cursor, Sound, phase = "download", LastResort, round.deadline = NoDeadline,
           NEW outcome \in {"unreachable", "notApplied", "timedOut"}
    PROVE  FullIsToCome(AfterFailure(outcome))
<1> DEFINE c == AfterFailure(outcome)
<1>1. /\ cursor.attempt \in Nat \ {0} /\ cursor.attempt \in DOMAIN decision.attempts
      /\ Full \subseteq Nat
  BY DEF Cursor, LastResort, Sound, PlanIsReachable, Reachable, Full
<1>2. c.full = cursor.full
  BY AfterFailureIs
<1>3. CASE cursor.full # 0
  BY <1>2, <1>3 DEF LastResort, FullIsToCome
<1>4. CASE cursor.full = 0
  <2>1. \A i \in Full : i > cursor.attempt
    BY <1>4 DEF LastResort
  <2>2. cursor.attempt \notin Full
    BY <1>1, <2>1
  <2>3. decision.attempts[cursor.attempt].type # "full"
    BY <1>1, <2>2 DEF Full
  <2>4. CASE outcome = "unreachable"
    <3>1. c.attempt = cursor.attempt
      BY <2>4, AfterFailureIs
    <3>2. QED
      BY <1>2, <1>4, <2>1, <3>1 DEF FullIsToCome
  <2>5. CASE outcome # "unreachable"
    <3> DEFINE n == cursor.attempt + 1
    <3>1. c = [cursor EXCEPT !.attempt = n, !.url = 1]
      BY <2>3, <2>5 DEF AfterFailure
    <3> HIDE DEF c, n
    <3>2. c.attempt = n /\ c.url = 1
      BY <3>1 DEF Cursor
    <3>3. \A i \in Full : i > n \/ i = n
      BY <1>1, <2>1 DEF n
    <3>4. FullIsToCome(c)
      BY <1>2, <1>4, <3>2, <3>3 DEF FullIsToCome
    <3>5. QED
      BY <3>4 DEF c
  <2>6. QED
    BY <2>4, <2>5
<1>5. QED
  BY <1>3, <1>4

(* Each event leaves the full package its window, or has given it one.     *)
LEMMA EventLastResort ==
    ASSUME IInv, Bounded, Sound, LastResort, NEW now \in Nat, Event(now), UNCHANGED world
    PROVE  LastResort'
<1>0. round \in Round /\ cursor \in Cursor
  BY DEF IInv, GenerationTypeOK, Bounded
<1>1. ASSUME NEW reason, NEW activated, End(reason, activated)
      PROVE  LastResort'
  BY <1>1, QuietLastResort DEF End, NoCommand
<1>2. ASSUME NEW content, NEW activate, NEW reason \in {"none", "downloaded"},
             Commit(now, content, activate, reason)
      PROVE  LastResort'
  BY <1>2, QuietLastResort DEF Commit, Await, NoCommand
<1>3. ASSUME NEW at, QueryNext(now, at)
      PROVE  LastResort'
  <2>1. CASE End("check_failed", FALSE)
    BY <1>1, <2>1
  <2>2. ASSUME NEW url,
               Await("http", [NoCommand EXCEPT !.type = "http", !.url = url, !.at = now,
                                               !.until = now + Within(now, QueryCall)])
        PROVE  LastResort'
    BY <2>2, QuietLastResort DEF Await, NoCommand
  <2>3. QED
    BY <1>3, <2>1, <2>2 DEF QueryNext
<1>4. CASE Start(now)
  <2>1. CASE Await("env", [NoCommand EXCEPT !.type = "collectEnv", !.at = now])
    BY <2>1, QuietLastResort DEF Await, NoCommand
  <2>2. QED
    BY <1>1, <1>4, <2>1 DEF Start
<1>5. CASE Abort(now)
  BY <1>1, <1>5 DEF Abort
<1>6. ASSUME NEW origin \in BOOLEAN, OnEnv(now, origin)
      PROVE  LastResort'
  BY <1>3, <1>6 DEF OnEnv
<1>7. ASSUME NEW reply, OnHttp(now, reply)
      PROVE  LastResort'
  <2>1. CASE Respond(now, reply.response)
    <3>1. CASE Await("installed", [NoCommand EXCEPT !.type = "checkInstalled", !.at = now])
      BY <3>1, QuietLastResort DEF Await, NoCommand
    <3>2. QED
      BY <1>1, <1>2, <2>1, <3>1 DEF Respond
  <2>2. CASE QueryNext(now, Answered(query, reply))
    BY <1>3, <2>2
  <2>3. QED
    BY <1>7, <2>1, <2>2 DEF OnHttp
<1>8. ASSUME round' = [round EXCEPT !.crashHold = Held]
      PROVE  UNCHANGED round.deadline
  BY <1>0, <1>8 DEF Round
<1>9. ASSUME NEW complete \in BOOLEAN, OnInstalled(now, complete)
      PROVE  LastResort'
  <2>1. /\ UNCHANGED <<decision, round.deadline>> /\ Reachable(decision.attempts, Only)
    BY <1>8, <1>9 DEF OnInstalled, Sound, PlanIsReachable
  <2>2. CASE CommitVersion(now)
    BY <1>2, <2>2 DEF CommitVersion
  <2> DEFINE opening == DeadlineIn(now, DownloadPhase)
             c == [FirstAttempt EXCEPT !.incremental = opening]
  <2>3. CASE NextAttempt(now, c)
    <3>1. opening \in Nat
      BY <1>0, DeadlineInIs, TimesAreNumbers
    <3> HIDE DEF opening
    <3>2. c \in Cursor /\ c.full = 0 /\ c.attempt = 1 /\ c.url = 1
      BY <3>1 DEF FirstAttempt, Cursor
    <3>3. \A i \in Full : i > 1 \/ i = 1
      BY <2>1 DEF Full, Reachable
    <3> HIDE DEF c
    <3>4. FullIsToCome(c)
      BY <3>2, <3>3 DEF FullIsToCome
    <3>5. QED
      BY <2>1, <2>3, <3>2, <3>4, AttemptLastResort
  <2>4. QED
    BY <1>9, <2>2, <2>3 DEF OnInstalled
<1>10. ASSUME NEW outcome \in {"ok", "unreachable", "notApplied", "timedOut"},
              OnDownload(now, outcome)
       PROVE  LastResort'
  <2>1. /\ UNCHANGED <<decision, round.deadline>> /\ Reachable(decision.attempts, Only)
        /\ phase = "download"
    BY <1>8, <1>10 DEF OnDownload, Sound, PlanIsReachable
  <2>2. CASE CommitVersion(now)
    BY <1>2, <2>2 DEF CommitVersion
  <2> DEFINE c == AfterFailure(outcome)
  <2>3. CASE outcome # "ok" /\ NextAttempt(now, c)
    <3>1. c \in Cursor /\ (round.deadline = NoDeadline => FullIsToCome(c))
      BY <1>0, <2>1, <2>3, AfterFailureIs, AfterFailureKeepsFull
    <3> HIDE DEF c
    <3>2. QED
      BY <2>1, <2>3, <3>1, AttemptLastResort
  <2>4. QED
    BY <1>10, <2>2, <2>3 DEF OnDownload
<1>11. ASSUME NEW error \in BOOLEAN, OnCommitted(now, error)
       PROVE  LastResort'
  BY <1>1, <1>11 DEF OnCommitted
<1>12. QED
  BY <1>4, <1>5, <1>6, <1>7, <1>9, <1>10, <1>11 DEF Event

-----------------------------------------------------------------------------
(* All that a round keeps; no part of it is inductive without the others.  *)
RInv == IInv /\ Bounded /\ QueryCounts /\ Sound /\ LastResort

(* The whole invariant holds of every reachable state.                     *)
LEMMA RoundInvariance == Spec => []RInv
<1>1. Init => Sound /\ LastResort
  <2> SUFFICES ASSUME Init PROVE Sound /\ LastResort
    OBVIOUS
  <2>1. ASSUME NEW X PROVE <<>> \in Seq(X)
    OBVIOUS
  <2>2. NoQuery \in Query /\ NoDecision \in Decision /\ NoCommand \in Command
    <3>1. <<>> \in List /\ <<>> \in Seq(Attempt)
      BY <2>1 DEF List
    <3>2. NoQuery \in Query
      BY <3>1 DEF NoQuery, Query
    <3>3. NoDecision \in Decision
      BY <3>1 DEF NoDecision, Decision
    <3>4. NoCommand \in Command
      BY DEF NoCommand, Command
    <3>5. QED
      BY <3>2, <3>3, <3>4
  <2>3. EngineTypeOK
    BY <2>1, <2>2 DEF Init, EngineTypeOK
  <2>4. IssuedSafely
    <3>1. DOMAIN issued = {}
      BY DEF Init
    <3>2. QED
      BY <3>1 DEF IssuedSafely
  <2>5. QueryIsHonest /\ PlanIsReachable
    BY DEF Init, QueryIsHonest, PlanIsReachable
  <2>6. LastResort
    BY DEF Init, LastResort, FullDownloadHasItsWindow, NoCommand
  <2>7. QED
    BY <2>3, <2>4, <2>5, <2>6 DEF Sound
<1>2. IInv /\ Bounded /\ QueryCounts /\ Sound /\ LastResort /\ [Next]_vars => Sound' /\ LastResort'
  <2> SUFFICES ASSUME IInv, Bounded, QueryCounts, Sound, LastResort, [Next]_vars
               PROVE  Sound' /\ LastResort'
    OBVIOUS
  <2>1. CASE Sample
    <3>1. /\ UNCHANGED <<query, decision, command, finish, issued, installed>>
          /\ phase = "idle" /\ phase' = "sampled" /\ issued = <<>>
      BY <2>1 DEF Sample, QueryCounts
    <3>2. command.type = "none" /\ command.reason # "download_failed"
      BY <3>1 DEF Bounded, CursorMovesOn, LastResort
    <3>3. LastResort'
      BY <3>1, <3>2, QuietLastResort
    <3>4. IssuedSafely'
      <4>1. DOMAIN issued' = {}
        BY <3>1
      <4>2. QED
        BY <4>1 DEF IssuedSafely
    <3>5. EngineTypeOK'
      BY <3>1 DEF Sound, EngineTypeOK
    <3>6. QED
      BY <3>1, <3>3, <3>4, <3>5 DEF Sound, QueryIsHonest, PlanIsReachable
  <2>2. CASE Step
    <3>1. PICK now \in clock..MaxClock : clock' = now /\ Event(now)
      BY <2>2 DEF Step
    <3>2. now \in Nat /\ UNCHANGED world
      BY <2>2, <3>1 DEF Bounded, Step
    <3>3. QED
      BY <3>1, <3>2, EventSound, EventLastResort
  <2>3. CASE World \/ UNCHANGED vars
    <3>1. UNCHANGED <<engine, issued, installed>>
      BY <2>3 DEF World, vars
    <3>2. UNCHANGED <<phase, round, query, decision, cursor, command, finish, Only, Full>>
          /\ \A i : Tried(i)' = Tried(i)
      BY <3>1 DEF engine, Only, Full, Tried, Asked
    <3>3. EngineTypeOK'
      BY <3>1, <3>2 DEF Sound, EngineTypeOK
    <3>4. IssuedSafely'
      BY <3>1, <3>2 DEF Sound, IssuedSafely, Safe
    <3>5. QueryIsHonest' /\ PlanIsReachable'
      <4>1. Honest(query', Only') <=> Honest(query, Only)
        BY <3>2
      <4>2. Reachable(decision'.attempts, Only') <=> Reachable(decision.attempts, Only)
        BY <3>2
      <4>3. QED
        BY <3>2, <4>1, <4>2 DEF Sound, QueryIsHonest, PlanIsReachable
    <3>6. LastResort'
      BY <3>1, <3>2 DEF LastResort, FullDownloadHasItsWindow
    <3>7. QED
      BY <3>3, <3>4, <3>5, <3>6 DEF Sound
  <2>4. QED
    BY <2>1, <2>2, <2>3 DEF Next
<1>3. QED
  BY <1>1, <1>2, InitIInv, NextIInv, BoundedInvariance, QueryCountsInvariance, PTL DEF Spec, RInv

(* Every state of a round is one of its types (RoundEngine's members).     *)
THEOREM RoundTypeCorrect == Spec => []TypeOK
<1>1. RInv => TypeOK
  <2> SUFFICES ASSUME RInv PROVE TypeOK
    OBVIOUS
  <2>1. GenerationTypeOK /\ EngineTypeOK
    BY DEF RInv, IInv, Sound
  <2>2. clock \in Nat /\ cursor \in Cursor /\ spoiled \subseteq Nat
    BY DEF RInv, Bounded, CursorMovesOn
  <2>3. QED
    BY <2>1, <2>2 DEF TypeOK, GenerationTypeOK, EngineTypeOK, Entry
<1>2. QED
  BY <1>1, RoundInvariance, PTL

(* Whatever a fetched list names and whatever a response offers, a round   *)
(* whose endpoints are all https posts to nothing and downloads nothing in *)
(* clear (NextQueryStep, PlanAttempts).                                    *)
THEOREM RoundStaysOnHttps == Spec => []StaysOnHttps
<1>1. RInv => StaysOnHttps
  BY DEF RInv, Sound, IssuedSafely, Safe, Only, StaysOnHttps, Asked
<1>2. QED
  BY <1>1, RoundInvariance, PTL

(* For every response and every order of failures, a round has at most its *)
(* requests, starts nothing it cannot end in time, and, without a deadline,*)
(* gives up on a version only after its full package was tried with a      *)
(* whole window (NextQueryStep, Within, NextAttempt).                      *)
THEOREM RoundAlwaysBounded == Spec => []RoundIsBounded
<1>1. RInv => FullDownloadHasItsWindow
  BY DEF RInv, LastResort
<1>2. QED
  BY <1>1, RoundInvariance, QueriesStayBounded, RoundKeepsItsDeadline, PTL DEF RoundIsBounded

==============================================================================
