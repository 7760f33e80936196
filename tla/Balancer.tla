------------------------------ MODULE Balancer ------------------------------
(***************************************************************************)
(* The lock-free health state machine of one backend                       *)
(* (internal/balancer/balancer.go): ReportError, ReportSuccess and usable  *)
(* (with windowConfirm) run concurrently on relay, receive-loop, prober and *)
(* admin goroutines over six atomics; a reload of the listener seeds the   *)
(* backend's gauge anew and swaps the thresholds.  Backends do not share   *)
(* state, so one is enough; it stays in the pool of a listener that runs.  *)
(*                                                                         *)
(* Each step is one atomic operation of a call.  Abstracted: timestamps to *)
(* whether a Cooldown has passed since ("fresh" or "old"; "none" is the    *)
(* stamp 0), the counters to their value up to the threshold they are      *)
(* compared with, error sources to whether they may confirm a down.        *)
(***************************************************************************)
EXTENDS Integers, FiniteSets

CONSTANTS Thread, \* goroutines that call into the balancer
          Falls, Rises, \* the thresholds of the configurations
          Fall, Rise    \* bounds: the counters are kept up to these

ASSUME ThreadAssumption == IsFiniteSet(Thread) \* those that exist at a time
ASSUME ThresholdsAssumption == /\ Fall \in Nat /\ Falls \subseteq 1..Fall /\ Falls # {}
                               /\ Rise \in Nat /\ Rises \subseteq 1..Rise /\ Rises # {}

VARIABLES
  healthy, errCount, successCount, suspectSince, downSince, downConfirm,
  active, fall, rise, \* Options: ActiveChecks, Fall, Rise
  gauge,    \* udpshunt_backend_healthy
  call,     \* per thread: the next step of its call (at), the source of the
            \* error it reports (src), whether that completed a streak (fell),
            \* ActiveChecks and the threshold as it loaded them (act, need),
            \* the transition it is to fire (event), whether it is the reload
            \* that seeds the gauge (seeds) and with which health (read)
  net,      \* history: downs minus recoveries delivered to the callback
  accused,  \* history: a probe failed, or a suspicion outlasted the cooldown
  good      \* history: consecutive successes reported, up to Rise

backendVars == <<healthy, errCount, successCount, suspectSince, downSince, downConfirm>>
optVars == <<active, fall, rise>>
historyVars == <<net, accused, good>>
vars == <<backendVars, optVars, gauge, call, historyVars>>

Sources == {"probe", "traffic"}
Events  == {"None", "Suspect", "Cleared", "Down", "Recovered"}
Stamps  == {"fresh", "old"}
PCs == {"idle", "err_count", "err_reset", "err_health", "err_stamp", "err_suspect",
        "err_meta", "err_flip", "err_unstamp",
        "ok_health", "ok_errors", "ok_clear", "ok_count", "ok_zero", "ok_flip",
        "use_health", "use_stamp", "use_meta", "use_flip", "use_unstamp",
        "use_since", "use_zero", "use_recover", "seed_load", "fire", "seed", "set_health"}

Least(a, b) == IF a < b THEN a ELSE b

Idle == [at |-> "idle", src |-> "traffic", fell |-> FALSE, act |-> FALSE,
         need |-> 0, event |-> "None", seeds |-> FALSE, read |-> FALSE]

\* The call goes on at step l; what it loaded is kept, or not needed any more.
Goto(t, l)  == call' = [call EXCEPT ![t].at = l]
Enter(t, l) == call' = [call EXCEPT ![t] = [Idle EXCEPT !.at = l, !.seeds = call[t].seeds]]
Return(t)   == call' = [call EXCEPT ![t] = Idle]
\* After usable, and before its transitions are fired, the reload's Snapshot
\* loads the health it returns.
After(t)    == IF call[t].seeds THEN "seed_load" ELSE "idle"
\* The call goes on to fire the callback with the transition e.
Fire(t, e)  == call' = [call EXCEPT ![t] = [Idle EXCEPT
                  !.at = IF call[t].seeds THEN "seed_load" ELSE "fire",
                  !.event = e, !.seeds = call[t].seeds]]

Init ==
  /\ healthy = TRUE /\ errCount = 0 /\ successCount = 0
  /\ suspectSince = "none" /\ downSince = "old" /\ downConfirm = "none"
  /\ active \in BOOLEAN /\ fall \in Falls /\ rise \in Rises
  /\ gauge = TRUE
  /\ call = [t \in Thread |-> Idle]
  /\ net = 0 /\ accused = FALSE /\ good = 0

-----------------------------------------------------------------------------
(* ReportError *)

\* The options are loaded once, before the error is counted.
ErrorBegin(t, s) ==
  /\ call[t].at = "idle"
  /\ call' = [call EXCEPT ![t] = [Idle EXCEPT !.at = "err_count", !.src = s, !.need = fall]]
  /\ accused' = (accused \/ s = "probe")
  /\ good' = 0
  /\ UNCHANGED <<backendVars, optVars, gauge, net>>

ErrorCount(t) ==
  /\ call[t].at = "err_count"
  /\ errCount' = Least(errCount + 1, Fall)
  /\ call' = [call EXCEPT ![t] = [Idle EXCEPT !.at = "err_reset", !.src = call[t].src,
                                             !.fell = errCount + 1 >= call[t].need]]
  /\ UNCHANGED <<healthy, successCount, suspectSince, downSince, downConfirm,
                 optVars, gauge, historyVars>>

\* Mutant of ErrorReset: an error takes nothing off the streak.
ErrorNoReset(t) ==
  /\ call[t].at = "err_reset"
  /\ Goto(t, "err_health")
  /\ UNCHANGED <<backendVars, optVars, gauge, historyVars>>

ErrorReset(t) ==
  /\ call[t].at = "err_reset"
  /\ successCount' = 0
  /\ Goto(t, "err_health")
  /\ UNCHANGED <<healthy, errCount, suspectSince, downSince, downConfirm,
                 optVars, gauge, historyVars>>

ErrorHealth(t) ==
  /\ call[t].at = "err_health"
  /\ IF healthy THEN Goto(t, "err_stamp") ELSE Return(t)
  /\ UNCHANGED <<backendVars, optVars, gauge, historyVars>>

\* Mutant of MayConfirm: an error of any source confirms the down.
AnyConfirms(s) == TRUE

MayConfirm(s) == s = "probe"

\* A streak raises a suspicion; while suspect, only the prober goes on.
ErrorStamp(t) ==
  /\ call[t].at = "err_stamp"
  /\ Enter(t, IF suspectSince = "none" /\ call[t].fell THEN "err_suspect"
              ELSE IF suspectSince # "none" /\ MayConfirm(call[t].src) THEN "err_meta"
              ELSE "idle")
  /\ UNCHANGED <<backendVars, optVars, gauge, historyVars>>

\* suspectSince.CompareAndSwap(0, now)
ErrorSuspect(t) ==
  /\ call[t].at = "err_suspect"
  /\ IF suspectSince = "none"
       THEN suspectSince' = "fresh" /\ Fire(t, "Suspect")
       ELSE Return(t) /\ UNCHANGED suspectSince
  /\ UNCHANGED <<healthy, errCount, successCount, downSince, downConfirm,
                 optVars, gauge, historyVars>>

\* The down's metadata lands before the flip.
ErrorMeta(t) ==
  /\ call[t].at = "err_meta"
  /\ downConfirm' = "probe" /\ downSince' = "fresh"
  /\ Goto(t, "err_flip")
  /\ UNCHANGED <<healthy, errCount, successCount, suspectSince,
                 optVars, gauge, historyVars>>

\* Mutant of FlipDown: a store instead of a compare-and-swap.
StoreDown(t, won) ==
  /\ healthy' = FALSE
  /\ Goto(t, won)

\* healthy.CompareAndSwap(true, false); the winner goes on.
FlipDown(t, won) ==
  /\ healthy' = FALSE
  /\ Enter(t, IF healthy THEN won ELSE After(t))

ErrorFlip(t) ==
  /\ call[t].at = "err_flip"
  /\ FlipDown(t, "err_unstamp")
  /\ UNCHANGED <<errCount, successCount, suspectSince, downSince, downConfirm,
                 optVars, gauge, historyVars>>

ErrorUnstamp(t) ==
  /\ call[t].at = "err_unstamp"
  /\ suspectSince' = "none"
  /\ Fire(t, "Down")
  /\ UNCHANGED <<healthy, errCount, successCount, downSince, downConfirm,
                 optVars, gauge, historyVars>>

-----------------------------------------------------------------------------
(* ReportSuccess *)

SuccessBegin(t) ==
  /\ call[t].at = "idle"
  /\ call' = [call EXCEPT ![t] = [Idle EXCEPT !.at = "ok_health", !.act = active, !.need = rise]]
  /\ good' = Least(good + 1, Rise)
  /\ UNCHANGED <<backendVars, optVars, gauge, net, accused>>

SuccessHealth(t) ==
  /\ call[t].at = "ok_health"
  /\ IF healthy THEN Enter(t, "ok_errors")
     ELSE IF call[t].act THEN Goto(t, "ok_count")
     ELSE Return(t)
  /\ UNCHANGED <<backendVars, optVars, gauge, historyVars>>

SuccessErrors(t) ==
  /\ call[t].at = "ok_errors"
  /\ errCount' = 0
  /\ Goto(t, "ok_clear")
  /\ UNCHANGED <<healthy, successCount, suspectSince, downSince, downConfirm,
                 optVars, gauge, historyVars>>

\* suspectSince.Swap(0)
SuccessClear(t) ==
  /\ call[t].at = "ok_clear"
  /\ suspectSince' = "none"
  /\ IF suspectSince # "none"
       THEN Fire(t, "Cleared")
       ELSE Return(t)
  /\ UNCHANGED <<healthy, errCount, successCount, downSince, downConfirm,
                 optVars, gauge, historyVars>>

SuccessCount(t) ==
  /\ call[t].at = "ok_count"
  /\ successCount' = Least(successCount + 1, Rise)
  /\ IF successCount + 1 >= call[t].need THEN Goto(t, "ok_zero") ELSE Return(t)
  /\ UNCHANGED <<healthy, errCount, suspectSince, downSince, downConfirm,
                 optVars, gauge, historyVars>>

\* errCount.Store(0) and successCount.Store(0), before the flip.
SuccessZero(t) ==
  /\ call[t].at = "ok_zero"
  /\ errCount' = 0 /\ successCount' = 0
  /\ Goto(t, "ok_flip")
  /\ UNCHANGED <<healthy, suspectSince, downSince, downConfirm,
                 optVars, gauge, historyVars>>

\* healthy.CompareAndSwap(false, true); the winner fires the recovery.
FlipUp(t) ==
  /\ healthy' = TRUE
  /\ IF healthy THEN Enter(t, After(t)) ELSE Fire(t, "Recovered")

SuccessFlip(t) ==
  /\ call[t].at = "ok_flip"
  /\ FlipUp(t)
  /\ UNCHANGED <<errCount, successCount, suspectSince, downSince, downConfirm,
                 optVars, gauge, historyVars>>

-----------------------------------------------------------------------------
(* usable, on behalf of Pick and Snapshot, with windowConfirm *)

UseBegin(t) ==
  /\ call[t].at = "idle"
  /\ call' = [call EXCEPT ![t] = [Idle EXCEPT !.at = "use_health", !.act = active]]
  /\ UNCHANGED <<backendVars, optVars, gauge, historyVars>>

\* With active checks neither the window nor the cooldown applies.
UseHealth(t) ==
  /\ call[t].at = "use_health"
  /\ Enter(t, IF call[t].act THEN After(t) ELSE IF healthy THEN "use_stamp" ELSE "use_since")
  /\ UNCHANGED <<backendVars, optVars, gauge, historyVars>>

WindowElapsed(stamp) == stamp = "old"

UseStamp(t) ==
  /\ call[t].at = "use_stamp"
  /\ Enter(t, IF WindowElapsed(suspectSince) THEN "use_meta" ELSE After(t))
  /\ UNCHANGED <<backendVars, optVars, gauge, historyVars>>

UseMeta(t) ==
  /\ call[t].at = "use_meta"
  /\ downConfirm' = "window" /\ downSince' = "fresh"
  /\ Goto(t, "use_flip")
  /\ UNCHANGED <<healthy, errCount, successCount, suspectSince,
                 optVars, gauge, historyVars>>

UseFlip(t) ==
  /\ call[t].at = "use_flip"
  /\ FlipDown(t, "use_unstamp")
  /\ UNCHANGED <<errCount, successCount, suspectSince, downSince, downConfirm,
                 optVars, gauge, historyVars>>

\* Mutant of UseUnstamp: the suspicion outlives the down.
UseKeepStamp(t) ==
  /\ call[t].at = "use_unstamp"
  /\ Fire(t, "Down")
  /\ UNCHANGED <<backendVars, optVars, gauge, historyVars>>

UseUnstamp(t) ==
  /\ call[t].at = "use_unstamp"
  /\ suspectSince' = "none"
  /\ Fire(t, "Down")
  /\ UNCHANGED <<healthy, errCount, successCount, downSince, downConfirm,
                 optVars, gauge, historyVars>>

\* Mutant of CooldownElapsed: the comparison never holds.
CooldownNever == FALSE

CooldownElapsed == downSince = "old"

UseSince(t) ==
  /\ call[t].at = "use_since"
  /\ Enter(t, IF CooldownElapsed THEN "use_zero" ELSE After(t))
  /\ UNCHANGED <<backendVars, optVars, gauge, historyVars>>

UseZero(t) ==
  /\ call[t].at = "use_zero"
  /\ errCount' = 0
  /\ Goto(t, "use_recover")
  /\ UNCHANGED <<healthy, successCount, suspectSince, downSince, downConfirm,
                 optVars, gauge, historyVars>>

UseRecover(t) ==
  /\ call[t].at = "use_recover"
  /\ FlipUp(t)
  /\ UNCHANGED <<errCount, successCount, suspectSince, downSince, downConfirm,
                 optVars, gauge, historyVars>>

-----------------------------------------------------------------------------
(* The callback, the reload of the listener, and time *)

GaugeOf(e) == e # "Down"

Callback(t) ==
  /\ call[t].at = "fire"
  /\ gauge' = GaugeOf(call[t].event)
  /\ net' = IF call[t].event = "Down" THEN net + 1
            ELSE IF call[t].event = "Recovered" THEN net - 1
            ELSE net
  /\ IF call[t].seeds
       THEN call' = [call EXCEPT ![t] = [@ EXCEPT !.at = "seed", !.event = "None"]]
       ELSE Return(t)
  /\ UNCHANGED <<backendVars, optVars, accused, good>>

\* updateListenerLocked, under the App's lock and so one at a time, takes a
\* Snapshot, seeds the gauge with the health that it read, and goes on to
\* SetHealth; the Snapshot it takes before is a usable like any other.
ReloadBegin(t) ==
  /\ call[t].at = "idle"
  /\ \A u \in Thread : ~call[u].seeds
  /\ call' = [call EXCEPT ![t] = [Idle EXCEPT !.at = "use_health", !.act = active,
                                             !.seeds = TRUE]]
  /\ UNCHANGED <<backendVars, optVars, gauge, historyVars>>

\* Mutant of SeedLoad: the reload takes the backend to be up.
SeedUp(t) ==
  /\ call[t].at = "seed_load"
  /\ call' = [call EXCEPT ![t] = [@ EXCEPT
                !.at = IF call[t].event = "None" THEN "seed" ELSE "fire",
                !.read = TRUE]]
  /\ UNCHANGED <<backendVars, optVars, gauge, historyVars>>

SeedLoad(t) ==
  /\ call[t].at = "seed_load"
  /\ call' = [call EXCEPT ![t] = [@ EXCEPT
                !.at = IF call[t].event = "None" THEN "seed" ELSE "fire",
                !.read = healthy]]
  /\ UNCHANGED <<backendVars, optVars, gauge, historyVars>>

Seed(t) ==
  /\ call[t].at = "seed"
  /\ gauge' = call[t].read
  /\ Enter(t, "set_health")
  /\ UNCHANGED <<backendVars, optVars, historyVars>>

SetHealth(t) ==
  /\ call[t].at = "set_health"
  /\ active' \in BOOLEAN /\ fall' \in Falls /\ rise' \in Rises
  /\ Return(t)
  /\ UNCHANGED <<backendVars, gauge, historyVars>>

\* A Cooldown passes from a stamp.
AgeSuspect ==
  /\ suspectSince = "fresh"
  /\ suspectSince' = "old"
  /\ accused' = TRUE
  /\ UNCHANGED <<healthy, errCount, successCount, downSince, downConfirm,
                 optVars, gauge, call, net, good>>

AgeDown ==
  /\ downSince = "fresh"
  /\ downSince' = "old"
  /\ UNCHANGED <<healthy, errCount, successCount, suspectSince, downConfirm,
                 optVars, gauge, call, historyVars>>

-----------------------------------------------------------------------------
Continue(t) ==
  \/ ErrorCount(t) \/ ErrorReset(t) \/ ErrorHealth(t) \/ ErrorStamp(t) \/ ErrorSuspect(t)
  \/ ErrorMeta(t) \/ ErrorFlip(t) \/ ErrorUnstamp(t)
  \/ SuccessHealth(t) \/ SuccessErrors(t) \/ SuccessClear(t)
  \/ SuccessCount(t) \/ SuccessZero(t) \/ SuccessFlip(t)
  \/ UseHealth(t) \/ UseStamp(t) \/ UseMeta(t) \/ UseFlip(t) \/ UseUnstamp(t)
  \/ UseSince(t) \/ UseZero(t) \/ UseRecover(t)
  \/ Callback(t) \/ SeedLoad(t) \/ Seed(t) \/ SetHealth(t)

Next ==
  \/ \E t \in Thread, s \in Sources : ErrorBegin(t, s)
  \/ \E t \in Thread : SuccessBegin(t) \/ UseBegin(t) \/ ReloadBegin(t) \/ Continue(t)
  \/ AgeSuspect \/ AgeDown

Spec == Init /\ [][Next]_vars

\* A call under way ends, time passes, and picks and status requests keep
\* coming between the reports.
FairSpec ==
  /\ Spec
  /\ \A t \in Thread : WF_vars(Continue(t))
  /\ WF_vars(AgeDown)
  /\ SF_vars(\E t \in Thread : UseBegin(t))

-----------------------------------------------------------------------------
(* Properties *)

\* Every variable has its type.
TypeOK ==
  /\ healthy \in BOOLEAN /\ gauge \in BOOLEAN
  /\ active \in BOOLEAN /\ fall \in Falls /\ rise \in Rises
  /\ errCount \in 0..Fall /\ successCount \in 0..Rise
  /\ suspectSince \in Stamps \cup {"none"} /\ downSince \in Stamps
  /\ downConfirm \in {"none", "probe", "window"}
  /\ call \in [Thread -> [at : PCs, src : Sources, fell : BOOLEAN,
                          act : BOOLEAN, need : {0} \cup Falls \cup Rises,
                          event : Events, seeds : BOOLEAN, read : BOOLEAN]]
  /\ net \in Int /\ accused \in BOOLEAN /\ good \in 0..Rise

\* "An observer of the flipped-down state must never see a ... missing
\* confirmation stamp" (windowConfirm's comment): whoever sees the backend
\* down finds who confirmed it.
DownIsExplained == ~healthy => downConfirm # "none"

Firing(e) == {t \in Thread : call[t].at \in {"seed_load", "fire"} /\ call[t].event = e}
Winners   == {t \in Thread : call[t].at \in {"err_unstamp", "use_unstamp"}}

\* "Exactly once per transition" (SetOnStateChange's comment): the downs and
\* recoveries delivered and about to be delivered account for the state the
\* backend is in, so that no flip goes untold and none is told twice.
EveryFlipToldOnce ==
  net + Cardinality(Firing("Down") \cup Winners) - Cardinality(Firing("Recovered"))
    = IF healthy THEN 0 ELSE 1

\* "Data-path bursts alone never kill a backend" (ReportError's comment):
\* without a failed probe and without a suspicion that lasted a cooldown the
\* backend stays up, however the reports interleave.
TrafficNeverKills == ~healthy => accused

Quiet == \A t \in Thread : call[t].at = "idle"

\* "1 if the backend is healthy, 0 if down" (the gauge's help text): with no
\* call under way the gauge shows the backend's state.
GaugeTellsHealth == Quiet => gauge = healthy

\* The code's atomics seen as the documented state.
Shown == IF ~healthy THEN "Down" ELSE IF suspectSince # "none" THEN "Suspect" ELSE "Healthy"

Promise == INSTANCE BackendHealth WITH state <- Shown

\* Reports that do not overlap implement the documented state machine.
HealthPromise == Promise!Spec

\* With active checks a backend comes back only after as many consecutive
\* successes as the threshold asked for when the last one was reported: an
\* error in between starts the count again, a reload does not.
RiseConsecutive ==
  [][\A t \in Thread :
       call[t].at = "ok_flip" /\ ~healthy /\ healthy' => good >= call[t].need]_vars

\* In passive mode a down backend comes back once its cooldown has passed, as
\* long as picks keep coming.
PassiveRecovers == <>[](~active) => (~healthy ~> healthy)
=============================================================================
