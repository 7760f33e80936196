--------------------------- MODULE BalancerProofs ---------------------------
(***************************************************************************)
(* What the comments of balancer.go promise of concurrent reports, for any *)
(* number of goroutines and any thresholds; and, for reports that do not   *)
(* overlap and for transitions that do not cross, that the gauge is right  *)
(* and the atomics implement the documented health machine.  Then, for any *)
(* pools, hash and loads, what Pick chooses while all of them change.      *)
(***************************************************************************)
EXTENDS BalancerOverlap, Pick, FiniteSetTheorems, TLAPS

USE ThreadAssumption, ThresholdsAssumption

Needs == {0} \cup Falls \cup Rises
Call  == [at : PCs, src : Sources, fell : BOOLEAN, act : BOOLEAN, need : Needs,
          event : Events, seeds : BOOLEAN, read : BOOLEAN]

\* The calls, before and after a step of t.
Others(t) == /\ call' \in [Thread -> Call]
             /\ \A u \in Thread \ {t} : call'[u] = call[u]

-----------------------------------------------------------------------------
(* How a call goes on *)

\* Goto keeps what the call has loaded.
LEMMA GotoCall ==
  ASSUME call \in [Thread -> Call], NEW t \in Thread, NEW l \in PCs, Goto(t, l)
  PROVE  Others(t) /\ call'[t].at = l /\ call'[t].src = call[t].src
         /\ call'[t].act = call[t].act /\ call'[t].need = call[t].need
         /\ call'[t].event = call[t].event
<1>1. call' = [call EXCEPT ![t] = [@ EXCEPT !.at = l]] BY DEF Goto
<1>2. [call[t] EXCEPT !.at = l] \in Call BY DEF Call
<1>3. call'[t] = [call[t] EXCEPT !.at = l] BY <1>1
<1>4. call[t] \in Call OBVIOUS
<1>5. Others(t) BY <1>1, <1>2 DEF Others
<1> QED BY <1>3, <1>4, <1>5 DEF Call

\* What Enter, Return, Fire and the first steps of a call have in common.
LEMMA NewCall ==
  ASSUME call \in [Thread -> Call], NEW t \in Thread, NEW c \in Call,
         call' = [call EXCEPT ![t] = c]
  PROVE  Others(t) /\ call'[t] = c
BY DEF Others

\* A call that has loaded nothing.
LEMMA IdleCall == Idle \in Call
BY DEF Call, Idle, PCs, Sources, Events, Needs

\* Enter forgets what the call had loaded.
LEMMA EnterCall ==
  ASSUME call \in [Thread -> Call], NEW t \in Thread, NEW l \in PCs, Enter(t, l)
  PROVE  /\ Others(t) /\ call'[t].at = l /\ call'[t].src = "traffic"
         /\ call'[t].event = "None" /\ call'[t].seeds = call[t].seeds
<1> DEFINE c == [Idle EXCEPT !.at = l, !.seeds = call[t].seeds]
<1>1. call[t].seeds \in BOOLEAN BY DEF Call
<1>2. call' = [call EXCEPT ![t] = c] BY DEF Enter
<1>3. Idle.src = "traffic" /\ Idle.event = "None" BY DEF Idle
<1>4. /\ c \in Call /\ c.at = l /\ c.src = "traffic" /\ c.event = "None"
      /\ c.seeds = call[t].seeds
  BY <1>1, <1>3, IdleCall DEF Call
<1> HIDE DEF c
<1>5. Others(t) /\ call'[t] = c BY <1>2, <1>4, NewCall
<1> QED BY <1>4, <1>5

\* Return ends the call.
LEMMA ReturnCall ==
  ASSUME call \in [Thread -> Call], NEW t \in Thread, Return(t)
  PROVE  /\ Others(t) /\ call'[t] = Idle /\ call'[t].at = "idle"
         /\ call'[t].src = "traffic" /\ call'[t].event = "None" /\ call'[t].seeds = FALSE
<1>1. Others(t) /\ call'[t] = Idle BY IdleCall, NewCall DEF Return
<1> QED BY <1>1 DEF Idle

\* Fire leaves it the transition to tell.
Fired(c, e) == c.event = e /\ c.at = IF c.seeds THEN "seed_load" ELSE "fire"

LEMMA FireCall ==
  ASSUME call \in [Thread -> Call], NEW t \in Thread, NEW e \in Events, Fire(t, e)
  PROVE  Others(t) /\ Fired(call'[t], e) /\ call'[t].src = "traffic"
<1> DEFINE l == IF call[t].seeds THEN "seed_load" ELSE "fire"
           c == [Idle EXCEPT !.at = l, !.event = e, !.seeds = call[t].seeds]
<1>1. call[t].seeds \in BOOLEAN /\ l \in PCs BY DEF Call, PCs
<1>2. call' = [call EXCEPT ![t] = c] BY DEF Fire
<1>3. Idle.src = "traffic" BY DEF Idle
<1>4. l = IF call[t].seeds THEN "seed_load" ELSE "fire" OBVIOUS
<1> HIDE DEF l
<1>5. /\ c \in Call /\ c.at = l /\ c.event = e /\ c.src = "traffic"
      /\ c.seeds = call[t].seeds
  BY <1>1, <1>3, IdleCall DEF Call
<1> HIDE DEF c
<1>6. Others(t) /\ call'[t] = c BY <1>2, <1>5, NewCall
<1> QED BY <1>4, <1>5, <1>6 DEF Fired

\* Where a call goes on after usable.
LEMMA AfterUsable ==
  ASSUME NEW t \in Thread
  PROVE  After(t) \in {"idle", "seed_load"}
BY DEF After

\* A flip down: the winner goes on.
LEMMA FlipDownCall ==
  ASSUME call \in [Thread -> Call], NEW t \in Thread, NEW won \in PCs, FlipDown(t, won)
  PROVE  /\ Others(t) /\ call'[t].src = "traffic" /\ call'[t].event = "None"
         /\ IF healthy THEN call'[t].at = won ELSE call'[t].at \in {"idle", "seed_load"}
         /\ healthy' = FALSE
<1> DEFINE l == IF healthy THEN won ELSE After(t)
<1>1. l \in PCs BY AfterUsable DEF PCs
<1>2. Enter(t, l) /\ healthy' = FALSE BY DEF FlipDown
<1>3. IF healthy THEN l = won ELSE l \in {"idle", "seed_load"} BY AfterUsable
<1> HIDE DEF l
<1> QED BY <1>1, <1>2, <1>3, EnterCall

\* A flip up: the winner fires the recovery.
LEMMA FlipUpCall ==
  ASSUME call \in [Thread -> Call], NEW t \in Thread, FlipUp(t)
  PROVE  /\ Others(t) /\ call'[t].src = "traffic"
         /\ IF healthy THEN call'[t].at \in {"idle", "seed_load"} /\ call'[t].event = "None"
                       ELSE Fired(call'[t], "Recovered")
         /\ healthy' = TRUE
<1>1. healthy' = TRUE BY DEF FlipUp
<1>2. After(t) \in PCs BY AfterUsable DEF PCs
<1>3. CASE healthy BY <1>1, <1>2, <1>3, EnterCall, AfterUsable DEF FlipUp
<1>4. CASE ~healthy BY <1>1, <1>4, FireCall DEF FlipUp, Events
<1> QED BY <1>3, <1>4

\* A threshold is a number.
LEMMA NeedInt ==
  ASSUME call \in [Thread -> Call], NEW t \in Thread
  PROVE  call[t].need \in Int
<1>1. call[t].need \in Needs BY DEF Call
<1>2. Falls \subseteq Int BY ThresholdsAssumption
<1>3. Rises \subseteq Int BY ThresholdsAssumption
<1>4. 0 \in Int OBVIOUS
<1> QED BY <1>1, <1>2, <1>3, <1>4, Zenon DEF Needs

-----------------------------------------------------------------------------
(* The invariant *)

Confirming == {"err_flip", "use_flip"}
Condemning == {"err_meta", "err_flip", "use_meta", "use_flip"}

\* Who is about to flip the backend down has written the confirmation.
Explained == /\ DownIsExplained
             /\ \A t \in Thread : call[t].at \in Confirming => downConfirm # "none"

\* Who is about to take the backend down, or may be by and by, has a reason.
Justified == /\ TrafficNeverKills
             /\ suspectSince = "old" => accused
             /\ \A t \in Thread :
                  call[t].src = "probe" \/ call[t].at \in Condemning => accused

\* The calls that have a down, or a recovery, to tell.
Firings == {"seed_load", "fire"}
TellsDown(c) == c.at \in {"err_unstamp", "use_unstamp"} \/ (c.at \in Firings /\ c.event = "Down")
TellsUp(c)   == c.at \in Firings /\ c.event = "Recovered"
Downs == {t \in Thread : TellsDown(call[t])}
Ups   == {t \in Thread : TellsUp(call[t])}
Told  == net + Cardinality(Downs) - Cardinality(Ups) = IF healthy THEN 0 ELSE 1

\* TypeOK but for the calls, which Others has.
Typed == /\ healthy \in BOOLEAN /\ gauge \in BOOLEAN
         /\ active \in BOOLEAN /\ fall \in Falls /\ rise \in Rises
         /\ errCount \in 0..Fall /\ successCount \in 0..Rise
         /\ suspectSince \in Stamps \cup {"none"} /\ downSince \in Stamps
         /\ downConfirm \in {"none", "probe", "window"}
         /\ net \in Int /\ accused \in BOOLEAN /\ good \in 0..Rise

Inv == TypeOK /\ Explained /\ Justified /\ Told

-----------------------------------------------------------------------------
(* Counting the flips *)

\* A set of goroutines that one joins or leaves.
LEMMA OneApart ==
  ASSUME NEW U \in SUBSET Thread, NEW V \in SUBSET Thread, NEW t \in Thread,
         \A u \in Thread \ {t} : u \in U <=> u \in V
  PROVE  /\ Cardinality(U) \in Int /\ Cardinality(V) \in Int
         /\ Cardinality(V) - Cardinality(U) =
              (IF t \in V THEN 1 ELSE 0) - (IF t \in U THEN 1 ELSE 0)
<1>1. IsFiniteSet(U) /\ IsFiniteSet(V) BY FS_Subset
<1>2. Cardinality(U) \in Nat /\ Cardinality(V) \in Nat BY <1>1, FS_CardinalityType
<1>3. CASE t \in U <=> t \in V
  <2>1. U = V BY <1>3
  <2> QED BY <1>2, <1>3, <2>1
<1>4. CASE t \in U /\ t \notin V
  <2>1. U = V \cup {t} BY <1>4
  <2>2. Cardinality(U) = Cardinality(V) + 1 BY <1>1, <1>4, <2>1, FS_AddElement
  <2> QED BY <1>2, <1>4, <2>2
<1>5. CASE t \notin U /\ t \in V
  <2>1. V = U \cup {t} BY <1>5
  <2>2. Cardinality(V) = Cardinality(U) + 1 BY <1>1, <1>5, <2>1, FS_AddElement
  <2> QED BY <1>2, <1>5, <2>2
<1> QED BY <1>3, <1>4, <1>5

\* What a call adds to the sum of Told, and what a state asks of it.
Weight(c) == (IF TellsDown(c) THEN 1 ELSE 0) - (IF TellsUp(c) THEN 1 ELSE 0)
Flipped   == IF healthy THEN 0 ELSE 1

\* A step whose own weights agree with the flip keeps the sum.
LEMMA ToldStep ==
  ASSUME Told, NEW t \in Thread, Others(t), net \in Int, net' \in Int,
         healthy \in BOOLEAN, healthy' \in BOOLEAN,
         net' - net + Weight(call'[t]) - Weight(call[t]) = Flipped' - Flipped
  PROVE  Told'
<1>1. /\ Cardinality(Downs) \in Int /\ Cardinality(Downs') \in Int
      /\ Cardinality(Downs') - Cardinality(Downs) =
           (IF t \in Downs' THEN 1 ELSE 0) - (IF t \in Downs THEN 1 ELSE 0)
  <2>1. \A u \in Thread \ {t} : u \in Downs <=> u \in Downs' BY DEF Downs, Others
  <2>2. Downs \in SUBSET Thread /\ Downs' \in SUBSET Thread BY DEF Downs
  <2> QED BY <2>1, <2>2, OneApart
<1>2. /\ Cardinality(Ups) \in Int /\ Cardinality(Ups') \in Int
      /\ Cardinality(Ups') - Cardinality(Ups) =
           (IF t \in Ups' THEN 1 ELSE 0) - (IF t \in Ups THEN 1 ELSE 0)
  <2>1. \A u \in Thread \ {t} : u \in Ups <=> u \in Ups' BY DEF Ups, Others
  <2>2. Ups \in SUBSET Thread /\ Ups' \in SUBSET Thread BY DEF Ups
  <2> QED BY <2>1, <2>2, OneApart
<1>3. /\ t \in Downs <=> TellsDown(call[t])
      /\ t \in Downs' <=> TellsDown(call'[t])
  BY DEF Downs
<1>4. /\ t \in Ups <=> TellsUp(call[t])
      /\ t \in Ups' <=> TellsUp(call'[t])
  BY DEF Ups
<1>5. Cardinality(Downs') - Cardinality(Downs) - (Cardinality(Ups') - Cardinality(Ups))
        = Weight(call'[t]) - Weight(call[t])
  BY <1>1, <1>2, <1>3, <1>4 DEF Weight
<1>6. Weight(call'[t]) \in Int /\ Weight(call[t]) \in Int BY DEF Weight
<1>7. Flipped \in Int /\ Flipped' \in Int BY DEF Flipped
<1>8. net + Cardinality(Downs) - Cardinality(Ups) = Flipped BY DEF Told, Flipped
<1>9. net' + Cardinality(Downs') - Cardinality(Ups') = Flipped'
  <2> DEFINE w  == Weight(call[t])    d  == Cardinality(Downs)    u  == Cardinality(Ups)
             w2 == Weight(call'[t])   d2 == Cardinality(Downs')   u2 == Cardinality(Ups')
             f  == Flipped            f2 == Flipped'              n2 == net'
  <2>1. /\ w \in Int /\ w2 \in Int /\ d \in Int /\ d2 \in Int /\ u \in Int /\ u2 \in Int
        /\ f \in Int /\ f2 \in Int /\ net \in Int /\ n2 \in Int
    BY <1>1, <1>2, <1>6, <1>7
  <2>2. d2 - d - (u2 - u) = w2 - w /\ net + d - u = f BY <1>5, <1>8
  <2>3. n2 - net + w2 - w = f2 - f OBVIOUS
  <2> HIDE DEF w, w2, d, d2, u, u2, f, f2, n2
  <2>4. n2 + d2 - u2 = f2 BY <2>1, <2>2, <2>3
  <2> QED BY <2>4 DEF d2, u2, f2, n2
<1> QED BY <1>9 DEF Told, Flipped

-----------------------------------------------------------------------------
(* The steps *)

\* What a step of t has to show: the rest is another goroutine's, and stays.
Sound(t) ==
  /\ Others(t) /\ Typed'
  /\ downConfirm # "none" => downConfirm' # "none"
  /\ accused => accused'
  /\ ~healthy' \/ call'[t].at \in Confirming => downConfirm' # "none"
  /\ ~healthy' \/ suspectSince' = "old" \/ call'[t].src = "probe" \/ call'[t].at \in Condemning
       => accused'
  /\ net' - net + Weight(call'[t]) - Weight(call[t]) = Flipped' - Flipped

\* ... and that is enough.
LEMMA SoundStep ==
  ASSUME Inv, NEW t \in Thread, Sound(t)
  PROVE  Inv'
<1>1. TypeOK' BY DEF Sound, Typed, TypeOK, Others, Call, Needs
<1>2. ASSUME NEW u \in Thread PROVE call'[u] = call[u] \/ u = t BY DEF Sound, Others
<1>3. Explained'
  BY <1>2 DEF Inv, Sound, Explained, DownIsExplained, Confirming
<1>4. Justified'
  BY <1>2 DEF Inv, Sound, Justified, TrafficNeverKills, Condemning
<1>5. Told' BY ToldStep DEF Inv, Sound, Typed, TypeOK
<1> QED BY <1>1, <1>3, <1>4, <1>5 DEF Inv

\* What the invariant says before a step of t.
Ready(t) ==
  /\ call \in [Thread -> Call] /\ Typed
  /\ call[t].src = "probe" \/ call[t].at \in Condemning => accused
  /\ call[t].at \in Confirming => downConfirm # "none"
  /\ ~healthy => downConfirm # "none" /\ accused
  /\ suspectSince = "old" => accused

\* ... which it does for each of them.
LEMMA ReadyStep ==
  ASSUME Inv, NEW t \in Thread
  PROVE  Ready(t)
BY DEF Inv, Ready, TypeOK, Typed, Call, Needs, Explained, DownIsExplained, Justified,
       TrafficNeverKills, Confirming, Condemning

\* ReportError.
LEMMA ErrorStep ==
  ASSUME NEW t \in Thread, Ready(t),
         \/ \E s \in Sources : ErrorBegin(t, s)
         \/ ErrorCount(t) \/ ErrorReset(t) \/ ErrorHealth(t) \/ ErrorStamp(t) \/ ErrorSuspect(t)
         \/ ErrorMeta(t) \/ ErrorFlip(t) \/ ErrorUnstamp(t)
  PROVE  Sound(t)
<1>a. /\ call \in [Thread -> Call]
      /\ healthy \in BOOLEAN /\ gauge \in BOOLEAN
      /\ active \in BOOLEAN /\ fall \in Falls /\ rise \in Rises
      /\ errCount \in 0..Fall /\ successCount \in 0..Rise
      /\ suspectSince \in Stamps \cup {"none"} /\ downSince \in Stamps
      /\ downConfirm \in {"none", "probe", "window"}
      /\ net \in Int /\ accused \in BOOLEAN /\ good \in 0..Rise
  BY DEF Ready, Typed
<1>b. /\ call[t].src = "probe" \/ call[t].at \in Condemning => accused
      /\ call[t].at \in Confirming => downConfirm # "none"
      /\ ~healthy => downConfirm # "none" /\ accused
      /\ suspectSince = "old" => accused
  BY DEF Ready
<1> USE DEF Sound, Typed, Weight, TellsDown, TellsUp, Flipped, Confirming, Condemning, Firings
<1>1. ASSUME NEW s \in Sources, ErrorBegin(t, s) PROVE Sound(t)
  <2> DEFINE c == [Idle EXCEPT !.at = "err_count", !.src = s, !.need = fall]
  <2>1. c \in Call /\ c.at = "err_count" /\ c.src = s
    BY <1>a DEF Call, PCs, Events, Sources, Idle, Needs
  <2>2. /\ call[t].at = "idle" /\ call' = [call EXCEPT ![t] = c]
        /\ accused' = (accused \/ s = "probe") /\ good' = 0
        /\ UNCHANGED <<backendVars, optVars, gauge, net>>
    BY <1>1, Zenon DEF ErrorBegin
  <2> HIDE DEF c
  <2>3. Others(t) /\ call'[t] = c BY <1>a, <2>1, <2>2, NewCall
  <2>4. good' \in 0..Rise BY <1>a, <2>2
  <2> QED BY <1>a, <1>b, <2>1, <2>2, <2>3, <2>4 DEF backendVars, optVars
<1>9. CASE ErrorCount(t)
  <2> DEFINE fell == errCount + 1 >= call[t].need
             c == [Idle EXCEPT !.at = "err_reset", !.src = call[t].src, !.fell = fell]
  <2>1. fell \in BOOLEAN BY <1>a
  <2>2. /\ call[t].at = "err_count" /\ call' = [call EXCEPT ![t] = c]
        /\ errCount' = Least(errCount + 1, Fall)
        /\ UNCHANGED <<healthy, successCount, suspectSince, downSince, downConfirm,
                       optVars, gauge, historyVars>>
    BY <1>9, Zenon DEF ErrorCount
  <2> HIDE DEF fell
  <2>3. c \in Call /\ c.at = "err_reset" /\ c.src = call[t].src
    BY <1>a, <2>1 DEF Call, PCs, Events, Sources, Idle, Needs
  <2> HIDE DEF c
  <2>4. Others(t) /\ call'[t] = c BY <1>a, <2>2, <2>3, NewCall
  <2>5. errCount' \in 0..Fall BY <1>a, <2>2 DEF Least
  <2> QED BY <1>a, <1>b, <2>2, <2>3, <2>4, <2>5 DEF optVars, historyVars
<1>2. CASE ErrorReset(t)
  <2>1. Others(t) /\ call'[t].at = "err_health" /\ call'[t].src = call[t].src
    BY <1>a, <1>2, GotoCall DEF ErrorReset, PCs
  <2> QED BY <1>a, <1>b, <1>2, <2>1 DEF ErrorReset, historyVars, optVars
<1>3. CASE ErrorHealth(t)
  <2>1. /\ Others(t)
        /\ \/ call'[t].at = "err_stamp" /\ call'[t].src = call[t].src
           \/ call'[t] = Idle
    BY <1>a, <1>3, GotoCall, ReturnCall DEF ErrorHealth, PCs
  <2> QED BY <1>a, <1>b, <1>3, <2>1 DEF ErrorHealth, backendVars, historyVars, optVars, Idle
<1>4. CASE ErrorStamp(t)
  <2>1. PICK l \in {"err_suspect", "err_meta", "idle"} :
          Enter(t, l) /\ (l = "err_meta" => call[t].src = "probe")
    BY <1>4 DEF ErrorStamp, MayConfirm
  <2>2. l \in PCs BY DEF PCs
  <2>3. Others(t) /\ call'[t].at = l /\ call'[t].src = "traffic" /\ call'[t].event = "None"
    BY <1>a, <2>1, <2>2, EnterCall
  <2> QED BY <1>a, <1>b, <1>4, <2>1, <2>3 DEF ErrorStamp, backendVars, historyVars, optVars
<1>5. CASE ErrorSuspect(t)
  <2>1. /\ Others(t) /\ call'[t].src = "traffic"
        /\ \/ call'[t].at \in Firings /\ call'[t].event = "Suspect"
           \/ call'[t].at = "idle"
    BY <1>a, <1>5, FireCall, ReturnCall DEF ErrorSuspect, Events, Fired
  <2>2. call[t].at \notin Firings \cup {"err_unstamp", "use_unstamp"} BY <1>5 DEF ErrorSuspect
  <2>3. Weight(call'[t]) = 0 /\ Weight(call[t]) = 0 BY <2>1, <2>2
  <2> HIDE DEF Weight
  <2> QED BY <1>a, <1>b, <1>5, <2>1, <2>2, <2>3 DEF ErrorSuspect, historyVars, optVars, Stamps
<1>6. CASE ErrorMeta(t)
  <2>1. Others(t) /\ call'[t].at = "err_flip" /\ call'[t].src = call[t].src
    BY <1>a, <1>6, GotoCall DEF ErrorMeta, PCs
  <2> QED BY <1>a, <1>b, <1>6, <2>1 DEF ErrorMeta, historyVars, optVars, Stamps
<1>7. CASE ErrorFlip(t)
  <2>1. /\ Others(t) /\ call'[t].src = "traffic" /\ call'[t].event = "None"
        /\ IF healthy THEN call'[t].at = "err_unstamp" ELSE call'[t].at \in {"idle", "seed_load"}
    BY <1>a, <1>7, FlipDownCall DEF ErrorFlip, PCs
  <2>2. /\ Weight(call'[t]) = Flipped' - Flipped /\ Weight(call[t]) = 0
        /\ call'[t].at \in {"err_unstamp", "idle", "seed_load"}
        /\ call'[t].src = "traffic"
    BY <1>a, <1>7, <2>1 DEF ErrorFlip, FlipDown
  <2>3. Flipped \in Int /\ Flipped' \in Int OBVIOUS
  <2>4. /\ healthy' = FALSE
        /\ UNCHANGED <<errCount, successCount, suspectSince, downSince, downConfirm,
                       optVars, gauge, net, accused, good>>
        /\ call[t].at \in Confirming
    BY <1>7 DEF ErrorFlip, FlipDown, historyVars, optVars
  <2> HIDE DEF Weight, Flipped
  <2>5. downConfirm # "none" /\ accused BY <1>b, <2>4
  <2>6. Typed' BY <1>a, <2>4 DEF optVars
  <2>7. net' - net + Weight(call'[t]) - Weight(call[t]) = Flipped' - Flipped
    BY <1>a, <2>2, <2>3, <2>4
  <2> QED BY <2>1, <2>4, <2>5, <2>6, <2>7
<1>8. CASE ErrorUnstamp(t)
  <2>1. /\ Others(t) /\ call'[t].src = "traffic"
        /\ call'[t].at \in Firings /\ call'[t].event = "Down"
    BY <1>a, <1>8, FireCall DEF ErrorUnstamp, Events, Fired
  <2> QED BY <1>a, <1>b, <1>8, <2>1 DEF ErrorUnstamp, historyVars, optVars, Stamps, Idle
<1> QED BY <1>1, <1>2, <1>3, <1>4, <1>5, <1>6, <1>7, <1>8, <1>9

\* The flip that brings the backend back, of either caller.
LEMMA RecoveryStep ==
  ASSUME NEW t \in Thread, Ready(t), FlipUp(t), call[t].at \in {"ok_flip", "use_recover"},
         UNCHANGED <<errCount, successCount, suspectSince, downSince, downConfirm,
                     optVars, gauge, historyVars>>
  PROVE  Sound(t)
<1>a. /\ call \in [Thread -> Call] /\ Typed
      /\ ~healthy => downConfirm # "none" /\ accused
      /\ suspectSince = "old" => accused
  BY DEF Ready
<1>1. /\ Others(t) /\ call'[t].src = "traffic"
      /\ IF healthy THEN call'[t].at \in {"idle", "seed_load"} /\ call'[t].event = "None"
                    ELSE call'[t].at \in Firings /\ call'[t].event = "Recovered"
  BY <1>a, FlipUpCall DEF Fired, Firings
<1>2. Weight(call[t]) = 0 /\ Weight(call'[t]) = Flipped' - Flipped
  BY <1>a, <1>1 DEF Weight, TellsDown, TellsUp, Flipped, FlipUp, Typed, Firings
<1>3. Flipped \in Int /\ Flipped' \in Int BY DEF Flipped
<1>4. Typed' BY <1>a DEF Typed, FlipUp, optVars, historyVars
<1>5. net' - net + Weight(call'[t]) - Weight(call[t]) = Flipped' - Flipped
  BY <1>a, <1>2, <1>3 DEF Typed, historyVars, optVars
<1> QED BY <1>a, <1>1, <1>4, <1>5 DEF Sound, FlipUp, historyVars, optVars, Confirming, Condemning, Firings

\* ReportSuccess.
LEMMA SuccessStep ==
  ASSUME NEW t \in Thread, Ready(t),
         \/ SuccessBegin(t) \/ SuccessHealth(t) \/ SuccessErrors(t) \/ SuccessClear(t)
         \/ SuccessCount(t) \/ SuccessZero(t) \/ SuccessFlip(t)
  PROVE  Sound(t)
<1>a. /\ call \in [Thread -> Call]
      /\ healthy \in BOOLEAN /\ gauge \in BOOLEAN
      /\ active \in BOOLEAN /\ fall \in Falls /\ rise \in Rises
      /\ errCount \in 0..Fall /\ successCount \in 0..Rise
      /\ suspectSince \in Stamps \cup {"none"} /\ downSince \in Stamps
      /\ downConfirm \in {"none", "probe", "window"}
      /\ net \in Int /\ accused \in BOOLEAN /\ good \in 0..Rise
  BY DEF Ready, Typed
<1>b. /\ call[t].src = "probe" \/ call[t].at \in Condemning => accused
      /\ call[t].at \in Confirming => downConfirm # "none"
      /\ ~healthy => downConfirm # "none" /\ accused
      /\ suspectSince = "old" => accused
  BY DEF Ready
<1> USE DEF Sound, Typed, Weight, TellsDown, TellsUp, Flipped, Confirming, Condemning, Firings
<1>1. CASE SuccessBegin(t)
  <2> DEFINE c == [Idle EXCEPT !.at = "ok_health", !.act = active, !.need = rise]
  <2>1. c \in Call BY <1>a DEF Call, PCs, Events, Sources, Idle, Needs
  <2>2. Others(t) /\ call'[t] = c BY <1>a, <1>1, <2>1, NewCall DEF SuccessBegin
  <2>3. good' \in 0..Rise BY <1>a, <1>1 DEF SuccessBegin, Least
  <2> QED BY <1>a, <1>b, <1>1, <2>2, <2>3 DEF SuccessBegin, backendVars, historyVars, optVars, Idle
<1>2. CASE SuccessHealth(t)
  <2>1. /\ Others(t) /\ call'[t].at \in {"ok_errors", "ok_count", "idle"}
        /\ call'[t].src \in {call[t].src, "traffic"}
    <3>1. Enter(t, "ok_errors") \/ Goto(t, "ok_count") \/ Return(t) BY <1>2 DEF SuccessHealth
    <3>2. "ok_errors" \in PCs /\ "ok_count" \in PCs BY DEF PCs
    <3> QED BY <1>a, <3>1, <3>2, EnterCall, GotoCall, ReturnCall
  <2> QED BY <1>a, <1>b, <1>2, <2>1 DEF SuccessHealth, backendVars, optVars, historyVars
<1>3. CASE SuccessErrors(t)
  <2>1. Others(t) /\ call'[t].at = "ok_clear" /\ call'[t].src = call[t].src
    BY <1>a, <1>3, GotoCall DEF SuccessErrors, PCs
  <2> QED BY <1>a, <1>b, <1>3, <2>1 DEF SuccessErrors, historyVars, optVars
<1>4. CASE SuccessClear(t)
  <2>1. /\ Others(t) /\ call'[t].src = "traffic"
        /\ \/ call'[t].at \in Firings /\ call'[t].event = "Cleared"
           \/ call'[t].at = "idle"
    BY <1>a, <1>4, FireCall, ReturnCall DEF SuccessClear, Events, Fired
  <2>2. call[t].at \notin Firings \cup {"err_unstamp", "use_unstamp"} BY <1>4 DEF SuccessClear
  <2>3. Weight(call'[t]) = 0 /\ Weight(call[t]) = 0 BY <2>1, <2>2
  <2> HIDE DEF Weight
  <2> QED BY <1>a, <1>b, <1>4, <2>1, <2>2, <2>3 DEF SuccessClear, historyVars, optVars, Stamps
<1>5. CASE SuccessCount(t)
  <2>1. /\ Others(t) /\ call'[t].at \in {"ok_zero", "idle"}
        /\ call'[t].src \in {call[t].src, "traffic"}
    <3>1. Goto(t, "ok_zero") \/ Return(t) BY <1>5 DEF SuccessCount
    <3>2. "ok_zero" \in PCs BY DEF PCs
    <3> QED BY <1>a, <3>1, <3>2, GotoCall, ReturnCall
  <2>2. successCount' \in 0..Rise BY <1>a, <1>5 DEF SuccessCount, Least
  <2> QED BY <1>a, <1>b, <1>5, <2>1, <2>2 DEF SuccessCount, optVars, historyVars
<1>6. CASE SuccessZero(t)
  <2>1. Others(t) /\ call'[t].at = "ok_flip" /\ call'[t].src = call[t].src
    BY <1>a, <1>6, GotoCall DEF SuccessZero, PCs
  <2> QED BY <1>a, <1>b, <1>6, <2>1 DEF SuccessZero, historyVars, optVars
<1>7. CASE SuccessFlip(t)
  <2>1. Sound(t) BY <1>7, RecoveryStep DEF SuccessFlip
  <2> QED BY <2>1
<1> QED BY <1>1, <1>2, <1>3, <1>4, <1>5, <1>6, <1>7

\* A usable begins alike for Pick and for the reload.
LEMMA BeginUse ==
  ASSUME call \in [Thread -> Call], active \in BOOLEAN, NEW t \in Thread,
         UseBegin(t) \/ ReloadBegin(t)
  PROVE  /\ Others(t) /\ call[t].at = "idle" /\ call'[t].at = "use_health"
         /\ call'[t].src = "traffic" /\ call'[t].event = "None"
         /\ UNCHANGED <<backendVars, optVars, gauge, historyVars>>
<1>1. ASSUME NEW c \in Call, c.at = "use_health", c.src = "traffic", c.event = "None",
             call' = [call EXCEPT ![t] = c]
      PROVE  /\ Others(t) /\ call'[t].at = "use_health"
             /\ call'[t].src = "traffic" /\ call'[t].event = "None"
  BY <1>1, NewCall
<1>2. CASE UseBegin(t)
  <2> DEFINE c == [Idle EXCEPT !.at = "use_health", !.act = active]
  <2>1. c \in Call /\ c.at = "use_health" /\ c.src = "traffic" /\ c.event = "None"
    BY DEF Call, PCs, Events, Sources, Idle, Needs
  <2>2. /\ call' = [call EXCEPT ![t] = c] /\ call[t].at = "idle"
        /\ UNCHANGED <<backendVars, optVars, gauge, historyVars>>
    BY <1>2 DEF UseBegin
  <2> HIDE DEF c
  <2> QED BY <1>1, <2>1, <2>2
<1>3. CASE ReloadBegin(t)
  <2> DEFINE c == [Idle EXCEPT !.at = "use_health", !.act = active, !.seeds = TRUE]
  <2>1. c \in Call /\ c.at = "use_health" /\ c.src = "traffic" /\ c.event = "None"
    BY DEF Call, PCs, Events, Sources, Idle, Needs
  <2>2. /\ call' = [call EXCEPT ![t] = c] /\ call[t].at = "idle"
        /\ UNCHANGED <<backendVars, optVars, gauge, historyVars>>
    BY <1>3 DEF ReloadBegin
  <2> HIDE DEF c
  <2> QED BY <1>1, <2>1, <2>2
<1> QED BY <1>2, <1>3

\* usable, on behalf of Pick and Snapshot.
LEMMA UseStep ==
  ASSUME NEW t \in Thread, Ready(t),
         \/ UseBegin(t) \/ ReloadBegin(t) \/ UseHealth(t) \/ UseStamp(t) \/ UseMeta(t) \/ UseFlip(t)
         \/ UseUnstamp(t) \/ UseSince(t) \/ UseZero(t) \/ UseRecover(t)
  PROVE  Sound(t)
<1>a. /\ call \in [Thread -> Call]
      /\ healthy \in BOOLEAN /\ gauge \in BOOLEAN
      /\ active \in BOOLEAN /\ fall \in Falls /\ rise \in Rises
      /\ errCount \in 0..Fall /\ successCount \in 0..Rise
      /\ suspectSince \in Stamps \cup {"none"} /\ downSince \in Stamps
      /\ downConfirm \in {"none", "probe", "window"}
      /\ net \in Int /\ accused \in BOOLEAN /\ good \in 0..Rise
  BY DEF Ready, Typed
<1>b. /\ call[t].src = "probe" \/ call[t].at \in Condemning => accused
      /\ call[t].at \in Confirming => downConfirm # "none"
      /\ ~healthy => downConfirm # "none" /\ accused
      /\ suspectSince = "old" => accused
  BY DEF Ready
<1> USE DEF Sound, Typed, Weight, TellsDown, TellsUp, Flipped, Confirming, Condemning, Firings
<1>1. CASE UseBegin(t) \/ ReloadBegin(t)
  <2>1. /\ Others(t) /\ call[t].at = "idle" /\ call'[t].at = "use_health"
        /\ call'[t].src = "traffic"
        /\ UNCHANGED <<backendVars, optVars, gauge, historyVars>>
    BY <1>a, <1>1, BeginUse
  <2> QED BY <1>a, <1>b, <2>1 DEF backendVars, optVars, historyVars
<1>2. CASE UseHealth(t)
  <2>1. PICK l \in {"use_stamp", "use_since", "idle", "seed_load"} : Enter(t, l)
    BY <1>2, AfterUsable DEF UseHealth
  <2>2. l \in PCs BY DEF PCs
  <2>3. Others(t) /\ call'[t].at = l /\ call'[t].src = "traffic" /\ call'[t].event = "None"
    BY <1>a, <2>1, <2>2, EnterCall
  <2> QED BY <1>a, <1>b, <1>2, <2>1, <2>3 DEF UseHealth, backendVars, historyVars, optVars
<1>3. CASE UseStamp(t)
  <2>1. PICK l \in {"use_meta", "idle", "seed_load"} :
          Enter(t, l) /\ (l = "use_meta" => suspectSince = "old")
    BY <1>3, AfterUsable DEF UseStamp, WindowElapsed
  <2>2. l \in PCs BY DEF PCs
  <2>3. Others(t) /\ call'[t].at = l /\ call'[t].src = "traffic" /\ call'[t].event = "None"
    BY <1>a, <2>1, <2>2, EnterCall
  <2> QED BY <1>a, <1>b, <1>3, <2>1, <2>3 DEF UseStamp, backendVars, historyVars, optVars
<1>4. CASE UseMeta(t)
  <2>1. Others(t) /\ call'[t].at = "use_flip" /\ call'[t].src = call[t].src
    BY <1>a, <1>4, GotoCall DEF UseMeta, PCs
  <2> QED BY <1>a, <1>b, <1>4, <2>1 DEF UseMeta, historyVars, optVars, Stamps
<1>5. CASE UseFlip(t)
  <2>1. /\ Others(t) /\ call'[t].src = "traffic" /\ call'[t].event = "None"
        /\ IF healthy THEN call'[t].at = "use_unstamp" ELSE call'[t].at \in {"idle", "seed_load"}
    BY <1>a, <1>5, FlipDownCall DEF UseFlip, PCs
  <2>2. /\ Weight(call'[t]) = Flipped' - Flipped /\ Weight(call[t]) = 0
        /\ call'[t].at \in {"use_unstamp", "idle", "seed_load"}
        /\ call'[t].src = "traffic"
    BY <1>a, <1>5, <2>1 DEF UseFlip, FlipDown
  <2>3. Flipped \in Int /\ Flipped' \in Int OBVIOUS
  <2>4. /\ healthy' = FALSE
        /\ UNCHANGED <<errCount, successCount, suspectSince, downSince, downConfirm,
                       optVars, gauge, net, accused, good>>
        /\ call[t].at \in Confirming
    BY <1>5 DEF UseFlip, FlipDown, historyVars, optVars
  <2> HIDE DEF Weight, Flipped
  <2>5. downConfirm # "none" /\ accused BY <1>b, <2>4
  <2>6. Typed' BY <1>a, <2>4 DEF optVars
  <2>7. net' - net + Weight(call'[t]) - Weight(call[t]) = Flipped' - Flipped
    BY <1>a, <2>2, <2>3, <2>4
  <2> QED BY <2>1, <2>4, <2>5, <2>6, <2>7
<1>6. CASE UseUnstamp(t)
  <2>1. /\ Others(t) /\ call'[t].src = "traffic"
        /\ call'[t].at \in Firings /\ call'[t].event = "Down"
    BY <1>a, <1>6, FireCall DEF UseUnstamp, Events, Fired
  <2> QED BY <1>a, <1>b, <1>6, <2>1 DEF UseUnstamp, historyVars, optVars, Stamps, Idle
<1>7. CASE UseSince(t)
  <2>1. PICK l \in {"use_zero", "idle", "seed_load"} : Enter(t, l)
    BY <1>7, AfterUsable DEF UseSince
  <2>2. l \in PCs BY DEF PCs
  <2>3. Others(t) /\ call'[t].at = l /\ call'[t].src = "traffic" /\ call'[t].event = "None"
    BY <1>a, <2>1, <2>2, EnterCall
  <2> QED BY <1>a, <1>b, <1>7, <2>1, <2>3 DEF UseSince, backendVars, historyVars, optVars
<1>8. CASE UseZero(t)
  <2>1. Others(t) /\ call'[t].at = "use_recover" /\ call'[t].src = call[t].src
    BY <1>a, <1>8, GotoCall DEF UseZero, PCs
  <2> QED BY <1>a, <1>b, <1>8, <2>1 DEF UseZero, historyVars, optVars
<1>9. CASE UseRecover(t)
  <2>1. Sound(t) BY <1>9, RecoveryStep DEF UseRecover
  <2> QED BY <2>1
<1> QED BY <1>1, <1>2, <1>3, <1>4, <1>5, <1>6, <1>7, <1>8, <1>9

\* A call after its callback.
LEMMA AfterCallback ==
  ASSUME call \in [Thread -> Call], NEW t \in Thread, Callback(t)
  PROVE  /\ Others(t) /\ call'[t].src \in {call[t].src, "traffic"}
         /\ call'[t].at = IF call[t].seeds THEN "seed" ELSE "idle"
         /\ call[t].seeds => call'[t].read = call[t].read
<1>1. CASE call[t].seeds
  <2> DEFINE c == [call[t] EXCEPT !.at = "seed", !.event = "None"]
  <2>1. call' = [call EXCEPT ![t] = c] BY <1>1 DEF Callback
  <2>2. call[t] \in Call OBVIOUS
  <2>3. /\ c \in Call /\ c.at = "seed" /\ c.src = call[t].src
        /\ c.seeds = call[t].seeds /\ c.read = call[t].read
    BY <2>2 DEF Call, PCs, Events
  <2> HIDE DEF c
  <2>4. Others(t) /\ call'[t] = c BY <2>1, <2>3, NewCall
  <2> QED BY <1>1, <2>3, <2>4
<1>2. CASE ~call[t].seeds BY <1>2, ReturnCall DEF Callback, Idle
<1> QED BY <1>1, <1>2

\* A reload that has read the health.
LEMMA AfterLoad ==
  ASSUME call \in [Thread -> Call], NEW t \in Thread, SeedLoad(t), healthy \in BOOLEAN
  PROVE  /\ Others(t) /\ call[t].at = "seed_load" /\ call'[t].src = call[t].src
         /\ call'[t].event = call[t].event /\ call'[t].read = healthy
         /\ call'[t].at = IF call[t].event = "None" THEN "seed" ELSE "fire"
<1> DEFINE l == IF call[t].event = "None" THEN "seed" ELSE "fire"
           c == [call[t] EXCEPT !.at = l, !.read = healthy]
<1>1. call' = [call EXCEPT ![t] = c] /\ call[t].at = "seed_load" BY DEF SeedLoad
<1>2. call[t] \in Call /\ l \in PCs BY DEF PCs
<1> HIDE DEF l
<1>3. /\ c \in Call /\ c.at = l /\ c.src = call[t].src /\ c.event = call[t].event
      /\ c.read = healthy
  BY <1>2 DEF Call
<1> HIDE DEF c
<1>4. Others(t) /\ call'[t] = c BY <1>1, <1>3, NewCall
<1> QED BY <1>1, <1>3, <1>4 DEF l

\* The state-change callback and the rest of the reload.
LEMMA CallbackStep ==
  ASSUME NEW t \in Thread, Ready(t),
         Callback(t) \/ SeedLoad(t) \/ Seed(t) \/ SetHealth(t)
  PROVE  Sound(t)
<1>a. /\ call \in [Thread -> Call] /\ Typed
      /\ call[t].src = "probe" => accused
      /\ ~healthy => downConfirm # "none" /\ accused
      /\ suspectSince = "old" => accused
  BY DEF Ready
<1>b. /\ call[t] \in Call /\ net \in Int /\ healthy \in BOOLEAN BY <1>a DEF Typed
<1> USE DEF Sound, Weight, TellsDown, TellsUp, Flipped, Confirming, Condemning, Firings
<1>1. CASE Callback(t)
  <2>1. /\ Others(t) /\ call'[t].src \in {call[t].src, "traffic"}
        /\ call'[t].at \in {"seed", "idle"}
    BY <1>a, <1>1, AfterCallback
  <2>2. Typed' BY <1>a, <1>1 DEF Typed, Callback, GaugeOf, backendVars, optVars
  <2>3. /\ call[t].at = "fire" /\ UNCHANGED <<healthy, suspectSince, downConfirm, accused>>
        /\ net' - net + Weight(call'[t]) - Weight(call[t]) = Flipped' - Flipped
    BY <1>b, <1>1, <2>1 DEF Callback, backendVars
  <2> HIDE DEF Weight, Flipped
  <2> QED BY <1>a, <2>1, <2>2, <2>3
<1>2. CASE SeedLoad(t)
  <2>1. /\ Others(t) /\ call[t].at = "seed_load" /\ call'[t].src = call[t].src
        /\ call'[t].event = call[t].event
        /\ call'[t].at = IF call[t].event = "None" THEN "seed" ELSE "fire"
    BY <1>a, <1>b, <1>2, AfterLoad
  <2>2. UNCHANGED <<healthy, suspectSince, downConfirm, accused, net>>
    BY <1>2 DEF SeedLoad, backendVars, historyVars, optVars
  <2>3. Typed' BY <1>a, <1>2 DEF Typed, SeedLoad, backendVars, optVars, historyVars
  <2>4. Weight(call'[t]) = Weight(call[t]) BY <2>1
  <2>5. Weight(call[t]) \in Int /\ Flipped \in Int /\ Flipped' = Flipped BY <2>2
  <2>6. net' - net + Weight(call'[t]) - Weight(call[t]) = Flipped' - Flipped
    <3> HIDE DEF Weight, Flipped
    <3> QED BY <1>b, <2>2, <2>4, <2>5
  <2> HIDE DEF Weight, Flipped
  <2> QED BY <1>a, <2>1, <2>2, <2>3, <2>6
<1>3. CASE Seed(t)
  <2>1. Others(t) /\ call'[t].at = "set_health" /\ call'[t].src = "traffic"
    BY <1>a, <1>3, EnterCall DEF Seed, PCs
  <2>2. gauge' \in BOOLEAN BY <1>b, <1>3 DEF Seed, Call
  <2>3. Typed' BY <1>a, <1>3, <2>2 DEF Typed, Seed, backendVars, optVars, historyVars
  <2> QED BY <1>a, <1>b, <1>3, <2>1, <2>3 DEF Seed, backendVars, historyVars, optVars, Idle
<1>4. CASE SetHealth(t)
  <2>1. Others(t) /\ call'[t] = Idle BY <1>a, <1>4, ReturnCall DEF SetHealth
  <2>2. Typed' BY <1>a, <1>4 DEF Typed, SetHealth, backendVars, historyVars, optVars
  <2> QED BY <1>a, <1>b, <1>4, <2>1, <2>2 DEF SetHealth, backendVars, historyVars, optVars, Idle
<1> QED BY <1>1, <1>2, <1>3, <1>4

-----------------------------------------------------------------------------
(* The theorems *)

\* A backend starts healthy, its goroutines idle.
LEMMA InitInv == Init => Inv
<1> SUFFICES ASSUME Init PROVE Inv OBVIOUS
<1>1. Idle \in Call BY IdleCall
<1>2. call \in [Thread -> Call] BY <1>1 DEF Init
<1>3. Typed
  <2>1. errCount \in 0..Fall /\ successCount \in 0..Rise /\ good \in 0..Rise BY DEF Init
  <2>2. /\ healthy \in BOOLEAN /\ gauge \in BOOLEAN /\ accused \in BOOLEAN
        /\ active \in BOOLEAN /\ fall \in Falls /\ rise \in Rises
    BY Zenon DEF Init
  <2>3. /\ suspectSince \in Stamps \cup {"none"} /\ downSince \in Stamps
        /\ downConfirm \in {"none", "probe", "window"} /\ net \in Int
    BY DEF Init, Stamps
  <2> QED BY <2>1, <2>2, <2>3 DEF Typed
<1>4. TypeOK BY <1>2, <1>3 DEF TypeOK, Typed, Call, Needs
<1>5. Explained /\ Justified
  BY DEF Init, Explained, DownIsExplained, Justified, TrafficNeverKills, Confirming, Condemning,
         Idle
<1>6. Told
  <2>1. Downs = {} /\ Ups = {} BY DEF Init, Downs, Ups, TellsDown, TellsUp, Idle, Firings
  <2>2. Cardinality(Downs) = 0 /\ Cardinality(Ups) = 0 BY <2>1, FS_EmptySet
  <2> QED BY <2>2 DEF Init, Told
<1> QED BY <1>4, <1>5, <1>6 DEF Inv

\* Time leaves the calls alone.
LEMMA WorldStep ==
  ASSUME Inv, AgeSuspect \/ AgeDown \/ UNCHANGED vars
  PROVE  Inv'
<1>1. UNCHANGED <<healthy, errCount, successCount, downConfirm, active, fall, rise, gauge, call,
                  net, good>>
  BY DEF AgeSuspect, AgeDown, vars, backendVars, optVars, historyVars
<1>2. /\ accused' \in BOOLEAN /\ downSince' \in Stamps
      /\ suspectSince' \in Stamps \cup {"none"}
      /\ accused => accused'
      /\ suspectSince' = "old" => accused'
  BY DEF Inv, TypeOK, Justified, AgeSuspect, AgeDown, vars, backendVars, historyVars, Stamps
<1>3. TypeOK' BY <1>1, <1>2 DEF Inv, TypeOK
<1>4. Explained' BY <1>1 DEF Inv, Explained, DownIsExplained
<1>5. Justified' BY <1>1, <1>2 DEF Inv, Justified, TrafficNeverKills
<1>6. Told' BY <1>1 DEF Inv, Told, Downs, Ups
<1> QED BY <1>3, <1>4, <1>5, <1>6 DEF Inv

\* Every step, whoever takes it.
LEMMA NextInv == Inv /\ [Next]_vars => Inv'
<1> SUFFICES ASSUME Inv, [Next]_vars PROVE Inv' OBVIOUS
<1>1. ASSUME NEW t \in Thread,
             \/ \E s \in Sources : ErrorBegin(t, s)
             \/ SuccessBegin(t) \/ UseBegin(t) \/ ReloadBegin(t) \/ Continue(t)
      PROVE  Inv'
  <2>1. Ready(t) BY ReadyStep
  <2>2. Sound(t) BY <1>1, <2>1, ErrorStep, SuccessStep, UseStep, CallbackStep DEF Continue
  <2> QED BY <2>2, SoundStep
<1>2. CASE AgeSuspect \/ AgeDown \/ UNCHANGED vars BY <1>2, WorldStep
<1> QED BY <1>1, <1>2 DEF Next

\* Whatever reports, picks and reloads interleave, a down has its reason and its
\* explanation, and every flip one teller.
THEOREM Invariance == Spec => []Inv
BY InitInv, NextInv, PTL DEF Spec

\* Every reachable state of a backend is well typed.
THEOREM BalancerTypeCorrect == Spec => []TypeOK
<1>1. Inv => TypeOK BY DEF Inv
<1> QED BY <1>1, Invariance, PTL

\* windowConfirm: whoever sees the backend down finds who confirmed it.
THEOREM DownIsExplainedCorrect == Spec => []DownIsExplained
<1>1. Inv => DownIsExplained BY DEF Inv, Explained
<1> QED BY <1>1, Invariance, PTL

\* ReportError: data-path errors alone never take a backend down.
THEOREM TrafficNeverKillsCorrect == Spec => []TrafficNeverKills
<1>1. Inv => TrafficNeverKills BY DEF Inv, Justified
<1> QED BY <1>1, Invariance, PTL

\* SetOnStateChange: the callback runs exactly once per transition.
THEOREM EveryFlipToldOnceCorrect == Spec => []EveryFlipToldOnce
<1>1. ASSUME Inv PROVE EveryFlipToldOnce
  <2>1. Downs = Firing("Down") \cup Winners /\ Ups = Firing("Recovered")
    BY DEF Downs, Ups, TellsDown, TellsUp, Firing, Winners, Firings
  <2> QED BY <1>1, <2>1 DEF Inv, Told, EveryFlipToldOnce
<1> QED BY <1>1, Invariance, PTL

-----------------------------------------------------------------------------
(* Reports that do not overlap: one goroutine, whose call is all there is *)

Up   == {"err_stamp", "err_suspect", "err_meta", "err_flip", "ok_errors", "ok_clear",
         "use_stamp", "use_meta", "use_flip"}
Down == {"ok_count", "ok_zero", "ok_flip", "use_since", "use_zero", "use_recover",
         "err_unstamp", "use_unstamp"}
Flips == {"err_unstamp", "use_unstamp"}

\* What the call has loaded is still so.
Current(c) == /\ c.at \in Up => healthy
              /\ c.at \in Down => ~healthy
              /\ c.at \in Condemning => suspectSince # "none"
              /\ ~healthy /\ c.at \notin Flips => suspectSince = "none"

\* It has a transition to tell, or is about to set the gauge.
Telling(c) == c.at \in Flips \cup {"fire"} \/ (c.at = "seed_load" /\ c.event # "None")
Writing(c) == Telling(c) \/ c.at = "seed"

\* What it has yet to tell, or to set, is how the backend is.
Tells(c) == /\ c.at \in Flips => ~healthy
            /\ c.at = "fire" \/ (c.at = "seed_load" /\ c.event # "None")
                 => healthy = GaugeOf(c.event)
            /\ c.at = "seed" \/ (c.at = "fire" /\ c.seeds) => c.read = healthy

\* The gauge is right but for that.
Shows(c) == Tells(c) /\ (~Writing(c) => gauge = healthy)

\* The streak that is counted is not longer than the one there was.
Streak(c) == /\ c.at \notin {"err_count", "err_reset"} => successCount <= good
             /\ c.at \in {"ok_health", "ok_count"}
                  => c.need <= Rise /\ (good = Rise \/ successCount + 1 <= good)
             /\ c.at \in {"ok_zero", "ok_flip"} => good >= c.need

Alone(c) == Current(c) /\ Shows(c) /\ Streak(c)

\* A step of the atomics is one of the documented machine, or none.
Mapped == [Promise!Next]_Shown

\* ReportError.
LEMMA ErrorAlone ==
  ASSUME NEW t \in Thread, Ready(t), Alone(call[t]),
         \/ \E s \in Sources : ErrorBegin(t, s)
         \/ ErrorCount(t) \/ ErrorReset(t) \/ ErrorHealth(t) \/ ErrorStamp(t) \/ ErrorSuspect(t)
         \/ ErrorMeta(t) \/ ErrorFlip(t) \/ ErrorUnstamp(t)
  PROVE  Alone(call[t])' /\ Mapped
<1>a. /\ call \in [Thread -> Call] /\ healthy \in BOOLEAN /\ gauge \in BOOLEAN
      /\ successCount \in 0..Rise /\ good \in 0..Rise
      /\ suspectSince \in Stamps \cup {"none"}
  BY DEF Ready, Typed
<1> USE DEF Alone, Current, Shows, Telling, Writing, Tells, Streak, Up, Down, Flips, Condemning,
        Mapped, Shown, Promise!Next,
        Promise!Accuse, Promise!Clear, Promise!Confirm, Promise!Recover
<1>1. ASSUME NEW s \in Sources, ErrorBegin(t, s) PROVE Alone(call[t])' /\ Mapped
  <2> DEFINE c == [Idle EXCEPT !.at = "err_count", !.src = s, !.need = fall]
  <2>1. /\ call[t].at = "idle" /\ call' = [call EXCEPT ![t] = c] /\ good' = 0
        /\ UNCHANGED <<healthy, successCount, suspectSince, gauge>>
    BY <1>1, Zenon DEF ErrorBegin, backendVars
  <2>2. c.at = "err_count" BY DEF Idle
  <2> HIDE DEF c
  <2>3. call'[t].at = "err_count" BY <1>a, <2>1, <2>2
  <2> QED BY <1>a, <2>1, <2>3
<1>9. CASE ErrorCount(t)
  <2> DEFINE fell == errCount + 1 >= call[t].need
             c == [Idle EXCEPT !.at = "err_reset", !.src = call[t].src, !.fell = fell]
  <2>1. /\ call[t].at = "err_count" /\ call' = [call EXCEPT ![t] = c]
        /\ UNCHANGED <<healthy, successCount, suspectSince, gauge, historyVars>>
    BY <1>9, Zenon DEF ErrorCount
  <2> HIDE DEF fell
  <2>2. c.at = "err_reset" BY DEF Idle
  <2> HIDE DEF c
  <2>3. call'[t].at = "err_reset" BY <1>a, <2>1, <2>2
  <2> QED BY <1>a, <2>1, <2>3
<1>2. CASE ErrorReset(t)
  <2>1. call'[t].at = "err_health"
    BY <1>a, <1>2, GotoCall DEF ErrorReset, PCs
  <2> QED BY <1>a, <1>2, <2>1 DEF ErrorReset, historyVars
<1>3. CASE ErrorHealth(t)
  <2>1. call'[t].at = IF healthy THEN "err_stamp" ELSE "idle"
    BY <1>a, <1>3, GotoCall, ReturnCall DEF ErrorHealth, PCs, Idle
  <2> QED BY <1>a, <1>3, <2>1 DEF ErrorHealth, backendVars, historyVars
<1>4. CASE ErrorStamp(t)
  <2>1. \/ call'[t].at \in {"err_suspect", "idle"}
        \/ call'[t].at = "err_meta" /\ suspectSince # "none"
    BY <1>a, <1>4, EnterCall DEF ErrorStamp, PCs, Idle
  <2> QED BY <1>a, <1>4, <2>1 DEF ErrorStamp, backendVars, historyVars
<1>5. CASE ErrorSuspect(t)
  <2>1. CASE suspectSince = "none"
    <3>1. Fired(call'[t], "Suspect")
      BY <1>a, <1>5, <2>1, FireCall DEF ErrorSuspect, Events
    <3> QED BY <1>a, <1>5, <2>1, <3>1 DEF ErrorSuspect, historyVars, GaugeOf, Fired
  <2>2. CASE suspectSince # "none"
    <3>1. call'[t].at = "idle" BY <1>a, <1>5, <2>2, ReturnCall DEF ErrorSuspect, Idle
    <3> QED BY <1>a, <1>5, <2>2, <3>1 DEF ErrorSuspect, historyVars, GaugeOf
  <2> QED BY <2>1, <2>2
<1>6. CASE ErrorMeta(t)
  <2>1. call'[t].at = "err_flip"
    BY <1>a, <1>6, GotoCall DEF ErrorMeta, PCs
  <2> QED BY <1>a, <1>6, <2>1 DEF ErrorMeta, historyVars
<1>7. CASE ErrorFlip(t)
  <2>1. /\ IF healthy THEN call'[t].at = "err_unstamp" ELSE call'[t].at \in {"idle", "seed_load"}
        /\ call'[t].event = "None"
    BY <1>a, <1>7, FlipDownCall DEF ErrorFlip, PCs
  <2> QED BY <1>a, <1>7, <2>1 DEF ErrorFlip, historyVars, FlipDown
<1>8. CASE ErrorUnstamp(t)
  <2>1. Fired(call'[t], "Down") BY <1>a, <1>8, FireCall DEF ErrorUnstamp, Events
  <2> QED BY <1>a, <1>8, <2>1 DEF ErrorUnstamp, historyVars, GaugeOf, Fired
<1> QED BY <1>1, <1>2, <1>3, <1>4, <1>5, <1>6, <1>7, <1>8, <1>9

\* ReportSuccess.
LEMMA SuccessAlone ==
  ASSUME NEW t \in Thread, Ready(t), Alone(call[t]),
         \/ SuccessBegin(t) \/ SuccessHealth(t) \/ SuccessErrors(t) \/ SuccessClear(t)
         \/ SuccessCount(t) \/ SuccessZero(t) \/ SuccessFlip(t)
  PROVE  Alone(call[t])' /\ Mapped
<1>a. /\ call \in [Thread -> Call] /\ healthy \in BOOLEAN /\ gauge \in BOOLEAN
      /\ successCount \in 0..Rise /\ good \in 0..Rise
      /\ suspectSince \in Stamps \cup {"none"}
  BY DEF Ready, Typed
<1> USE DEF Alone, Current, Shows, Telling, Writing, Tells, Streak, Up, Down, Flips, Condemning,
        Mapped, Shown, Promise!Next,
        Promise!Accuse, Promise!Clear, Promise!Confirm, Promise!Recover
<1>1. CASE SuccessBegin(t)
  <2> DEFINE c == [Idle EXCEPT !.at = "ok_health", !.act = active, !.need = rise]
  <2>1. c.at = "ok_health" /\ c.need = rise BY DEF Idle
  <2>2. call' = [call EXCEPT ![t] = c] BY <1>1 DEF SuccessBegin
  <2> HIDE DEF c
  <2>3. call'[t].at = "ok_health" /\ call'[t].need = rise BY <1>a, <2>1, <2>2
  <2>4. rise \in 1..Rise BY DEF Ready, Typed
  <2> QED BY <1>a, <1>1, <2>3, <2>4 DEF SuccessBegin, backendVars, Least
<1>2. CASE SuccessHealth(t)
  <2>1. \/ healthy /\ call'[t].at = "ok_errors"
        \/ ~healthy /\ call'[t].at = "ok_count" /\ call'[t].need = call[t].need
        \/ ~healthy /\ call'[t].at = "idle"
    <3>1. \/ healthy /\ Enter(t, "ok_errors")
          \/ ~healthy /\ Goto(t, "ok_count")
          \/ ~healthy /\ Return(t)
      BY <1>2 DEF SuccessHealth
    <3>2. "ok_errors" \in PCs /\ "ok_count" \in PCs BY DEF PCs
    <3> QED BY <1>a, <3>1, <3>2, EnterCall, GotoCall, ReturnCall
  <2> QED BY <1>a, <1>2, <2>1 DEF SuccessHealth, backendVars, historyVars
<1>3. CASE SuccessErrors(t)
  <2>1. call'[t].at = "ok_clear"
    BY <1>a, <1>3, GotoCall DEF SuccessErrors, PCs
  <2> QED BY <1>a, <1>3, <2>1 DEF SuccessErrors, historyVars
<1>4. CASE SuccessClear(t)
  <2>1. CASE suspectSince # "none"
    <3>1. Fired(call'[t], "Cleared")
      BY <1>a, <1>4, <2>1, FireCall DEF SuccessClear, Events
    <3> QED BY <1>a, <1>4, <2>1, <3>1 DEF SuccessClear, historyVars, GaugeOf, Fired
  <2>2. CASE suspectSince = "none"
    <3>1. call'[t].at = "idle" BY <1>a, <1>4, <2>2, ReturnCall DEF SuccessClear, Idle
    <3> QED BY <1>a, <1>4, <2>2, <3>1 DEF SuccessClear, historyVars, GaugeOf
  <2> QED BY <2>1, <2>2
<1>5. CASE SuccessCount(t)
  <2>1. \/ call'[t].at = "idle"
        \/ /\ call'[t].at = "ok_zero" /\ call'[t].need = call[t].need
           /\ successCount + 1 >= call[t].need
    <3>1. (successCount + 1 >= call[t].need /\ Goto(t, "ok_zero")) \/ Return(t)
      BY <1>5 DEF SuccessCount
    <3>2. "ok_zero" \in PCs BY DEF PCs
    <3> QED BY <1>a, <3>1, <3>2, GotoCall, ReturnCall
  <2>2. call[t].need \in Int BY <1>a, NeedInt
  <2> QED BY <1>a, <1>5, <2>1, <2>2 DEF SuccessCount, historyVars, Least
<1>6. CASE SuccessZero(t)
  <2>1. call'[t].at = "ok_flip" /\ call'[t].need = call[t].need
    BY <1>a, <1>6, GotoCall DEF SuccessZero, PCs
  <2>2. call[t].need \in Int BY <1>a, NeedInt
  <2> QED BY <1>a, <1>6, <2>1, <2>2 DEF SuccessZero, historyVars
<1>7. CASE SuccessFlip(t)
  <2>1. IF healthy THEN call'[t].at \in {"idle", "seed_load"} /\ call'[t].event = "None"
                   ELSE Fired(call'[t], "Recovered")
    BY <1>a, <1>7, FlipUpCall DEF SuccessFlip
  <2> QED BY <1>a, <1>7, <2>1 DEF SuccessFlip, FlipUp, historyVars, GaugeOf, Fired
<1> QED BY <1>1, <1>2, <1>3, <1>4, <1>5, <1>6, <1>7

\* usable, on behalf of Pick and Snapshot.
LEMMA UseAlone ==
  ASSUME NEW t \in Thread, Ready(t), Alone(call[t]),
         \/ UseBegin(t) \/ ReloadBegin(t) \/ UseHealth(t) \/ UseStamp(t) \/ UseMeta(t) \/ UseFlip(t)
         \/ UseUnstamp(t) \/ UseSince(t) \/ UseZero(t) \/ UseRecover(t)
  PROVE  Alone(call[t])' /\ Mapped
<1>a. /\ call \in [Thread -> Call] /\ healthy \in BOOLEAN /\ gauge \in BOOLEAN
      /\ successCount \in 0..Rise /\ good \in 0..Rise
      /\ suspectSince \in Stamps \cup {"none"}
  BY DEF Ready, Typed
<1> USE DEF Alone, Current, Shows, Telling, Writing, Tells, Streak, Up, Down, Flips, Condemning,
        Mapped, Shown, Promise!Next,
        Promise!Accuse, Promise!Clear, Promise!Confirm, Promise!Recover
<1>1. CASE UseBegin(t) \/ ReloadBegin(t)
  <2>1. active \in BOOLEAN BY DEF Ready, Typed
  <2>2. /\ call[t].at = "idle" /\ call'[t].at = "use_health"
        /\ UNCHANGED <<backendVars, optVars, gauge, historyVars>>
    BY <1>a, <1>1, <2>1, BeginUse
  <2> QED BY <1>a, <2>2 DEF backendVars, historyVars
<1>2. CASE UseHealth(t)
  <2>1. /\ call'[t].event = "None"
        /\ \/ healthy /\ call'[t].at = "use_stamp"
           \/ ~healthy /\ call'[t].at = "use_since"
           \/ call'[t].at \in {"idle", "seed_load"}
    <3>1. PICK l \in {"use_stamp", "use_since", "idle", "seed_load"} :
            Enter(t, l) /\ (l = "use_stamp" => healthy) /\ (l = "use_since" => ~healthy)
      BY <1>2, AfterUsable DEF UseHealth
    <3>2. l \in PCs BY DEF PCs
    <3> QED BY <1>a, <3>1, <3>2, EnterCall
  <2> QED BY <1>a, <1>2, <2>1 DEF UseHealth, backendVars, historyVars
<1>3. CASE UseStamp(t)
  <2>1. /\ call'[t].event = "None"
        /\ \/ suspectSince = "old" /\ call'[t].at = "use_meta"
           \/ call'[t].at \in {"idle", "seed_load"}
    <3>1. PICK l \in {"use_meta", "idle", "seed_load"} :
            Enter(t, l) /\ (l = "use_meta" => suspectSince = "old")
      BY <1>3, AfterUsable DEF UseStamp, WindowElapsed
    <3>2. l \in PCs BY DEF PCs
    <3> QED BY <1>a, <3>1, <3>2, EnterCall
  <2> QED BY <1>a, <1>3, <2>1 DEF UseStamp, backendVars, historyVars
<1>4. CASE UseMeta(t)
  <2>1. call'[t].at = "use_flip"
    BY <1>a, <1>4, GotoCall DEF UseMeta, PCs
  <2> QED BY <1>a, <1>4, <2>1 DEF UseMeta, historyVars
<1>5. CASE UseFlip(t)
  <2>1. /\ IF healthy THEN call'[t].at = "use_unstamp" ELSE call'[t].at \in {"idle", "seed_load"}
        /\ call'[t].event = "None"
    BY <1>a, <1>5, FlipDownCall DEF UseFlip, PCs
  <2> QED BY <1>a, <1>5, <2>1 DEF UseFlip, historyVars, FlipDown
<1>6. CASE UseUnstamp(t)
  <2>1. Fired(call'[t], "Down") BY <1>a, <1>6, FireCall DEF UseUnstamp, Events
  <2> QED BY <1>a, <1>6, <2>1 DEF UseUnstamp, historyVars, GaugeOf, Fired
<1>7. CASE UseSince(t)
  <2>1. call'[t].event = "None" /\ call'[t].at \in {"use_zero", "idle", "seed_load"}
    <3>1. PICK l \in {"use_zero", "idle", "seed_load"} : Enter(t, l)
      BY <1>7, AfterUsable DEF UseSince
    <3>2. l \in PCs BY DEF PCs
    <3> QED BY <1>a, <3>1, <3>2, EnterCall
  <2> QED BY <1>a, <1>7, <2>1 DEF UseSince, backendVars, historyVars
<1>8. CASE UseZero(t)
  <2>1. call'[t].at = "use_recover"
    BY <1>a, <1>8, GotoCall DEF UseZero, PCs
  <2> QED BY <1>a, <1>8, <2>1 DEF UseZero, historyVars
<1>9. CASE UseRecover(t)
  <2>1. IF healthy THEN call'[t].at \in {"idle", "seed_load"} /\ call'[t].event = "None"
                   ELSE Fired(call'[t], "Recovered")
    BY <1>a, <1>9, FlipUpCall DEF UseRecover
  <2> QED BY <1>a, <1>9, <2>1 DEF UseRecover, FlipUp, historyVars, GaugeOf, Fired
<1> QED BY <1>1, <1>2, <1>3, <1>4, <1>5, <1>6, <1>7, <1>8, <1>9

\* The callback, the rest of the reload, and time.
LEMMA OtherAlone ==
  ASSUME NEW t \in Thread, Ready(t), Alone(call[t]),
         \/ Callback(t) \/ SeedLoad(t) \/ Seed(t) \/ SetHealth(t)
         \/ AgeSuspect \/ AgeDown \/ UNCHANGED vars
  PROVE  Alone(call[t])' /\ Mapped
<1>a. /\ call \in [Thread -> Call] /\ healthy \in BOOLEAN /\ gauge \in BOOLEAN
      /\ successCount \in 0..Rise /\ good \in 0..Rise
      /\ suspectSince \in Stamps \cup {"none"}
  BY DEF Ready, Typed
<1> USE DEF Alone, Current, Shows, Telling, Writing, Tells, Streak, Up, Down, Flips, Condemning,
        Mapped, Shown
<1>1. CASE Callback(t)
  <2>1. /\ call'[t].at = IF call[t].seeds THEN "seed" ELSE "idle"
        /\ call[t].seeds => call'[t].read = call[t].read
    BY <1>a, <1>1, AfterCallback
  <2> QED BY <1>a, <1>1, <2>1 DEF Callback, backendVars
<1>2. CASE AgeSuspect BY <1>a, <1>2 DEF AgeSuspect
<1>3. CASE AgeDown BY <1>a, <1>3 DEF AgeDown, historyVars
<1>4. CASE SetHealth(t)
  <2>1. call'[t].at = "idle" BY <1>a, <1>4, ReturnCall DEF SetHealth
  <2> QED BY <1>a, <1>4, <2>1 DEF SetHealth, backendVars, historyVars
<1>5. CASE UNCHANGED vars BY <1>a, <1>5 DEF vars, backendVars, historyVars
<1>6. CASE SeedLoad(t)
  <2>1. /\ call[t].at = "seed_load" /\ call'[t].event = call[t].event /\ call'[t].read = healthy
        /\ call'[t].at = IF call[t].event = "None" THEN "seed" ELSE "fire"
    BY <1>a, <1>6, AfterLoad
  <2> QED BY <1>a, <1>6, <2>1 DEF SeedLoad, backendVars, historyVars
<1>7. CASE Seed(t)
  <2>1. call'[t].at = "set_health" BY <1>a, <1>7, EnterCall DEF Seed, PCs
  <2> QED BY <1>a, <1>7, <2>1 DEF Seed, backendVars, historyVars
<1> QED BY <1>1, <1>2, <1>3, <1>4, <1>5, <1>6, <1>7

\* At the start nothing is loaded or owed.
LEMMA AloneInit ==
  ASSUME NEW t \in Thread, Init
  PROVE  Alone(call[t]) /\ Promise!Init
<1>1. call[t] = Idle /\ healthy = TRUE /\ gauge = TRUE /\ suspectSince = "none"
      /\ successCount = 0 /\ good = 0
  BY Zenon DEF Init
<1>2. Current(call[t]) BY <1>1 DEF Current, Up, Down, Flips, Condemning, Idle
<1>3. Shows(call[t]) BY <1>1 DEF Shows, Telling, Writing, Tells, Flips, Idle
<1>4. Streak(call[t]) BY <1>1 DEF Streak, Idle
<1> QED BY <1>1, <1>2, <1>3, <1>4 DEF Alone, Promise!Init, Shown

\* Every step of the one goroutine, and of the world.
LEMMA AloneNext ==
  ASSUME NEW t \in Thread, Thread = {t}, Inv, Alone(call[t]), [Next]_vars
  PROVE  Alone(call[t])' /\ Mapped
<1>1. Ready(t) BY ReadyStep
<1>2. \/ \E s \in Sources : ErrorBegin(t, s)
      \/ SuccessBegin(t) \/ UseBegin(t) \/ ReloadBegin(t) \/ Continue(t)
      \/ AgeSuspect \/ AgeDown \/ UNCHANGED vars
  BY DEF Next
<1> QED BY <1>1, <1>2, ErrorAlone, SuccessAlone, UseAlone, OtherAlone DEF Continue

\* One goroutine: none reports while another does.
THEOREM HealthPromiseCorrect ==
  ASSUME NEW t \in Thread, Thread = {t}
  PROVE  Spec => HealthPromise
<1>1. Init => Alone(call[t]) /\ Promise!Init BY AloneInit
<1>2. Inv /\ Alone(call[t]) /\ [Next]_vars => Alone(call[t])' BY AloneNext
<1>3. Inv /\ Alone(call[t]) /\ [Next]_vars => [Promise!Next]_Shown BY AloneNext DEF Mapped
<1> QED BY <1>1, <1>2, <1>3, Invariance, PTL DEF Spec, HealthPromise, Promise!Spec

\* The gauge's help text, for reports that do not overlap.
THEOREM GaugeTellsHealthCorrect ==
  ASSUME NEW t \in Thread, Thread = {t}
  PROVE  Spec => []GaugeTellsHealth
<1>1. Init => Alone(call[t]) BY AloneInit
<1>2. Inv /\ Alone(call[t]) /\ [Next]_vars => Alone(call[t])' BY AloneNext
<1>3. Alone(call[t]) => GaugeTellsHealth 
  BY DEF Alone, Shows, Telling, Writing, Flips, GaugeTellsHealth, Quiet
<1> QED BY <1>1, <1>2, <1>3, Invariance, PTL DEF Spec

\* ReportSuccess with active checks: only as many consecutive successes as the
\* last one found the threshold to be bring a backend back, whatever reloads
\* come in between, for reports that do not overlap.
THEOREM RiseConsecutiveCorrect ==
  ASSUME NEW u \in Thread, Thread = {u}
  PROVE  Spec => RiseConsecutive
<1> DEFINE Earned ==
      \A t \in Thread : call[t].at = "ok_flip" /\ ~healthy /\ healthy' => good >= call[t].need
<1>1. Init => Alone(call[u]) BY AloneInit
<1>2. Inv /\ Alone(call[u]) /\ [Next]_vars => Alone(call[u])' BY AloneNext
<1>3. Inv /\ Alone(call[u]) => Earned BY DEF Alone, Streak, Inv, TypeOK
<1> HIDE DEF Earned
<1>4. Inv /\ Alone(call[u]) /\ [Next]_vars => [Earned]_vars BY <1>3
<1>5. Spec => [][Earned]_vars BY <1>1, <1>2, <1>4, Invariance, PTL DEF Spec
<1> QED BY <1>5 DEF RiseConsecutive, Earned

-----------------------------------------------------------------------------
(* Reports that overlap: what the observer knows *)

\* What the call has read of the backend's health is still so.
Seen(c) == /\ c.at \in Up => healthy
           /\ c.at \in Down \ Flips => ~healthy

\* The suspicion it is about to confirm still stands.
Standing(c) == c.at \in Condemning => suspectSince # "none"

\* The calls no transition came in the middle of.
Fresh == behind \in SUBSET Thread /\ \A t \in Thread \ behind : Seen(call[t])

\* After a transition or a reseeding that crossed none, one call at most has
\* something to tell, or to set.
Latest == ~crossed => /\ \A t, u \in Writers : t = u
                      /\ \A t \in Writers : Tells(call[t])
                      /\ GaugeUnlessCrossed

\* As long as no transitions crossed, no suspicion is lost and none outlives
\* its down.
Untangled == ~tangled => /\ \A t, u \in Tellers : t = u
                         /\ \A t \in Thread : call[t].at \in Flips => ~healthy
                         /\ \A t \in Thread \ behind : Standing(call[t])
                         /\ ~healthy /\ (\A t \in Thread : call[t].at \notin Flips)
                              => suspectSince = "none"

OverlapInv == Fresh /\ Latest /\ Untangled

-----------------------------------------------------------------------------
(* The six kinds of steps of a call *)

\* One that changes nothing that others see of the backend's health,
Plain(t) ==
  /\ Others(t) /\ ~Writing(call[t]) /\ ~Writing(call'[t])
  /\ UNCHANGED <<healthy, gauge, suspectSince>>
  /\ Seen(call[t]) => Seen(call'[t])
  /\ Standing(call[t]) => Standing(call'[t])

\* a transition,
Moves(t) ==
  /\ Others(t) /\ ~Writing(call[t]) /\ Telling(call'[t]) /\ gauge' = gauge
  /\ Seen(call[t]) => Tells(call[t])'
  /\ Seen(call[t]) /\ Standing(call[t]) /\ (~healthy => suspectSince = "none")
       => /\ [Promise!Next]_Shown
          /\ ~healthy' /\ call'[t].at \notin Flips => suspectSince' = "none"

\* the end of a suspicion that was confirmed,
Unstamps(t) ==
  /\ Others(t) /\ call[t].at \in Flips /\ Fired(call'[t], "Down")
  /\ UNCHANGED <<healthy, gauge>> /\ suspectSince' = "none"

\* the telling,
Informs(t) ==
  /\ Others(t) /\ call[t].at = "fire"
  /\ call'[t].at = IF call[t].seeds THEN "seed" ELSE "idle"
  /\ call[t].seeds => call'[t].read = call[t].read
  /\ UNCHANGED <<healthy, suspectSince>> /\ gauge' = GaugeOf(call[t].event)

\* the reading of a reload,
Reads(t) ==
  /\ Others(t) /\ call[t].at = "seed_load"
  /\ call'[t].at = IF call[t].event = "None" THEN "seed" ELSE "fire"
  /\ call'[t].event = call[t].event /\ call'[t].read = healthy
  /\ UNCHANGED <<healthy, gauge, suspectSince>>

\* and the seeding of the gauge with it.
Seeds(t) ==
  /\ Others(t) /\ call[t].at = "seed" /\ call'[t].at = "set_health"
  /\ UNCHANGED <<healthy, suspectSince>> /\ gauge' = call[t].read

Kinds(t) == Plain(t) \/ Moves(t) \/ Unstamps(t) \/ Informs(t) \/ Reads(t) \/ Seeds(t)

\* ReportError.
LEMMA ErrorKind ==
  ASSUME NEW t \in Thread, Ready(t),
         \/ \E s \in Sources : ErrorBegin(t, s)
         \/ ErrorCount(t) \/ ErrorReset(t) \/ ErrorHealth(t) \/ ErrorStamp(t) \/ ErrorSuspect(t)
         \/ ErrorMeta(t) \/ ErrorFlip(t) \/ ErrorUnstamp(t)
  PROVE  Kinds(t)
<1>a. call \in [Thread -> Call] /\ healthy \in BOOLEAN /\ suspectSince \in Stamps \cup {"none"}
  BY DEF Ready, Typed
<1> USE DEF Plain, Writing, Telling, Seen, Standing, Up, Down, Flips, Condemning
<1>1. ASSUME NEW s \in Sources, ErrorBegin(t, s) PROVE Kinds(t)
  <2> DEFINE c == [Idle EXCEPT !.at = "err_count", !.src = s, !.need = fall]
  <2>1. /\ call[t].at = "idle" /\ call' = [call EXCEPT ![t] = c]
        /\ UNCHANGED <<healthy, suspectSince, gauge>>
    BY <1>1, Zenon DEF ErrorBegin, backendVars
  <2>2. fall \in Falls BY DEF Ready, Typed
  <2>3. c \in Call /\ c.at = "err_count" BY <2>2 DEF Call, PCs, Events, Sources, Idle, Needs
  <2> HIDE DEF c
  <2>4. Others(t) /\ call'[t].at = "err_count" BY <1>a, <2>1, <2>3, NewCall
  <2>5. Plain(t) BY <2>1, <2>4
  <2> QED BY <2>5 DEF Kinds
<1>9. CASE ErrorCount(t)
  <2> DEFINE fell == errCount + 1 >= call[t].need
             c == [Idle EXCEPT !.at = "err_reset", !.src = call[t].src, !.fell = fell]
  <2>1. /\ call[t].at = "err_count" /\ call' = [call EXCEPT ![t] = c]
        /\ UNCHANGED <<healthy, suspectSince, gauge>>
    BY <1>9, Zenon DEF ErrorCount
  <2>2. errCount \in Int /\ call[t].need \in Int BY <1>a, NeedInt DEF Ready, Typed
  <2>3. fell \in BOOLEAN BY <2>2
  <2> HIDE DEF fell
  <2>4. call[t].src \in Sources BY <1>a DEF Call
  <2>5. c \in Call /\ c.at = "err_reset" BY <2>3, <2>4 DEF Call, PCs, Events, Idle, Needs
  <2> HIDE DEF c
  <2>6. Others(t) /\ call'[t].at = "err_reset" BY <1>a, <2>1, <2>5, NewCall
  <2>7. Plain(t) BY <2>1, <2>6
  <2> QED BY <2>7 DEF Kinds
<1>2. CASE ErrorReset(t)
  <2>1. Others(t) /\ call'[t].at = "err_health" BY <1>a, <1>2, GotoCall DEF ErrorReset, PCs
  <2>2. Plain(t) BY <1>2, <2>1 DEF ErrorReset, historyVars
  <2> QED BY <2>2 DEF Kinds
<1>3. CASE ErrorHealth(t)
  <2>1. Others(t) /\ call'[t].at = IF healthy THEN "err_stamp" ELSE "idle"
    BY <1>a, <1>3, GotoCall, ReturnCall DEF ErrorHealth, PCs, Idle
  <2>2. Plain(t) BY <1>a, <1>3, <2>1 DEF ErrorHealth, backendVars, historyVars
  <2> QED BY <2>2 DEF Kinds
<1>4. CASE ErrorStamp(t)
  <2>1. /\ Others(t)
        /\ \/ call'[t].at \in {"err_suspect", "idle"}
           \/ call'[t].at = "err_meta" /\ suspectSince # "none"
    BY <1>a, <1>4, EnterCall DEF ErrorStamp, PCs, Idle
  <2>2. Plain(t) BY <1>a, <1>4, <2>1 DEF ErrorStamp, backendVars, historyVars
  <2> QED BY <2>2 DEF Kinds
<1>5. CASE ErrorSuspect(t)
  <2>1. CASE suspectSince = "none"
    <3>1. Others(t) /\ Fired(call'[t], "Suspect")
      BY <1>a, <1>5, <2>1, FireCall DEF ErrorSuspect, Events
    <3>2. Moves(t)
      BY <1>a, <1>5, <2>1, <3>1
      DEF ErrorSuspect, historyVars, Moves, Tells, GaugeOf, Fired, Shown, Promise!Next, Promise!Accuse
    <3> QED BY <3>2 DEF Kinds
  <2>2. CASE suspectSince # "none"
    <3>1. Others(t) /\ call'[t].at = "idle" BY <1>a, <1>5, <2>2, ReturnCall DEF ErrorSuspect, Idle
    <3>2. Plain(t) BY <1>a, <1>5, <2>2, <3>1 DEF ErrorSuspect, historyVars
    <3> QED BY <3>2 DEF Kinds
  <2> QED BY <2>1, <2>2
<1>6. CASE ErrorMeta(t)
  <2>1. Others(t) /\ call'[t].at = "err_flip" BY <1>a, <1>6, GotoCall DEF ErrorMeta, PCs
  <2>2. Plain(t) BY <1>6, <2>1 DEF ErrorMeta, historyVars
  <2> QED BY <2>2 DEF Kinds
<1>7. CASE ErrorFlip(t)
  <2>1. /\ Others(t) /\ call'[t].event = "None"
        /\ IF healthy THEN call'[t].at = "err_unstamp" ELSE call'[t].at \in {"idle", "seed_load"}
    BY <1>a, <1>7, FlipDownCall DEF ErrorFlip, PCs
  <2>2. CASE healthy
    <3>1. Moves(t)
      BY <1>a, <1>7, <2>1, <2>2
      DEF ErrorFlip, FlipDown, historyVars, Moves, Tells, Shown, Promise!Next, Promise!Confirm
    <3> QED BY <3>1 DEF Kinds
  <2>3. CASE ~healthy
    <3>1. Plain(t) BY <1>a, <1>7, <2>1, <2>3 DEF ErrorFlip, FlipDown, historyVars
    <3> QED BY <3>1 DEF Kinds
  <2> QED BY <2>2, <2>3
<1>8. CASE ErrorUnstamp(t)
  <2>1. Others(t) /\ Fired(call'[t], "Down") BY <1>a, <1>8, FireCall DEF ErrorUnstamp, Events
  <2>2. Unstamps(t) BY <1>8, <2>1 DEF ErrorUnstamp, Unstamps, historyVars
  <2> QED BY <2>2 DEF Kinds
<1> QED BY <1>1, <1>2, <1>3, <1>4, <1>5, <1>6, <1>7, <1>8, <1>9

\* ReportSuccess.
LEMMA SuccessKind ==
  ASSUME NEW t \in Thread, Ready(t),
         \/ SuccessBegin(t) \/ SuccessHealth(t) \/ SuccessErrors(t) \/ SuccessClear(t)
         \/ SuccessCount(t) \/ SuccessZero(t) \/ SuccessFlip(t)
  PROVE  Kinds(t)
<1>a. call \in [Thread -> Call] /\ healthy \in BOOLEAN /\ suspectSince \in Stamps \cup {"none"}
  BY DEF Ready, Typed
<1> USE DEF Plain, Writing, Telling, Seen, Standing, Up, Down, Flips, Condemning
<1>1. CASE SuccessBegin(t)
  <2> DEFINE c == [Idle EXCEPT !.at = "ok_health", !.act = active, !.need = rise]
  <2>1. c \in Call BY DEF Ready, Typed, Call, PCs, Events, Sources, Idle, Needs
  <2>2. Others(t) /\ call'[t] = c BY <1>a, <1>1, <2>1, NewCall DEF SuccessBegin
  <2>3. call'[t].at = "ok_health" BY <2>2 DEF Idle
  <2>4. Plain(t) BY <1>1, <2>2, <2>3 DEF SuccessBegin, backendVars, historyVars
  <2> QED BY <2>4 DEF Kinds
<1>2. CASE SuccessHealth(t)
  <2>1. /\ Others(t)
        /\ \/ healthy /\ call'[t].at = "ok_errors"
           \/ ~healthy /\ call'[t].at \in {"ok_count", "idle"}
    <3>1. \/ healthy /\ Enter(t, "ok_errors")
          \/ ~healthy /\ Goto(t, "ok_count")
          \/ ~healthy /\ Return(t)
      BY <1>2 DEF SuccessHealth
    <3>2. "ok_errors" \in PCs /\ "ok_count" \in PCs BY DEF PCs
    <3> QED BY <1>a, <3>1, <3>2, EnterCall, GotoCall, ReturnCall
  <2>2. Plain(t) BY <1>a, <1>2, <2>1 DEF SuccessHealth, backendVars, historyVars
  <2> QED BY <2>2 DEF Kinds
<1>3. CASE SuccessErrors(t)
  <2>1. Others(t) /\ call'[t].at = "ok_clear" BY <1>a, <1>3, GotoCall DEF SuccessErrors, PCs
  <2>2. Plain(t) BY <1>3, <2>1 DEF SuccessErrors, historyVars
  <2> QED BY <2>2 DEF Kinds
<1>4. CASE SuccessClear(t)
  <2>1. CASE suspectSince # "none"
    <3>1. Others(t) /\ Fired(call'[t], "Cleared")
      BY <1>a, <1>4, <2>1, FireCall DEF SuccessClear, Events
    <3>2. Moves(t)
      BY <1>a, <1>4, <2>1, <3>1
      DEF SuccessClear, historyVars, Moves, Tells, GaugeOf, Fired, Shown, Promise!Next, Promise!Clear
    <3> QED BY <3>2 DEF Kinds
  <2>2. CASE suspectSince = "none"
    <3>1. Others(t) /\ call'[t].at = "idle" BY <1>a, <1>4, <2>2, ReturnCall DEF SuccessClear, Idle
    <3>2. Plain(t) BY <1>a, <1>4, <2>2, <3>1 DEF SuccessClear, historyVars
    <3> QED BY <3>2 DEF Kinds
  <2> QED BY <2>1, <2>2
<1>5. CASE SuccessCount(t)
  <2>1. Others(t) /\ call'[t].at \in {"ok_zero", "idle"}
    <3>1. Goto(t, "ok_zero") \/ Return(t) BY <1>5 DEF SuccessCount
    <3>2. "ok_zero" \in PCs BY DEF PCs
    <3> QED BY <1>a, <3>1, <3>2, GotoCall, ReturnCall
  <2>2. Plain(t) BY <1>a, <1>5, <2>1 DEF SuccessCount, backendVars, historyVars
  <2> QED BY <2>2 DEF Kinds
<1>6. CASE SuccessZero(t)
  <2>1. Others(t) /\ call'[t].at = "ok_flip" BY <1>a, <1>6, GotoCall DEF SuccessZero, PCs
  <2>2. Plain(t) BY <1>6, <2>1 DEF SuccessZero, historyVars
  <2> QED BY <2>2 DEF Kinds
<1>7. CASE SuccessFlip(t)
  <2>1. /\ Others(t)
        /\ IF healthy THEN call'[t].at \in {"idle", "seed_load"} /\ call'[t].event = "None"
                      ELSE Fired(call'[t], "Recovered")
    BY <1>a, <1>7, FlipUpCall DEF SuccessFlip
  <2>2. CASE ~healthy
    <3>1. Moves(t)
      BY <1>a, <1>7, <2>1, <2>2
      DEF SuccessFlip, FlipUp, historyVars, Moves, Tells, GaugeOf, Fired, Shown, Promise!Next,
          Promise!Recover
    <3> QED BY <3>1 DEF Kinds
  <2>3. CASE healthy
    <3>1. Plain(t) BY <1>a, <1>7, <2>1, <2>3 DEF SuccessFlip, FlipUp, historyVars
    <3> QED BY <3>1 DEF Kinds
  <2> QED BY <2>2, <2>3
<1> QED BY <1>1, <1>2, <1>3, <1>4, <1>5, <1>6, <1>7

\* usable, on behalf of Pick and Snapshot.
LEMMA UseKind ==
  ASSUME NEW t \in Thread, Ready(t),
         \/ UseBegin(t) \/ ReloadBegin(t) \/ UseHealth(t) \/ UseStamp(t) \/ UseMeta(t) \/ UseFlip(t)
         \/ UseUnstamp(t) \/ UseSince(t) \/ UseZero(t) \/ UseRecover(t)
  PROVE  Kinds(t)
<1>a. call \in [Thread -> Call] /\ healthy \in BOOLEAN /\ suspectSince \in Stamps \cup {"none"}
  BY DEF Ready, Typed
<1> USE DEF Plain, Writing, Telling, Seen, Standing, Up, Down, Flips, Condemning
<1>1. CASE UseBegin(t) \/ ReloadBegin(t)
  <2>1. active \in BOOLEAN BY DEF Ready, Typed
  <2>2. /\ Others(t) /\ call[t].at = "idle" /\ call'[t].at = "use_health"
        /\ UNCHANGED <<backendVars, optVars, gauge, historyVars>>
    BY <1>a, <1>1, <2>1, BeginUse
  <2>3. Plain(t) BY <2>2 DEF backendVars
  <2> QED BY <2>3 DEF Kinds
<1>2. CASE UseHealth(t)
  <2>1. /\ Others(t) /\ call'[t].event = "None"
        /\ \/ healthy /\ call'[t].at = "use_stamp"
           \/ ~healthy /\ call'[t].at = "use_since"
           \/ call'[t].at \in {"idle", "seed_load"}
    <3>1. PICK l \in {"use_stamp", "use_since", "idle", "seed_load"} :
            Enter(t, l) /\ (l = "use_stamp" => healthy) /\ (l = "use_since" => ~healthy)
      BY <1>2, AfterUsable DEF UseHealth
    <3>2. l \in PCs BY DEF PCs
    <3> QED BY <1>a, <3>1, <3>2, EnterCall
  <2>2. Plain(t) BY <1>a, <1>2, <2>1 DEF UseHealth, backendVars, historyVars
  <2> QED BY <2>2 DEF Kinds
<1>3. CASE UseStamp(t)
  <2>1. /\ Others(t) /\ call'[t].event = "None"
        /\ \/ suspectSince = "old" /\ call'[t].at = "use_meta"
           \/ call'[t].at \in {"idle", "seed_load"}
    <3>1. PICK l \in {"use_meta", "idle", "seed_load"} :
            Enter(t, l) /\ (l = "use_meta" => suspectSince = "old")
      BY <1>3, AfterUsable DEF UseStamp, WindowElapsed
    <3>2. l \in PCs BY DEF PCs
    <3> QED BY <1>a, <3>1, <3>2, EnterCall
  <2>2. Plain(t) BY <1>a, <1>3, <2>1 DEF UseStamp, backendVars, historyVars
  <2> QED BY <2>2 DEF Kinds
<1>4. CASE UseMeta(t)
  <2>1. Others(t) /\ call'[t].at = "use_flip" BY <1>a, <1>4, GotoCall DEF UseMeta, PCs
  <2>2. Plain(t) BY <1>4, <2>1 DEF UseMeta, historyVars
  <2> QED BY <2>2 DEF Kinds
<1>5. CASE UseFlip(t)
  <2>1. /\ Others(t) /\ call'[t].event = "None"
        /\ IF healthy THEN call'[t].at = "use_unstamp" ELSE call'[t].at \in {"idle", "seed_load"}
    BY <1>a, <1>5, FlipDownCall DEF UseFlip, PCs
  <2>2. CASE healthy
    <3>1. Moves(t)
      BY <1>a, <1>5, <2>1, <2>2
      DEF UseFlip, FlipDown, historyVars, Moves, Tells, Shown, Promise!Next, Promise!Confirm
    <3> QED BY <3>1 DEF Kinds
  <2>3. CASE ~healthy
    <3>1. Plain(t) BY <1>a, <1>5, <2>1, <2>3 DEF UseFlip, FlipDown, historyVars
    <3> QED BY <3>1 DEF Kinds
  <2> QED BY <2>2, <2>3
<1>6. CASE UseUnstamp(t)
  <2>1. Others(t) /\ Fired(call'[t], "Down") BY <1>a, <1>6, FireCall DEF UseUnstamp, Events
  <2>2. Unstamps(t) BY <1>6, <2>1 DEF UseUnstamp, Unstamps, historyVars
  <2> QED BY <2>2 DEF Kinds
<1>7. CASE UseSince(t)
  <2>1. /\ Others(t) /\ call'[t].event = "None"
        /\ call'[t].at \in {"use_zero", "idle", "seed_load"}
    <3>1. PICK l \in {"use_zero", "idle", "seed_load"} : Enter(t, l)
      BY <1>7, AfterUsable DEF UseSince
    <3>2. l \in PCs BY DEF PCs
    <3> QED BY <1>a, <3>1, <3>2, EnterCall
  <2>2. Plain(t) BY <1>a, <1>7, <2>1 DEF UseSince, backendVars, historyVars
  <2> QED BY <2>2 DEF Kinds
<1>8. CASE UseZero(t)
  <2>1. Others(t) /\ call'[t].at = "use_recover" BY <1>a, <1>8, GotoCall DEF UseZero, PCs
  <2>2. Plain(t) BY <1>8, <2>1 DEF UseZero, historyVars
  <2> QED BY <2>2 DEF Kinds
<1>9. CASE UseRecover(t)
  <2>1. /\ Others(t)
        /\ IF healthy THEN call'[t].at \in {"idle", "seed_load"} /\ call'[t].event = "None"
                      ELSE Fired(call'[t], "Recovered")
    BY <1>a, <1>9, FlipUpCall DEF UseRecover
  <2>2. CASE ~healthy
    <3>1. Moves(t)
      BY <1>a, <1>9, <2>1, <2>2
      DEF UseRecover, FlipUp, historyVars, Moves, Tells, GaugeOf, Fired, Shown, Promise!Next,
          Promise!Recover
    <3> QED BY <3>1 DEF Kinds
  <2>3. CASE healthy
    <3>1. Plain(t) BY <1>a, <1>9, <2>1, <2>3 DEF UseRecover, FlipUp, historyVars
    <3> QED BY <3>1 DEF Kinds
  <2> QED BY <2>2, <2>3
<1> QED BY <1>1, <1>2, <1>3, <1>4, <1>5, <1>6, <1>7, <1>8, <1>9

\* The state-change callback and the rest of the reload.
LEMMA CallbackKind ==
  ASSUME NEW t \in Thread, Ready(t),
         Callback(t) \/ SeedLoad(t) \/ Seed(t) \/ SetHealth(t)
  PROVE  Kinds(t)
<1>a. call \in [Thread -> Call] /\ healthy \in BOOLEAN BY DEF Ready, Typed
<1>1. CASE Callback(t)
  <2>1. /\ Others(t) /\ call'[t].at = IF call[t].seeds THEN "seed" ELSE "idle"
        /\ call[t].seeds => call'[t].read = call[t].read
    BY <1>a, <1>1, AfterCallback
  <2>2. Informs(t) BY <1>1, <2>1 DEF Callback, Informs, backendVars
  <2> QED BY <2>2 DEF Kinds
<1>2. CASE SeedLoad(t)
  <2>1. /\ Others(t) /\ call[t].at = "seed_load" /\ call'[t].event = call[t].event
        /\ call'[t].read = healthy
        /\ call'[t].at = IF call[t].event = "None" THEN "seed" ELSE "fire"
    BY <1>a, <1>2, AfterLoad
  <2>2. Reads(t) BY <1>2, <2>1 DEF SeedLoad, Reads, backendVars
  <2> QED BY <2>2 DEF Kinds
<1>3. CASE Seed(t)
  <2>1. Others(t) /\ call'[t].at = "set_health" BY <1>a, <1>3, EnterCall DEF Seed, PCs
  <2>2. Seeds(t) BY <1>3, <2>1 DEF Seed, Seeds, backendVars
  <2> QED BY <2>2 DEF Kinds
<1>4. CASE SetHealth(t)
  <2>1. Others(t) /\ call'[t].at = "idle" BY <1>a, <1>4, ReturnCall DEF SetHealth
  <2>2. Plain(t)
    BY <1>4, <2>1 DEF SetHealth, Plain, Writing, Telling, Seen, Standing, Up, Down, Flips,
                      Condemning, backendVars
  <2> QED BY <2>2 DEF Kinds
<1> QED BY <1>1, <1>2, <1>3, <1>4

-----------------------------------------------------------------------------
(* What the observer sees of each kind *)

\* Nobody but t begins to tell or to write.
LEMMA ObserverStep ==
  ASSUME NEW t \in Thread, Others(t)
  PROVE  /\ Tellers' \ {t} = Tellers \ {t} /\ Writers' \ {t} = Writers \ {t}
         /\ t \in Tellers <=> Telling(call[t])
         /\ t \in Tellers' <=> Telling(call'[t])
         /\ t \in Writers <=> Writing(call[t])
         /\ t \in Writers' <=> Writing(call'[t])
         /\ \A u \in Thread : Transits(u) <=> u = t /\ ~Telling(call[t]) /\ Telling(call'[t])
         /\ \A u \in Thread : Writes(u) <=> u = t /\ ~Writing(call[t]) /\ Writing(call'[t])
<1>1. \A u \in Thread : u \in Tellers <=> Telling(call[u]) BY DEF Tellers, Telling, Flips
<1>2. \A u \in Thread : u \in Tellers' <=> Telling(call'[u]) BY DEF Tellers, Telling, Flips
<1>3. \A u \in Thread : u \in Writers <=> Writing(call[u]) BY <1>1 DEF Writers, Writing
<1>4. \A u \in Thread : u \in Writers' <=> Writing(call'[u]) BY <1>2 DEF Writers, Writing
<1>5. \A u \in Thread \ {t} : call'[u] = call[u] BY DEF Others
<1>6. /\ Tellers \subseteq Thread /\ Tellers' \subseteq Thread
      /\ Writers \subseteq Thread /\ Writers' \subseteq Thread
  BY DEF Tellers, Writers
<1>7. Tellers' \ {t} = Tellers \ {t} /\ Writers' \ {t} = Writers \ {t}
  BY <1>1, <1>2, <1>3, <1>4, <1>5, <1>6
<1>8. \A u \in Thread : Transits(u) <=> u = t /\ ~Telling(call[t]) /\ Telling(call'[t])
  BY <1>1, <1>2, <1>5 DEF Transits
<1>9. \A u \in Thread : Writes(u) <=> u = t /\ ~Writing(call[t]) /\ Writing(call'[t])
  BY <1>3, <1>4, <1>5 DEF Writes
<1> QED BY <1>1, <1>2, <1>3, <1>4, <1>7, <1>8, <1>9

\* A step that is no transition, and reads nothing to seed the gauge with,
\* leaves the observer as it is, but that it forgets the calls that have ended.
LEMMA NoTransit ==
  ASSUME NEW t \in Thread, Others(t), Watch, Telling(call[t]) \/ ~Telling(call'[t])
  PROVE  /\ tangled' <=> tangled
         /\ behind' = {u \in Thread : call'[u].at # "idle" /\ u \in behind}
         /\ crossed' = IF ~Writing(call[t]) /\ Writing(call'[t])
                         THEN (Writers # {} \/ Overtaken) ELSE crossed
<1>1. \A u \in Thread : ~Transits(u) BY ObserverStep
<1>2. (\E u \in Thread : Writes(u)) <=> ~Writing(call[t]) /\ Writing(call'[t]) BY ObserverStep
<1>3. /\ tangled' <=> tangled
      /\ behind' = {u \in Thread : call'[u].at # "idle" /\ u \in behind}
  BY <1>1 DEF Watch
<1>4. crossed' = IF \E u \in Thread : Writes(u) THEN Writers # {} \/ Overtaken ELSE crossed
  BY DEF Watch
<1> QED BY <1>2, <1>3, <1>4

\* A step that leaves the health and the suspicion as they are.
LEMMA StillStep ==
  ASSUME OverlapInv, NEW t \in Thread, Others(t), Watch,
         Telling(call[t]) \/ ~Telling(call'[t]),
         call[t].at \notin Flips, call'[t].at \notin Flips,
         UNCHANGED <<healthy, suspectSince>>,
         Seen(call[t]) => Seen(call'[t]), Standing(call[t]) => Standing(call'[t])
  PROVE  Fresh' /\ Untangled'
<1>1. /\ tangled' <=> tangled
      /\ behind' = {u \in Thread : call'[u].at # "idle" /\ u \in behind}
  BY NoTransit
<1>2. \A u \in Thread \ {t} : call'[u] = call[u] BY DEF Others
<1>3. \A u \in Thread \ behind' : call'[u].at = "idle" \/ u \notin behind BY <1>1
<1>4. Fresh'
  <2>1. ASSUME NEW u \in Thread \ behind' PROVE Seen(call[u])'
    <3>1. CASE call'[u].at = "idle" BY <3>1 DEF Seen, Up, Down
    <3>2. CASE u \notin behind
      <4>1. Seen(call[u]) BY <3>2 DEF OverlapInv, Fresh
      <4>2. Seen(call'[u]) BY <4>1, <1>2
      <4> QED BY <4>2 DEF Seen
    <3> QED BY <1>3, <3>1, <3>2
  <2> QED BY <1>1, <2>1 DEF Fresh
<1>5. Untangled'
  <2> SUFFICES ASSUME ~tangled' PROVE Untangled' BY DEF Untangled
  <2>1. /\ \A u, v \in Tellers : u = v
        /\ \A u \in Thread : call[u].at \in Flips => ~healthy
        /\ \A u \in Thread \ behind : Standing(call[u])
        /\ ~healthy /\ (\A u \in Thread : call[u].at \notin Flips) => suspectSince = "none"
    BY <1>1 DEF OverlapInv, Untangled
  <2>2. Tellers' \subseteq Tellers BY ObserverStep
  <2>3. ASSUME NEW u \in Thread \ behind' PROVE Standing(call[u])'
    <3>1. CASE call'[u].at = "idle" BY <3>1 DEF Standing, Condemning
    <3>2. CASE u \notin behind
      <4>1. Standing(call[u]) BY <2>1, <3>2
      <4>2. Standing(call'[u]) BY <4>1, <1>2
      <4> QED BY <4>2 DEF Standing
    <3> QED BY <1>3, <3>1, <3>2
  <2>4. \A u \in Thread : call'[u].at \in Flips <=> call[u].at \in Flips BY <1>2
  <2> QED BY <2>1, <2>2, <2>3, <2>4 DEF Untangled
<1> QED BY <1>4, <1>5

\* A step inside a call.
LEMMA PlainStep ==
  ASSUME OverlapInv, NEW t \in Thread, Plain(t), Watch
  PROVE  OverlapInv'
<1>1. Others(t) /\ ~Writing(call[t]) /\ ~Writing(call'[t]) BY DEF Plain
<1>2. ~Telling(call'[t]) BY <1>1 DEF Writing
<1>6. crossed' = crossed BY <1>1, <1>2, NoTransit
<1>7. Writers' = Writers
  <2>1. Writers' \ {t} = Writers \ {t} /\ t \notin Writers /\ t \notin Writers'
    BY <1>1, ObserverStep
  <2> QED BY <2>1
<1>3. UNCHANGED <<healthy, gauge, suspectSince>> BY DEF Plain
<1>4. Fresh' /\ Untangled'
  BY <1>1, <1>3, StillStep DEF Plain, Writing, Telling
<1>5. Latest'
  <2>1. \A u \in Writers : call'[u] = call[u]
    BY <1>1, ObserverStep DEF Others, Writers, Tellers
  <2> QED BY <1>3, <1>6, <1>7, <2>1 DEF OverlapInv, Latest, Tells, GaugeUnlessCrossed
<1> QED BY <1>4, <1>5 DEF OverlapInv

\* What a transition that crosses nothing starts from.
LEMMA Uncrossed ==
  ASSUME OverlapInv, NEW t \in Thread, Moves(t), Watch, ~crossed'
  PROVE  Writers' = {t} /\ Seen(call[t])
<1>1. Transits(t) /\ Writes(t) BY ObserverStep DEF Moves, Writing
<1>2. Writers = {} /\ ~Overtaken BY <1>1 DEF Watch
<1>3. t \notin behind BY <1>1, <1>2 DEF Overtaken
<1>4. Writers' = {t} BY <1>1, <1>2, ObserverStep DEF Moves, Writing
<1> QED BY <1>3, <1>4 DEF OverlapInv, Fresh

\* ... and when none has crossed before.
LEMMA UntangledMove ==
  ASSUME OverlapInv, NEW t \in Thread, Moves(t), Watch, ~tangled'
  PROVE  /\ [Promise!Next]_Shown /\ Tellers' = {t} /\ Tells(call[t])'
         /\ ~healthy' /\ call'[t].at \notin Flips => suspectSince' = "none"
<1>1. Transits(t) BY ObserverStep DEF Moves, Writing
<1>2. ~tangled /\ Tellers = {} /\ ~Overtaken BY <1>1 DEF Watch
<1>3. t \notin behind BY <1>1, <1>2 DEF Overtaken
<1>4. Tellers' = {t} BY <1>2, ObserverStep DEF Moves
<1>5. Seen(call[t]) /\ Standing(call[t]) BY <1>2, <1>3 DEF OverlapInv, Fresh, Untangled
<1>6. \A u \in Thread : call[u].at \notin Flips BY <1>2 DEF Tellers, Flips
<1>7. ~healthy => suspectSince = "none" BY <1>2, <1>6 DEF OverlapInv, Untangled
<1> QED BY <1>4, <1>5, <1>7 DEF Moves

\* A transition.
LEMMA MovesStep ==
  ASSUME OverlapInv, NEW t \in Thread, Moves(t), Watch
  PROVE  OverlapInv'
<1>1. Others(t) /\ ~Telling(call[t]) /\ Telling(call'[t]) BY DEF Moves, Writing
<1>2. \A u \in Thread : Transits(u) <=> u = t BY <1>1, ObserverStep
<1>3. behind' = {u \in Thread : call'[u].at # "idle" /\ (u \in behind \/ u # t)}
  BY <1>2 DEF Watch
<1>4. \A u \in Thread \ behind' : u = t \/ call'[u].at = "idle" BY <1>3
<1>5. call'[t].at \in Flips \cup {"fire", "seed_load"} BY <1>1 DEF Telling
<1>6. Fresh'
  <2>1. ASSUME NEW u \in Thread \ behind' PROVE Seen(call[u])'
    BY <1>4, <1>5 DEF Seen, Up, Down, Flips
  <2> QED BY <1>3, <2>1 DEF Fresh
<1>7. Latest'
  <2> SUFFICES ASSUME ~crossed' PROVE Latest' BY DEF Latest
  <2>1. Writers' = {t} /\ Tells(call[t])' BY Uncrossed DEF Moves
  <2> QED BY <2>1 DEF Latest, GaugeUnlessCrossed
<1>8. Untangled'
  <2> SUFFICES ASSUME ~tangled' PROVE Untangled' BY DEF Untangled
  <2>1. Tellers' = {t} /\ Tells(call[t])' BY UntangledMove
  <2>2. ASSUME NEW u \in Thread \ behind' PROVE Standing(call[u])'
    BY <1>4, <1>5 DEF Standing, Condemning, Flips
  <2>3. ~healthy' /\ call'[t].at \notin Flips => suspectSince' = "none" BY UntangledMove
  <2>4. ASSUME NEW u \in Thread, call'[u].at \in Flips PROVE ~healthy'
    <3>1. u \in Tellers' BY <2>4 DEF Tellers, Flips
    <3>2. u = t BY <2>1, <3>1
    <3> QED BY <2>1, <2>4, <3>2 DEF Tells
  <2> QED BY <2>1, <2>2, <2>3, <2>4 DEF Untangled
<1> QED BY <1>6, <1>7, <1>8 DEF OverlapInv

\* The end of a suspicion.
LEMMA UnstampsStep ==
  ASSUME healthy \in BOOLEAN, OverlapInv, NEW t \in Thread, Unstamps(t), Watch
  PROVE  OverlapInv'
<1>1. Others(t) /\ Telling(call[t]) /\ Telling(call'[t]) BY DEF Unstamps, Telling, Fired
<1>a. Writing(call[t]) /\ Writing(call'[t]) BY <1>1 DEF Writing
<1>2. /\ Tellers' = Tellers /\ Writers' = Writers /\ t \in Tellers /\ t \in Writers
  <2>1. /\ Tellers' \ {t} = Tellers \ {t} /\ t \in Tellers /\ t \in Tellers'
        /\ Writers' \ {t} = Writers \ {t} /\ t \in Writers /\ t \in Writers'
    BY <1>a, <1>1, ObserverStep
  <2> QED BY <2>1
<1>3. /\ crossed' = crossed /\ (tangled' <=> tangled)
      /\ behind' = {u \in Thread : call'[u].at # "idle" /\ u \in behind}
  BY <1>a, <1>1, NoTransit
<1>4. UNCHANGED <<healthy, gauge>> /\ suspectSince' = "none" BY DEF Unstamps
<1>5. \A u \in Thread \ {t} : call'[u] = call[u] BY <1>1 DEF Others
<1>6. call[t].at \in Flips /\ Fired(call'[t], "Down") /\ call'[t].at \in {"fire", "seed_load"}
  BY DEF Unstamps, Fired
<1>7. ASSUME NEW u \in Thread \ behind' PROVE Seen(call[u])'
  <2>1. CASE call'[u].at = "idle" BY <2>1 DEF Seen, Up, Down
  <2>2. CASE u = t BY <1>6, <2>2 DEF Seen, Up, Down
  <2>3. CASE u \notin behind /\ u # t
    <3>1. Seen(call[u]) BY <2>3 DEF OverlapInv, Fresh
    <3> QED BY <3>1, <2>3, <1>5, <1>4 DEF Seen
  <2> QED BY <1>3, <2>1, <2>2, <2>3
<1>8. Fresh' BY <1>3, <1>7 DEF Fresh
<1>9. Latest'
  <2> SUFFICES ASSUME ~crossed' PROVE Latest' BY DEF Latest
  <2>1. \A u \in Writers' : u = t BY <1>2, <1>3 DEF OverlapInv, Latest
  <2>2. ~healthy' BY <1>2, <1>3, <1>4, <1>6 DEF OverlapInv, Latest, Tells
  <2>3. Tells(call[t])' BY <1>4, <1>6, <2>2 DEF Tells, GaugeOf, Fired, Flips
  <2> QED BY <1>2, <2>1, <2>3 DEF Latest, GaugeUnlessCrossed
<1>10. Untangled'
  <2> SUFFICES ASSUME ~tangled' PROVE Untangled' BY DEF Untangled
  <2>1. ~healthy' BY <1>3, <1>4, <1>6 DEF OverlapInv, Untangled
  <2>2. \A u \in Thread \ behind' : call'[u].at \notin Condemning
    BY <1>7, <2>1 DEF Seen, Condemning, Up
  <2>3. \A u, v \in Tellers' : u = v BY <1>2, <1>3 DEF OverlapInv, Untangled
  <2> QED BY <1>4, <2>1, <2>2, <2>3 DEF Untangled, Standing
<1> QED BY <1>8, <1>9, <1>10 DEF OverlapInv

\* The telling, after which a reload still has its reading to set.
LEMMA InformsStep ==
  ASSUME healthy \in BOOLEAN, OverlapInv, NEW t \in Thread, Informs(t), Watch
  PROVE  OverlapInv'
<1>1. /\ Others(t) /\ call[t].at = "fire"
      /\ call'[t].at = IF call[t].seeds THEN "seed" ELSE "idle"
      /\ UNCHANGED <<healthy, suspectSince>> /\ gauge' = GaugeOf(call[t].event)
  BY DEF Informs
<1>2. Telling(call[t]) /\ Writing(call[t]) BY <1>1 DEF Telling, Writing
<1>3. crossed' = crossed BY <1>1, <1>2, NoTransit
<1>4. Fresh' /\ Untangled'
  BY <1>1, <1>2, StillStep DEF Flips, Seen, Standing, Up, Down, Condemning
<1>5. Latest'
  <2> SUFFICES ASSUME ~crossed' PROVE Latest' BY DEF Latest
  <2>1. Tells(call[t]) /\ \A u \in Writers : u = t
    BY <1>1, <1>2, <1>3, ObserverStep DEF OverlapInv, Latest
  <2>2. \A u \in Writers' : u = t BY <1>1, <2>1, ObserverStep
  <2>3. gauge' = healthy' BY <1>1, <2>1 DEF Tells
  <2>4. Tells(call[t])' BY <1>1, <2>1 DEF Tells, Informs, Flips
  <2> QED BY <2>2, <2>3, <2>4 DEF Latest, GaugeUnlessCrossed
<1> QED BY <1>4, <1>5 DEF OverlapInv

\* The reading of a reload.
LEMMA ReadsStep ==
  ASSUME OverlapInv, NEW t \in Thread, Reads(t), Watch
  PROVE  OverlapInv'
<1>1. /\ Others(t) /\ call[t].at = "seed_load"
      /\ call'[t].at = IF call[t].event = "None" THEN "seed" ELSE "fire"
      /\ call'[t].event = call[t].event /\ call'[t].read = healthy
      /\ UNCHANGED <<healthy, gauge, suspectSince>>
  BY DEF Reads
<1>2. (Telling(call[t]) \/ ~Telling(call'[t])) /\ Writing(call'[t])
  BY <1>1 DEF Telling, Writing, Flips
<1>3. Fresh' /\ Untangled'
  BY <1>1, <1>2, StillStep DEF Flips, Seen, Standing, Up, Down, Condemning
<1>4. Latest'
  <2> SUFFICES ASSUME ~crossed' PROVE Latest' BY DEF Latest
  <2>1. CASE Writing(call[t])
    <3>1. ~crossed BY <1>1, <1>2, <2>1, NoTransit
    <3>2. Tells(call[t]) /\ \A u \in Writers : u = t
      BY <1>1, <2>1, <3>1, ObserverStep DEF OverlapInv, Latest
    <3>3. \A u \in Writers' : u = t BY <1>1, <3>2, ObserverStep
    <3>4. t \in Writers' BY <1>1, <1>2, ObserverStep
    <3>5. Tells(call[t])' BY <1>1, <2>1, <3>2 DEF Tells, Writing, Telling, Flips
    <3> QED BY <3>3, <3>4, <3>5 DEF Latest, GaugeUnlessCrossed
  <2>2. CASE ~Writing(call[t])
    <3>1. Writers = {} BY <1>1, <1>2, <2>2, NoTransit
    <3>2. Writers' = {t} BY <1>1, <1>2, <3>1, ObserverStep
    <3>3. call[t].event = "None" BY <1>1, <2>2 DEF Writing, Telling
    <3>4. Tells(call[t])' BY <1>1, <3>3 DEF Tells, Flips
    <3> QED BY <3>2, <3>4 DEF Latest, GaugeUnlessCrossed
  <2> QED BY <2>1, <2>2
<1> QED BY <1>3, <1>4 DEF OverlapInv

\* The seeding of the gauge.
LEMMA SeedsStep ==
  ASSUME OverlapInv, NEW t \in Thread, Seeds(t), Watch
  PROVE  OverlapInv'
<1>1. /\ Others(t) /\ call[t].at = "seed" /\ call'[t].at = "set_health"
      /\ UNCHANGED <<healthy, suspectSince>> /\ gauge' = call[t].read
  BY DEF Seeds
<1>2. Writing(call[t]) /\ ~Writing(call'[t]) /\ ~Telling(call'[t])
  BY <1>1 DEF Telling, Writing, Flips
<1>3. crossed' = crossed BY <1>1, <1>2, NoTransit
<1>4. Fresh' /\ Untangled'
  BY <1>1, <1>2, StillStep DEF Flips, Seen, Standing, Up, Down, Condemning
<1>5. Latest'
  <2> SUFFICES ASSUME ~crossed' PROVE Latest' BY DEF Latest
  <2>1. Tells(call[t]) /\ \A u \in Writers : u = t
    BY <1>1, <1>2, <1>3, ObserverStep DEF OverlapInv, Latest
  <2>2. Writers' = {} BY <1>1, <1>2, <2>1, ObserverStep
  <2>3. gauge' = healthy' BY <1>1, <2>1 DEF Tells
  <2> QED BY <2>2, <2>3 DEF Latest, GaugeUnlessCrossed
<1> QED BY <1>4, <1>5 DEF OverlapInv

\* Time.
LEMMA WorldOverlap ==
  ASSUME OverlapInv, AgeSuspect \/ AgeDown \/ UNCHANGED vars, Watch
  PROVE  OverlapInv'
<1>1. UNCHANGED <<healthy, gauge, call>> /\ (suspectSince = "none" <=> suspectSince' = "none")
  BY DEF AgeSuspect, AgeDown, vars, backendVars, historyVars
<1>2. Tellers' = Tellers BY <1>1 DEF Tellers
<1>3. Writers' = Writers BY <1>1, <1>2 DEF Writers
<1>a. \A t \in Thread : ~Transits(t) /\ ~Writes(t) BY <1>2, <1>3 DEF Transits, Writes
<1>4. /\ crossed' = crossed /\ (tangled' <=> tangled)
      /\ behind' = {u \in Thread : call'[u].at # "idle" /\ u \in behind}
  BY <1>a DEF Watch
<1>5. \A u \in Thread \ behind' : call'[u] = call[u] /\ (call[u].at = "idle" \/ u \notin behind)
  BY <1>1, <1>4
<1>6. Fresh'
  <2>1. ASSUME NEW u \in Thread \ behind' PROVE Seen(call[u])'
    BY <1>1, <1>5 DEF OverlapInv, Fresh, Seen, Up, Down
  <2> QED BY <1>4, <2>1 DEF Fresh
<1>7. Latest' BY <1>1, <1>3, <1>4 DEF OverlapInv, Latest, Tells, GaugeUnlessCrossed
<1>8. Untangled'
  <2>1. ASSUME ~tangled', NEW u \in Thread \ behind' PROVE Standing(call[u])'
    BY <1>1, <1>4, <1>5, <2>1 DEF OverlapInv, Untangled, Standing, Condemning
  <2> QED BY <1>1, <1>2, <1>4, <2>1 DEF OverlapInv, Untangled
<1> QED BY <1>6, <1>7, <1>8 DEF OverlapInv

\* Every step of a call is of one of the kinds.
LEMMA StepKinds ==
  ASSUME Inv, Next
  PROVE  \/ \E t \in Thread : Kinds(t)
         \/ AgeSuspect \/ AgeDown
<1>1. \A t \in Thread : Ready(t) BY ReadyStep
<1> QED BY <1>1, ErrorKind, SuccessKind, UseKind, CallbackKind DEF Next, Continue

\* What the observer knows stays true.
LEMMA OverlapNext ==
  ASSUME Inv, OverlapInv, [Next /\ Watch]_watchedVars
  PROVE  OverlapInv'
<1>0. healthy \in BOOLEAN BY DEF Inv, TypeOK
<1>1. CASE Next /\ Watch
  BY <1>0, <1>1, StepKinds, PlainStep, MovesStep, UnstampsStep, InformsStep, ReadsStep,
     SeedsStep, WorldOverlap DEF Kinds
<1>2. CASE UNCHANGED watchedVars
  <2>1. UNCHANGED <<healthy, gauge, suspectSince, call, behind, crossed, tangled>>
    BY <1>2 DEF watchedVars, vars, backendVars, overlapVars
  <2>2. Tellers' = Tellers BY <2>1 DEF Tellers
  <2>3. Writers' = Writers BY <2>1, <2>2 DEF Writers
  <2> QED BY <2>1, <2>2, <2>3 DEF OverlapInv, Fresh, Latest, Untangled, Seen, Standing, Tells,
                                  GaugeUnlessCrossed
<1> QED BY <1>1, <1>2

\* The observer changes nothing.
LEMMA WatchedIsBalancer == WatchedSpec => Spec
<1>1. [Next /\ Watch]_watchedVars => [Next]_vars BY DEF watchedVars
<1> QED BY <1>1, PTL DEF WatchedSpec, Spec

\* What the observer knows holds throughout.
LEMMA OverlapInvariance == WatchedSpec => [](Inv /\ OverlapInv)
<1>1. Init /\ behind = {} /\ crossed = FALSE /\ tangled = FALSE => OverlapInv
  <2> SUFFICES ASSUME Init, behind = {}, crossed = FALSE, tangled = FALSE PROVE OverlapInv
    OBVIOUS
  <2>1. /\ \A t \in Thread : call[t].at = "idle"
        /\ healthy = TRUE /\ gauge = TRUE /\ suspectSince = "none"
    BY DEF Init, Idle
  <2>2. Tellers = {} /\ Writers = {}
    <3>1. Tellers = {} BY <2>1 DEF Tellers
    <3> QED BY <2>1, <3>1 DEF Writers
  <2> QED BY <2>1, <2>2 DEF OverlapInv, Fresh, Latest, Untangled, Seen, Standing, Up, Down,
                            Condemning, Flips, GaugeUnlessCrossed
<1> QED BY <1>1, OverlapNext, WatchedIsBalancer, Invariance, PTL DEF WatchedSpec

\* The gauge's help text, for any number of goroutines whose calls overlap in
\* any way, with a reload that seeds the gauge among them: once the last
\* transition is told, and no reload is about to seed the gauge, it shows the
\* backend's state unless the last transition or reseeding crossed another.
THEOREM GaugeUnlessCrossedCorrect == WatchedSpec => []GaugeUnlessCrossed
<1>1. OverlapInv => GaugeUnlessCrossed BY DEF OverlapInv, Latest, GaugeUnlessCrossed
<1> QED BY <1>1, OverlapInvariance, PTL

\* The documented machine, for any number of goroutines: every step of calls
\* that overlap is one of its arrows, or none, up to the first transition that
\* crosses another.
THEOREM PromiseUnlessTangledCorrect == WatchedSpec => PromiseUnlessTangled
<1> DEFINE Arrow == ~tangled' => [Promise!Next]_Shown
<1>1. ASSUME Inv, OverlapInv, Next /\ Watch PROVE Arrow
  <2> SUFFICES ASSUME ~tangled' PROVE [Promise!Next]_Shown OBVIOUS
  <2>1. CASE AgeSuspect \/ AgeDown
    <3>1. healthy' = healthy /\ (suspectSince = "none" <=> suspectSince' = "none")
      BY <2>1 DEF AgeSuspect, AgeDown
    <3> QED BY <3>1 DEF Shown
  <2>2. ASSUME NEW t \in Thread, Plain(t) \/ Informs(t) \/ Reads(t) \/ Seeds(t)
        PROVE  [Promise!Next]_Shown
    BY <2>2 DEF Plain, Informs, Reads, Seeds, Shown
  <2>3. ASSUME NEW t \in Thread, Moves(t) PROVE [Promise!Next]_Shown
    BY <1>1, <2>3, UntangledMove
  <2>4. ASSUME NEW t \in Thread, Unstamps(t) PROVE [Promise!Next]_Shown
    <3>1. ~tangled BY <1>1 DEF Watch
    <3>2. ~healthy BY <1>1, <2>4, <3>1 DEF OverlapInv, Untangled, Unstamps
    <3> QED BY <2>4, <3>2 DEF Unstamps, Shown
  <2> QED BY <1>1, <2>1, <2>2, <2>3, <2>4, StepKinds DEF Kinds
<1> HIDE DEF Arrow
<1>2. Inv /\ OverlapInv /\ [Next /\ Watch]_watchedVars => [Arrow]_watchedVars BY <1>1
<1>3. WatchedSpec => [][Arrow]_watchedVars BY <1>2, OverlapInvariance, PTL DEF WatchedSpec
<1> QED BY <1>3 DEF PromiseUnlessTangled, Arrow

-----------------------------------------------------------------------------
(* The choice of a backend: arithmetic of the rotation *)

\* What % and \div are.
LEMMA Quotient ==
  ASSUME NEW n \in Nat \ {0}, NEW t \in Nat
  PROVE  /\ t % n \in 0 .. n - 1
         /\ t \div n \in Nat
         /\ t = (n * (t \div n)) + (t % n)
OBVIOUS

\* Below n, the remainder is the number.
LEMMA Small ==
  ASSUME NEW n \in Nat \ {0}, NEW t \in 0 .. n - 1
  PROVE  t % n = t
OBVIOUS

\* A multiple of n leaves the remainder as it is.
LEMMA Multiple ==
  ASSUME NEW n \in Nat \ {0}, NEW q \in Nat, NEW r \in 0 .. n - 1
  PROVE  ((n * q) + r) % n = r
<1> DEFINE t == (n * q) + r
<1> DEFINE d == t \div n
<1> DEFINE s == t % n
<1>1. t \in Nat
  <2>1. n * q \in Nat OBVIOUS
  <2> QED BY <2>1
<1>2. s \in 0 .. n - 1 /\ d \in Nat /\ t = (n * d) + s BY <1>1, Quotient
<1> HIDE DEF s, d
<1>3. CASE d = q BY <1>2, <1>3 DEF s
<1>4. CASE d < q
  <2> DEFINE e == (q - d) - 1
  <2>1. e \in Nat /\ q = d + (e + 1) BY <1>2, <1>4
  <2> HIDE DEF e
  <2>2. n * q = ((n * d) + (n * e)) + n BY <2>1, <1>2
  <2>3. n * e \in Nat BY <2>1
  <2>4. n * d \in Nat BY <1>2
  <2> QED BY <1>2, <2>2, <2>3, <2>4
<1>5. CASE d > q
  <2> DEFINE e == (d - q) - 1
  <2>1. e \in Nat /\ d = q + (e + 1) BY <1>2, <1>5
  <2> HIDE DEF e
  <2>2. n * d = ((n * q) + (n * e)) + n BY <2>1, <1>2
  <2>3. n * e \in Nat BY <2>1
  <2>4. n * q \in Nat OBVIOUS
  <2> QED BY <1>2, <2>2, <2>3, <2>4
<1> QED BY <1>2, <1>3, <1>4, <1>5

\* Of n consecutive turns one leaves each remainder.
LEMMA TurnComes ==
  ASSUME NEW n \in Nat \ {0}, NEW t \in Nat, NEW x \in 0 .. n - 1
  PROVE  \E j \in 0 .. n - 1 : (t + j) % n = x
<1> DEFINE q == t \div n
<1> DEFINE r == t % n
<1>1. r \in 0 .. n - 1 /\ q \in Nat /\ t = (n * q) + r BY Quotient
<1> HIDE DEF q, r
<1>0. n * q \in Nat BY <1>1
<1>2. CASE r <= x
  <2>1. ((n * q) + x) % n = x BY <1>1, Multiple
  <2>2. t + (x - r) = (n * q) + x BY <1>1, <1>0
  <2>3. x - r \in 0 .. n - 1 BY <1>1, <1>2
  <2> WITNESS x - r \in 0 .. n - 1
  <2> QED BY <2>1, <2>2
<1>3. CASE r > x
  <2>1. ((n * (q + 1)) + x) % n = x BY <1>1, Multiple
  <2>2. n * (q + 1) = (n * q) + n BY <1>1
  <2>3. t + ((n - r) + x) = (n * (q + 1)) + x BY <1>1, <1>0, <2>2
  <2>4. (n - r) + x \in 0 .. n - 1 BY <1>1, <1>3
  <2> WITNESS (n - r) + x \in 0 .. n - 1
  <2> QED BY <2>1, <2>3
<1> QED BY <1>1, <1>2, <1>3

\* Of n consecutive turns one comes to each place.
LEMMA PlaceComes ==
  ASSUME NEW n \in Nat \ {0}, NEW t \in Nat, NEW x \in 1 .. n
  PROVE  \E d \in 0 .. n - 1 : ((t + d) % n) + 1 = x
<1> DEFINE y == x - 1
<1>1. y \in 0 .. n - 1 OBVIOUS
<1> HIDE DEF y
<1>2. PICK d \in 0 .. n - 1 : (t + d) % n = y BY <1>1, TurnComes
<1> QED BY <1>2 DEF y

-----------------------------------------------------------------------------
(* The call and what goes on meanwhile *)

PickIInv == PickTypeOK /\ PickInv

SeenState == [same : BOOLEAN, still : BOOLEAN, up : SUBSET Address,
              down : SUBSET Address, among : SUBSET Address]

\* A pool lists its backends once each.
LEMMA PoolFacts ==
  ASSUME NEW p \in Pools
  PROVE  /\ p \in Seq(Address)
         /\ Len(p) \in Nat \ {0}
         /\ DOMAIN p = 1 .. Len(p)
         /\ \A k \in 1 .. Len(p) : p[k] \in Address
         /\ \A k, l \in 1 .. Len(p) : p[k] = p[l] => k = l
         /\ \A a \in Range(p) : \E k \in 1 .. Len(p) : a = p[k]
         /\ \A k \in 1 .. Len(p) : p[k] \in Range(p)
<1>1. p \in Seq(Address) BY PickAssumption
<1>2. p # <<>> /\ IsInjective(p) BY PickAssumption
<1>3. Len(p) \in Nat /\ DOMAIN p = 1 .. Len(p) BY <1>1
<1>4. Len(p) # 0 BY <1>1, <1>2
<1>5. \A k \in 1 .. Len(p) : p[k] \in Address BY <1>1
<1>6. \A k, l \in 1 .. Len(p) : p[k] = p[l] => k = l BY <1>2, <1>3 DEF IsInjective
<1> QED BY <1>1, <1>3, <1>4, <1>5, <1>6 DEF Range
\* Where a call looks, and what it compares.
LEMMA CallFacts ==
  ASSUME PickTypeOK, PickStands, pick.at \in {"scan", "done"}
  PROVE  /\ pick.client \in Client /\ pick.list \in Pools /\ pick.mode \in Balances
         /\ Start \in 0 .. Len(pick.list) - 1
         /\ \A j \in 0 .. Len(pick.list) - 1 :
              /\ PlaceOf(j) \in 1 .. Len(pick.list)
              /\ Ranking => PlaceOf(j) = j + 1
         /\ PlaceOf(0) = IF Ranking THEN 1 ELSE Start + 1
         /\ \A a \in Address : Score(a) \in Int
<1>1. pick.client \in Client /\ pick.list \in Pools /\ pick.mode \in Balances
  BY DEF PickStands
<1> DEFINE n == Len(pick.list)
<1>2. n \in Nat \ {0} BY <1>1, PoolFacts
<1>3. pick.turn \in Nat
  <2>1. pick.turn \in 0 .. Width - 1 BY DEF PickTypeOK, PickState
  <2> QED BY <2>1, PickAssumption
<1> HIDE DEF n
<1>4. Start \in 0 .. n - 1 BY <1>2, <1>3, Quotient DEF Start, n
<1>5. ASSUME NEW j \in 0 .. n - 1 PROVE PlaceOf(j) \in 1 .. n /\ (Ranking => PlaceOf(j) = j + 1)
  <2>1. (Start + j) % n \in 0 .. n - 1
    <3>1. Start + j \in Nat BY <1>4, <1>2
    <3> QED BY <3>1, <1>2, Quotient
  <2> QED BY <2>1, <1>2 DEF PlaceOf, Ranking, n
<1>6. PlaceOf(0) = IF Ranking THEN 1 ELSE Start + 1
  <2>1. Start + 0 = Start BY <1>4, <1>2
  <2>2. Start % n = Start BY <1>4, <1>2, Small
  <2> QED BY <2>1, <2>2 DEF PlaceOf, Ranking, n
<1>7. ASSUME NEW a \in Address PROVE Score(a) \in Int
  <2>1. load[a] \in Int BY PickAssumption DEF PickTypeOK
  <2>2. Hash[<<pick.client, a>>] \in Nat BY PickAssumption, <1>1
  <2> QED BY <2>1, <2>2 DEF Score
<1> QED BY <1>1, <1>4, <1>5, <1>6, <1>7 DEF n

\* Health, the pool or the algorithm changes: what becomes of the notes.
LEMMA SeenNoted ==
  ASSUME PickTypeOK, up' \in [Address -> BOOLEAN], seen' = Noted(up')
  PROVE  /\ seen' \in SeenState
         /\ pick.at = "idle" => seen' = seen
         /\ pick.at # "idle" =>
              /\ ~seen'.same /\ seen'.still = seen.still /\ seen'.among = seen.among
              /\ seen'.up = seen.up \cup {a \in Address : up'[a]}
              /\ seen'.down = seen.down \cup {a \in Address : ~up'[a]}
<1>1. seen \in SeenState BY DEF PickTypeOK, SeenState
<1>2. CASE pick.at = "idle" BY <1>1, <1>2 DEF Noted
<1>3. CASE pick.at # "idle"
  <2> DEFINE us == {a \in Address : up'[a]}
             ds == {a \in Address : ~up'[a]}
  <2>1. seen' = [seen EXCEPT !.same = FALSE, !.up = @ \cup us, !.down = @ \cup ds]
    BY <1>3 DEF Noted
  <2>2. us \in SUBSET Address /\ ds \in SUBSET Address OBVIOUS
  <2> HIDE DEF us, ds
  <2>3. /\ seen' \in SeenState
        /\ ~seen'.same /\ seen'.still = seen.still /\ seen'.among = seen.among
        /\ seen'.up = seen.up \cup us /\ seen'.down = seen.down \cup ds
    BY <1>1, <2>1, <2>2 DEF SeenState
  <2> QED BY <1>3, <2>3 DEF us, ds
<1> QED BY <1>2, <1>3

\* The loads move.
LEMMA SeenStirred ==
  ASSUME PickTypeOK, seen' = [seen EXCEPT !.still = FALSE]
  PROVE  /\ seen' \in SeenState
         /\ ~seen'.still /\ seen'.same = seen.same /\ seen'.among = seen.among
         /\ seen'.up = seen.up /\ seen'.down = seen.down
<1>1. seen \in SeenState BY DEF PickTypeOK, SeenState
<1> QED BY <1>1 DEF SeenState

\* The pass has another to choose among.
LEMMA SeenAmong ==
  ASSUME PickTypeOK, NEW as \in SUBSET Address, seen' = [seen EXCEPT !.among = as]
  PROVE  /\ seen' \in SeenState
         /\ seen'.same = seen.same /\ seen'.still = seen.still /\ seen'.among = as
         /\ seen'.up = seen.up /\ seen'.down = seen.down
<1>1. seen \in SeenState BY DEF PickTypeOK, SeenState
<1> QED BY <1>1 DEF SeenState

\* Between calls.
LEMMA Resting == NoPick \in PickState /\ Unseen \in SeenState
<1>1. 0 \in 0 .. Width - 1 /\ 0 \in Nat /\ 0 \in Int
  <2>1. Width \in Nat \ {0} BY PickAssumption
  <2> QED BY <2>1
<1>2. NoPick \in PickState BY <1>1, Zenon DEF PickState, NoPick
<1>3. Unseen \in SeenState BY DEF SeenState, Unseen
<1> QED BY <1>2, <1>3

\* The invariant at the start.
LEMMA PickInitInv == PickInit => PickIInv
<1> SUFFICES ASSUME PickInit PROVE PickIInv OBVIOUS
<1>1. PickTypeOK
  <2>0. Width \in Nat \ {0} BY PickAssumption
  <2>1. cursor \in 0 .. Width - 1 BY <2>0 DEF PickInit
  <2>2. pick \in PickState /\ seen \in SeenState BY Resting DEF PickInit
  <2>4. recent \in Seq(Address) BY DEF PickInit
  <2> QED BY <2>1, <2>2, <2>4 DEF PickInit, PickTypeOK, SeenState
<1>2. PickStands /\ Observed /\ Passed /\ Ranked /\ TakesTurn
  BY DEF PickInit, PickStands, Observed, Passed, Ranked, TakesTurn, NoPick
<1>3. HomeBest BY DEF PickInit, HomeBest
<1>4. Rotates
  <2>1. NextTurn \in Nat BY PickAssumption DEF PickInit, NextTurn, NoPick
  <2> QED BY <2>1 DEF PickInit, Rotates
<1> QED BY <1>1, <1>2, <1>3, <1>4 DEF PickIInv, PickInv

\* The turn to come, counted on when the cursor wraps.
LEMMA NextTurnNat ==
  ASSUME PickTypeOK PROVE NextTurn \in Nat \ {0}
<1>1. pick.turn \in 0 .. Width - 1 BY DEF PickTypeOK, PickState
<1>2. cursor \in 0 .. Width - 1 BY DEF PickTypeOK
<1> QED BY <1>1, <1>2, PickAssumption DEF NextTurn

\* Health, the pool or the algorithm changes under a call.
LEMMA WorldMoves ==
  ASSUME PickIInv, UNCHANGED <<load, cursor, pick, home>>,
         pool' \in Pools, balance' \in Balances, up' \in [Address -> BOOLEAN],
         seen' = Noted(up'), recent' = <<>>
  PROVE  PickIInv'
<1> USE DEF PickIInv, PickInv
<1>0. /\ seen' \in SeenState
      /\ pick.at = "idle" => seen' = seen
      /\ pick.at # "idle" =>
           /\ ~seen'.same /\ seen'.still = seen.still /\ seen'.among = seen.among
           /\ seen'.up = seen.up \cup {a \in Address : up'[a]}
           /\ seen'.down = seen.down \cup {a \in Address : ~up'[a]}
  BY SeenNoted
<1>1. PickTypeOK'
  BY <1>0 DEF PickTypeOK, SeenState
<1>2. PickStands' BY <1>0 DEF PickStands, Advanced, Ranking
<1>3. Observed'
  <2>1. CASE pick.at = "idle" BY <2>1 DEF Observed
  <2>2. CASE pick.at # "idle" BY <2>2, <1>0, <1>1 DEF Observed, PickTypeOK
  <2> QED BY <2>1, <2>2
<1>4. Passed'
  <2>1. CASE pick.at = "idle" BY <2>1 DEF Passed
  <2>2. CASE pick.at # "idle" BY <2>2, <1>0 DEF Passed, Ranking, Answer, PlaceOf, Start
  <2> QED BY <2>1, <2>2
<1>5. Ranked' BY <1>0 DEF Ranked, Ranking, Answer, Score
<1>6. TakesTurn' BY <1>0 DEF TakesTurn
<1>7. HomeBest' BY DEF HomeBest
<1>8. Rotates'
  <2>1. NextTurn' \in Nat BY <1>1, NextTurnNat DEF NextTurn
  <2> QED BY <2>1 DEF Rotates
<1> QED BY <1>1, <1>2, <1>3, <1>4, <1>5, <1>6, <1>7, <1>8

\* What goes on meanwhile keeps the invariant.
LEMMA FlipInv == ASSUME PickIInv, NEW a \in Address, Flip(a) PROVE PickIInv'
<1>1. up' \in [Address -> BOOLEAN] BY DEF Flip, PickIInv, PickTypeOK
<1> QED BY <1>1, WorldMoves DEF Flip, PickIInv, PickTypeOK, pickConfigVars

LEMMA UpdateInv == ASSUME PickIInv, NEW p \in Pools, Update(p) PROVE PickIInv'
<1>1. up' \in [Address -> BOOLEAN] BY DEF Update, PickIInv, PickTypeOK
<1> QED BY <1>1, WorldMoves DEF Update, PickIInv, PickTypeOK

LEMMA SetBalanceInv == ASSUME PickIInv, NEW m \in Balances, SetBalance(m) PROVE PickIInv'
<1>1. up' = up BY DEF SetBalance
<1>2. seen' = Noted(up') BY <1>1 DEF SetBalance
<1> QED BY <1>1, <1>2, WorldMoves DEF SetBalance, PickIInv, PickTypeOK

LEMMA LoadChangesInv ==
  ASSUME PickIInv, NEW a \in Address, NEW n \in Loads, LoadChanges(a, n) PROVE PickIInv'
<1> USE DEF PickIInv, PickInv, LoadChanges, pickConfigVars
<1>0. /\ seen' \in SeenState
      /\ seen'.same = seen.same /\ seen'.among = seen.among
      /\ seen'.up = seen.up /\ seen'.down = seen.down
      /\ pick.at = "idle" \/ ~seen'.still
  <2>1. CASE pick.at = "idle" BY <2>1 DEF PickTypeOK, SeenState
  <2>2. CASE pick.at # "idle" BY <2>2, SeenStirred
  <2> QED BY <2>1, <2>2
<1>1. PickTypeOK' BY <1>0 DEF PickTypeOK, SeenState
<1>2. PickStands' BY <1>0 DEF PickStands, Advanced, Ranking
<1>3. Observed' BY <1>0 DEF Observed
<1>4. Passed' BY <1>0 DEF Passed, Ranking, Answer, PlaceOf, Start
<1>5. Ranked' BY <1>0 DEF Ranked, Ranking, Answer, Score
<1>6. TakesTurn' BY <1>0 DEF TakesTurn, Ranking, Start, Usable
<1>7. HomeBest' BY DEF HomeBest
<1>8. Rotates' BY DEF Rotates, NextTurn, Usable
<1> QED BY <1>1, <1>2, <1>3, <1>4, <1>5, <1>6, <1>7, <1>8

-----------------------------------------------------------------------------
(* The steps of the call *)

\* The call begins.
LEMMA PickPoolInv == ASSUME PickIInv, NEW c \in Client, PickPool(c) PROVE PickIInv'
<1> USE DEF PickIInv, PickInv
<1>0. pick \in PickState /\ NoPick \in PickState /\ Unseen \in SeenState
  BY Resting DEF PickTypeOK
<1>1. /\ pick' \in PickState
      /\ pick'.at = "options" /\ pick'.client = c /\ pick'.list = pool
      /\ pick'.strict /\ pick'.i = 0 /\ pick'.best = 0
  <2>1. pick' = [at |-> "options", client |-> c, list |-> pool, mode |-> "", turn |-> 0,
                 strict |-> TRUE, i |-> 0, best |-> 0, score |-> 0]
    BY DEF PickPool, NoPick
  <2>2. pool \in Pools BY DEF PickTypeOK
  <2>3. 0 \in 0 .. Width - 1 /\ 0 \in Nat /\ 0 \in Int
    <3>1. Width \in Nat \ {0} BY PickAssumption
    <3> QED BY <3>1
  <2>4. pick' \in PickState BY <2>1, <2>2, <2>3, Zenon DEF PickState
  <2> QED BY <2>1, <2>4
<1>2. /\ seen' \in SeenState /\ seen'.same /\ seen'.among = {}
      /\ seen'.up = {a \in Address : up[a]} /\ seen'.down = {a \in Address : ~up[a]}
  <2>1. seen' = [same |-> TRUE, still |-> TRUE, up |-> {a \in Address : up[a]},
                 down |-> {a \in Address : ~up[a]}, among |-> {}]
    BY DEF PickPool, Unseen
  <2> QED BY <2>1 DEF SeenState
<1> USE DEF PickPool, pickConfigVars
<1>3. PickTypeOK' BY <1>1, <1>2 DEF PickTypeOK, SeenState
<1>4. PickStands' BY <1>1, <1>2, <1>3 DEF PickStands, PickTypeOK
<1>5. Observed' BY <1>1, <1>2 DEF Observed
<1>6. Passed' /\ Ranked' /\ TakesTurn' BY <1>1 DEF Passed, Ranked, TakesTurn
<1>7. HomeBest' BY DEF HomeBest
<1>8. Rotates' BY <1>1 DEF Rotates, NextTurn, Usable
<1> QED BY <1>3, <1>4, <1>5, <1>6, <1>7, <1>8

\* The cursor advances.
LEMMA AdvancedTurn ==
  ASSUME NEW n \in 0 .. Width - 1
  PROVE  /\ Advanced(n) \in 0 .. Width - 1
         /\ Advanced(n) = IF n + 1 = Width THEN 0 ELSE n + 1
<1>1. Width \in Nat \ {0} BY PickAssumption
<1>2. CASE n + 1 = Width
  <2>1. ((Width * 1) + 0) % Width = 0 BY <1>1, Multiple
  <2> QED BY <1>1, <1>2, <2>1 DEF Advanced
<1>3. CASE n + 1 # Width
  <2>1. n + 1 \in 0 .. Width - 1 BY <1>1, <1>3
  <2> QED BY <1>1, <1>3, <2>1, Small DEF Advanced
<1> QED BY <1>2, <1>3

LEMMA PickTurnInv == ASSUME PickIInv, PickTurn PROVE PickIInv'
<1> USE DEF PickIInv, PickInv
<1>0. pick \in PickState /\ cursor \in 0 .. Width - 1 /\ balance \in Balances
  BY DEF PickTypeOK
<1>1. /\ pick' \in PickState
      /\ pick'.at = "scan" /\ pick'.mode = balance /\ pick'.turn = cursor
      /\ pick'.client = pick.client /\ pick'.list = pick.list
      /\ pick'.strict = pick.strict /\ pick'.i = pick.i /\ pick'.best = pick.best
  BY <1>0 DEF PickTurn, PickState
<1> USE DEF PickTurn, pickConfigVars
<1>2. cursor' \in 0 .. Width - 1 BY <1>0, AdvancedTurn
<1>3. PickTypeOK' BY <1>1, <1>2 DEF PickTypeOK, PickState
<1>4. /\ pick.client \in Client /\ pick.list \in Pools
      /\ pick.strict /\ pick.i = 0 /\ pick.best = 0 /\ seen.among = {}
  BY DEF PickStands
<1>5. PickStands'
  <2>1. Len(pick.list) \in Nat BY <1>4, PoolFacts
  <2>2. cursor' = Advanced(pick'.turn) BY <1>1
  <2> QED BY <1>0, <1>1, <1>4, <2>1, <2>2 DEF PickStands, Advanced, Ranking
<1>6. Observed' BY <1>1 DEF Observed
<1>7. Passed' BY <1>1, <1>4 DEF Passed
<1>8. Ranked' /\ TakesTurn' BY <1>1, <1>4 DEF Ranked, TakesTurn
<1>9. HomeBest' BY DEF HomeBest
<1>10. Rotates' BY <1>1 DEF Rotates, NextTurn, Usable
<1> QED BY <1>3, <1>5, <1>6, <1>7, <1>8, <1>9, <1>10

\* A scan under way goes on with the same pool, algorithm and turn.
SameCall == /\ pick'.client = pick.client /\ pick'.list = pick.list
            /\ pick'.mode = pick.mode /\ pick'.turn = pick.turn
            /\ UNCHANGED <<pool, balance, up, load, cursor, home, recent>>

\* Such a step keeps what the observer knows.
LEMMA SameCallKeeps ==
  ASSUME PickIInv, SameCall, pick.at = "scan", pick'.at \in {"scan", "done"},
         seen'.same = seen.same, seen'.up = seen.up, seen'.down = seen.down
  PROVE  Observed' /\ HomeBest' /\ Rotates'
<1> USE DEF PickIInv, PickInv, SameCall
<1>1. Observed' BY DEF Observed
<1>2. HomeBest' BY DEF HomeBest
<1>3. Rotates' BY DEF Rotates, NextTurn, Usable
<1> QED BY <1>1, <1>2, <1>3

\* The pass looks at a backend that it has not met.
LEMMA ScanFacts ==
  ASSUME PickIInv, Looking
  PROVE  /\ pick \in PickState /\ pick.at = "scan"
         /\ pick.client \in Client /\ pick.list \in Pools /\ pick.mode \in Balances
         /\ Len(pick.list) \in Nat \ {0}
         /\ pick.i \in 0 .. Len(pick.list) - 1 /\ pick.i \in Nat /\ pick.best \in Nat
         /\ \A k \in 1 .. Len(pick.list) : pick.list[k] \in Address
         /\ Place \in 1 .. Len(pick.list) /\ Looked \in Address
         /\ Looked = pick.list[PlaceOf(pick.i)]
         /\ Ranking => /\ Place = pick.i + 1 /\ Looked \notin seen.among
                       /\ \A k \in 1 .. pick.i : pick.list[k] # Looked
<1> USE DEF PickIInv, PickInv
<1>1. pick \in PickState /\ pick.at = "scan" /\ pick.i < Len(pick.list)
  BY DEF PickTypeOK, Looking
<1>2. pick.i \in Nat /\ pick.best \in Nat BY <1>1 DEF PickState
<1>3. /\ pick.client \in Client /\ pick.list \in Pools /\ pick.mode \in Balances
      /\ \A j \in 0 .. Len(pick.list) - 1 :
           /\ PlaceOf(j) \in 1 .. Len(pick.list)
           /\ Ranking => PlaceOf(j) = j + 1
  BY <1>1, CallFacts
<1>4. /\ Len(pick.list) \in Nat \ {0}
      /\ \A k \in 1 .. Len(pick.list) : pick.list[k] \in Address
      /\ \A k, l \in 1 .. Len(pick.list) : pick.list[k] = pick.list[l] => k = l
  BY <1>3, PoolFacts
<1>5. pick.i \in 0 .. Len(pick.list) - 1 BY <1>1, <1>2, <1>4
<1>6. Place \in 1 .. Len(pick.list) /\ (Ranking => Place = pick.i + 1)
  BY <1>3, <1>5 DEF Place
<1>7. Looked \in Address /\ Looked = pick.list[PlaceOf(pick.i)]
  BY <1>4, <1>6 DEF Looked, Place
<1>8. ASSUME Ranking
      PROVE  Looked \notin seen.among /\ \A k \in 1 .. pick.i : pick.list[k] # Looked
  <2>1. ASSUME NEW k \in 1 .. pick.i PROVE pick.list[k] # Looked
    BY <1>4, <1>5, <1>6, <1>8 DEF Looked
  <2>2. \A a \in seen.among : \E k \in 1 .. pick.i : a = pick.list[k]
    BY <1>1, <1>8 DEF Passed
  <2> QED BY <2>1, <2>2
<1> QED BY <1>1, <1>2, <1>3, <1>4, <1>5, <1>6, <1>7, <1>8

\* One that is down is skipped.
LEMMA PickSkipInv == ASSUME PickIInv, PickSkip PROVE PickIInv'
<1> USE DEF PickIInv, PickInv
<1>0. Looking BY DEF PickSkip
<1>1. /\ pick' \in PickState /\ SameCall
      /\ pick'.at = "scan" /\ pick'.strict = pick.strict /\ pick'.best = pick.best
      /\ pick'.score = pick.score /\ pick'.i = pick.i + 1
  <2>1. pick \in PickState /\ pick.at = "scan" /\ pick.i + 1 \in Nat BY <1>0, ScanFacts
  <2>2. pick' = [pick EXCEPT !.i = pick.i + 1] BY DEF PickSkip
  <2> QED BY <2>1, <2>2 DEF PickSkip, PickState, SameCall, pickConfigVars
<1>2. seen' = seen BY DEF PickSkip
<1>3. /\ pick.at = "scan" /\ pick.list \in Pools /\ pick.client \in Client
      /\ pick.mode \in Balances /\ Len(pick.list) \in Nat \ {0}
      /\ pick.i \in 0 .. Len(pick.list) - 1 /\ pick.i \in Nat /\ pick.best \in Nat
  BY <1>0, ScanFacts
<1>4. pick.strict /\ ~up[Looked] BY DEF PickSkip, Skipped
<1>5. Looked \in seen.down /\ Looked = pick.list[PlaceOf(pick.i)]
  BY <1>0, <1>4, ScanFacts DEF Observed
<1>6. PickTypeOK' BY <1>1, <1>2 DEF PickTypeOK, SameCall
<1>7. PickStands'
  BY <1>1, <1>2, <1>3, <1>4 DEF PickStands, SameCall, Ranking, Advanced
<1>8. Passed'
  <2>1. \A j \in 0 .. pick.i :
          pick.list[PlaceOf(j)] \in seen.among \/ pick.list[PlaceOf(j)] \in seen.down
    <3>1. \A j \in 0 .. pick.i - 1 :
          pick.list[PlaceOf(j)] \in seen.among \/ pick.list[PlaceOf(j)] \in seen.down
      BY <1>3 DEF Passed
    <3> QED BY <3>1, <1>3, <1>5
  <2>2. \A j : PlaceOf(j)' = PlaceOf(j) BY <1>1 DEF PlaceOf, Start, SameCall
  <2>3. Answer' = Answer BY <1>1 DEF Answer, SameCall
  <2>4. pick'.i - 1 = pick.i BY <1>1, <1>3
  <2>5. \A j \in 0 .. pick'.i - 1 :
          pick'.list[PlaceOf(j)'] \in seen'.among \/ pick'.list[PlaceOf(j)'] \in seen'.down
    BY <2>1, <2>2, <2>4, <1>1, <1>2 DEF SameCall
  <2>6. Ranking => \A a \in seen.among : \E k \in 1 .. pick.i + 1 : a = pick.list[k]
    BY <1>3 DEF Passed
  <2> QED BY <2>3, <2>5, <2>6, <1>1, <1>2, <1>3, <1>4 DEF Passed, SameCall, Ranking
<1>9. Ranked'
  <2> SUFFICES ASSUME Ranking, pick.best # 0 PROVE Ranked'
    BY <1>1 DEF Ranked, SameCall, Ranking
  <2>1. Looked = pick.list[pick.i + 1] /\ Looked \notin seen.among
    BY <1>0, ScanFacts DEF Looked
  <2>2. Answer' = Answer /\ \A a : Score(a)' = Score(a)
    BY <1>1 DEF Answer, Score, SameCall
  <2>3. \A k \in 1 .. pick.i + 1 : pick.list[k] \in seen.among => k \in 1 .. pick.i
    BY <2>1, <1>3
  <2> QED BY <1>1, <1>2, <1>3, <2>2, <2>3 DEF Ranked, SameCall, Ranking
<1>10. TakesTurn' BY <1>1 DEF TakesTurn
<1>11. Observed' /\ HomeBest' /\ Rotates' BY <1>1, <1>2, <1>3, SameCallKeeps
<1> QED BY <1>6, <1>7, <1>8, <1>9, <1>10, <1>11

\* In rotation the first that is not skipped is taken.
LEMMA PickFirstInv == ASSUME PickIInv, PickFirst PROVE PickIInv'
<1> USE DEF PickIInv, PickInv
<1>0. Looking /\ ~Ranking BY DEF PickFirst, Ranking
<1>1. /\ pick.at = "scan" /\ pick.list \in Pools /\ pick.client \in Client
      /\ pick.mode \in Balances /\ Len(pick.list) \in Nat \ {0}
      /\ pick.i \in 0 .. Len(pick.list) - 1 /\ pick.i \in Nat
      /\ Place \in 1 .. Len(pick.list) /\ Looked \in Address
      /\ \A k \in 1 .. Len(pick.list) : pick.list[k] \in Address
  BY <1>0, ScanFacts
<1>2. /\ pick' \in PickState /\ SameCall
      /\ pick'.at = "done" /\ pick'.strict = pick.strict /\ pick'.best = Place
      /\ pick'.i = pick.i
  <2>1. pick \in PickState BY DEF PickTypeOK
  <2>2. pick' = [pick EXCEPT !.at = "done", !.best = Place] BY DEF PickFirst
  <2>3. Place \in Nat BY <1>1
  <2> QED BY <2>1, <2>2, <2>3 DEF PickFirst, PickState, SameCall, pickConfigVars
<1>3. /\ seen' \in SeenState
      /\ seen'.same = seen.same /\ seen'.among = {Looked}
      /\ seen'.up = seen.up /\ seen'.down = seen.down
  <2>1. {Looked} \in SUBSET Address BY <1>1
  <2>2. seen' = [seen EXCEPT !.among = {Looked}] BY DEF PickFirst
  <2> QED BY <2>1, <2>2, SeenAmong
<1>4. PickTypeOK' BY <1>2, <1>3 DEF PickTypeOK, SeenState, SameCall
<1>5. PickStands' BY <1>1, <1>2, <1>0 DEF PickStands, SameCall, Ranking, Advanced
<1>6. pick.strict => up[Looked] BY DEF PickFirst, Skipped
<1>7. Passed'
  <2>1. Answer' = Looked BY <1>2 DEF Answer, Looked, SameCall
  <2>2. pick.strict => Looked \in seen.up BY <1>1, <1>6 DEF Observed
  <2>3. ~pick.strict => Range(pick.list) \subseteq seen.down BY <1>1 DEF Passed
  <2> QED BY <2>1, <2>2, <2>3, <1>0, <1>2, <1>3 DEF Passed, SameCall, Ranking
<1>8. Ranked' BY <1>0, <1>2 DEF Ranked, SameCall, Ranking
<1>9. TakesTurn'
  <2> SUFFICES ASSUME seen.same, up[pool[Start + 1]] \/ Usable(pool) = {}
               PROVE  Place = Start + 1
    BY <1>0, <1>2, <1>3 DEF TakesTurn, SameCall, Ranking, Start, Usable
  <2>1. PlaceOf(0) = Start + 1 BY <1>0, <1>1, CallFacts
  <2>2. CASE pick.i = 0 BY <2>1, <2>2 DEF Place
  <2>3. CASE pick.i # 0
    <3>1. pick.strict /\ seen.among = {} BY <1>0, <1>1, <2>3 DEF PickStands
    <3>2. 0 \in 0 .. pick.i - 1 BY <1>1, <2>3
    <3>3. pick.list[Start + 1] \in seen.down BY <1>1, <2>1, <3>1, <3>2 DEF Passed
    <3>4. pick.list = pool /\ \A a \in Address : up[a] => a \notin seen.down
      BY <1>1 DEF Observed
    <3>5. PlaceOf(0) \in 1 .. Len(pick.list) BY <1>1, CallFacts
    <3>6. pick.list[Start + 1] \in Address BY <3>5, <2>1, <1>1
    <3>7. Usable(pool) = {} BY <3>3, <3>4, <3>6
    <3>8. Looked \in Range(pool) BY <1>1, <3>4, PoolFacts DEF Looked
    <3> QED BY <3>1, <3>7, <3>8, <1>6 DEF Usable
  <2> QED BY <2>2, <2>3
<1>10. Observed' /\ HomeBest' /\ Rotates' BY <1>1, <1>2, <1>3, SameCallKeeps
<1> QED BY <1>4, <1>5, <1>7, <1>8, <1>9, <1>10

\* The other algorithms compare it with the best so far.
LEMMA PickCompareInv == ASSUME PickIInv, PickCompare PROVE PickIInv'
<1> USE DEF PickIInv, PickInv
<1> DEFINE better == pick.best = 0 \/ Better(Score(Looked), pick.score)
<1>0. Looking /\ Ranking BY DEF PickCompare, Ranking
<1>1. /\ pick.at = "scan" /\ pick.list \in Pools /\ pick.client \in Client
      /\ pick.mode \in Balances /\ Len(pick.list) \in Nat \ {0}
      /\ pick.i \in 0 .. Len(pick.list) - 1 /\ pick.i \in Nat /\ pick.best \in Nat
      /\ Place = pick.i + 1 /\ Looked \in Address /\ Looked = pick.list[pick.i + 1]
      /\ Looked \notin seen.among /\ \A k \in 1 .. pick.i : pick.list[k] # Looked
      /\ \A k \in 1 .. Len(pick.list) : pick.list[k] \in Address
  BY <1>0, ScanFacts DEF Looked
<1>2. \A a \in Address : Score(a) \in Int BY <1>1, CallFacts
<1>3. /\ pick' \in PickState /\ SameCall
      /\ pick'.at = "scan" /\ pick'.strict = pick.strict /\ pick'.i = pick.i + 1
      /\ IF better THEN pick'.best = pick.i + 1 /\ pick'.score = Score(Looked)
                   ELSE pick'.best = pick.best /\ pick'.score = pick.score
  <2>1. pick \in PickState BY DEF PickTypeOK
  <2>2. pick.i + 1 \in Nat /\ Score(Looked) \in Int BY <1>1, <1>2
  <2>3. CASE better
    <3>1. pick' = [pick EXCEPT !.i = pick.i + 1, !.best = pick.i + 1, !.score = Score(Looked)]
      BY <1>1, <2>3 DEF PickCompare
    <3> HIDE DEF better
    <3> QED BY <1>1, <2>1, <2>2, <2>3, <3>1 DEF PickCompare, PickState, SameCall, pickConfigVars
  <2>4. CASE ~better
    <3>1. pick' = [pick EXCEPT !.i = pick.i + 1] BY <2>4 DEF PickCompare
    <3> HIDE DEF better
    <3> QED BY <1>1, <2>1, <2>2, <2>4, <3>1 DEF PickCompare, PickState, SameCall, pickConfigVars
  <2> QED BY <2>3, <2>4
<1>4. /\ seen' \in SeenState
      /\ seen'.same = seen.same /\ seen'.still = seen.still
      /\ seen'.among = seen.among \cup {Looked}
      /\ seen'.up = seen.up /\ seen'.down = seen.down
  <2>1. seen.among \cup {Looked} \in SUBSET Address BY <1>1 DEF PickTypeOK
  <2>2. seen' = [seen EXCEPT !.among = seen.among \cup {Looked}] BY DEF PickCompare
  <2> QED BY <2>1, <2>2, SeenAmong
<1>5. pick.best = 0 <=> seen.among = {} BY <1>1 DEF PickStands
<1>6. \A a : Score(a)' = Score(a) BY <1>3 DEF Score, SameCall
<1>7. PickTypeOK' BY <1>3, <1>4 DEF PickTypeOK, SeenState, SameCall
<1>8. PickStands'
  <2>1. pick'.best # 0 /\ pick'.best <= Len(pick.list) BY <1>1, <1>3 DEF PickStands
  <2>2. Ranking' BY <1>0, <1>3 DEF Ranking, SameCall
  <2> HIDE DEF better
  <2> QED BY <1>1, <1>3, <1>4, <2>1, <2>2 DEF PickStands, SameCall, Advanced
<1>9. Answer' = IF better THEN Looked ELSE Answer
  BY <1>1, <1>3 DEF Answer, SameCall
<1>10. Passed'
  <2>1. pick.strict => Looked \in seen.up
    BY <1>1 DEF Observed, PickCompare, Skipped
  <2>2. IF pick.strict THEN seen'.among \subseteq seen.up
                       ELSE Range(pick.list) \subseteq seen.down
    BY <1>1, <1>4, <2>1 DEF Passed
  <2>3. Answer' \in seen'.among BY <1>1, <1>4, <1>9 DEF Passed
  <2>4. \A j \in 0 .. pick.i :
          \/ pick.list[PlaceOf(j)] \in seen'.among
          \/ pick.strict /\ pick.list[PlaceOf(j)] \in seen.down
    <3>1. \A j \in 0 .. pick.i - 1 :
          \/ pick.list[PlaceOf(j)] \in seen.among
          \/ pick.strict /\ pick.list[PlaceOf(j)] \in seen.down
      BY <1>1 DEF Passed
    <3>2. pick.list[PlaceOf(pick.i)] = Looked BY <1>0, ScanFacts
    <3> QED BY <3>1, <3>2, <1>1, <1>4
  <2>5. \A j : PlaceOf(j)' = PlaceOf(j) BY <1>3 DEF PlaceOf, Start, SameCall
  <2>6. pick'.i - 1 = pick.i BY <1>1, <1>3
  <2>7. \A a \in seen'.among : \E k \in 1 .. pick.i + 1 : a = pick.list[k]
    <3>1. \A a \in seen.among : \E k \in 1 .. pick.i : a = pick.list[k]
      BY <1>0, <1>1 DEF Passed
    <3> QED BY <3>1, <1>1, <1>4
  <2> HIDE DEF better
  <2> QED BY <2>2, <2>3, <2>4, <2>5, <2>6, <2>7, <1>3, <1>4 DEF Passed, SameCall
<1>11. Ranked'
  <2>1. pick'.best <= pick.i + 1
    <3>1. pick.best # 0 => pick.best <= pick.i BY <1>0, <1>1 DEF Ranked
    <3> QED BY <3>1, <1>1, <1>3
  <2>2. ASSUME pick.mode = "source_hash" \/ seen.still
        PROVE  /\ pick'.score = Score(Answer')
               /\ \A k \in 1 .. pick.i + 1 : pick.list[k] \in seen'.among =>
                    \/ Score(Answer') < Score(pick.list[k])
                    \/ Score(Answer') = Score(pick.list[k]) /\ pick'.best <= k
    <3>1. ASSUME pick.best # 0
          PROVE  /\ pick.score = Score(Answer) /\ Score(Answer) \in Int
                 /\ pick.best <= pick.i
                 /\ \A k \in 1 .. pick.i : pick.list[k] \in seen.among =>
                      \/ Score(Answer) < Score(pick.list[k])
                      \/ Score(Answer) = Score(pick.list[k]) /\ pick.best <= k
      <4>1. Answer \in Address
        <5>1. pick.best \in 1 .. Len(pick.list) BY <1>1, <3>1 DEF PickStands
        <5> QED BY <5>1, <1>1 DEF Answer
      <4> QED BY <4>1, <1>0, <1>1, <1>2, <2>2, <3>1 DEF Ranked
    <3>2. pick'.score = Score(Answer') BY <1>3, <1>9, <3>1
    <3>3. ASSUME NEW k \in 1 .. pick.i + 1, pick.list[k] \in seen'.among
          PROVE  \/ Score(Answer') < Score(pick.list[k])
                 \/ Score(Answer') = Score(pick.list[k]) /\ pick'.best <= k
      <4>1. CASE k = pick.i + 1
        <5>1. CASE better BY <1>1, <1>2, <1>3, <1>9, <4>1, <5>1
        <5>2. CASE ~better
          <6>1. ~(Score(Looked) < Score(Answer)) BY <3>1, <5>2 DEF Better
          <6> QED BY <6>1, <1>1, <1>2, <1>3, <1>9, <3>1, <4>1, <5>2
        <5> QED BY <5>1, <5>2
      <4>2. CASE k # pick.i + 1
        <5>1. k \in 1 .. pick.i BY <1>1, <4>2
        <5>2. pick.list[k] \in seen.among BY <5>1, <1>1, <1>4, <3>3
        <5>3. pick.best # 0 BY <5>2, <1>5
        <5>4. \/ Score(Answer) < Score(pick.list[k])
              \/ Score(Answer) = Score(pick.list[k]) /\ pick.best <= k
          BY <3>1, <5>1, <5>2, <5>3
        <5>5. CASE better
          <6>1. Score(Looked) < Score(Answer) BY <3>1, <5>3, <5>5 DEF Better
          <6>2. pick.list[k] \in Address BY <1>1, <5>1
          <6>3. /\ Score(Looked) \in Int /\ Score(pick.list[k]) \in Int
                /\ Score(Answer) \in Int
            BY <1>1, <1>2, <3>1, <5>3, <6>2
          <6>4. Answer' = Looked BY <1>9, <5>5
          <6> HIDE DEF better
          <6> QED BY <5>4, <6>1, <6>3, <6>4
        <5>6. CASE ~better
          <6> QED BY <5>4, <5>6, <1>3, <1>9
        <5> QED BY <5>5, <5>6
      <4> QED BY <4>1, <4>2
    <3> QED BY <3>2, <3>3
  <2> HIDE DEF better
  <2>3. Score(Answer)' = Score(Answer') BY <1>3 DEF Score, SameCall
  <2> QED BY <2>1, <2>2, <2>3, <1>3, <1>4, <1>6 DEF Ranked, SameCall
<1>12. TakesTurn' BY <1>3 DEF TakesTurn
<1>13. Observed' /\ HomeBest' /\ Rotates' BY <1>1, <1>3, <1>4, SameCallKeeps
<1> QED BY <1>7, <1>8, <1>10, <1>11, <1>12, <1>13

\* The pass is over, and it has found one.
LEMMA PickBestInv == ASSUME PickIInv, PickBest PROVE PickIInv'
<1> USE DEF PickIInv, PickInv
<1>0. pick.at = "scan" /\ pick.i = Len(pick.list) /\ pick.best # 0
  BY DEF PickBest, PassOver
<1>1. /\ pick' \in PickState /\ SameCall
      /\ pick'.at = "done" /\ pick'.strict = pick.strict /\ pick'.i = pick.i
      /\ pick'.best = pick.best /\ pick'.score = pick.score
  <2>1. pick \in PickState /\ pick' = [pick EXCEPT !.at = "done"]
    BY DEF PickBest, PickTypeOK
  <2> QED BY <2>1 DEF PickBest, PickState, SameCall, pickConfigVars
<1>2. seen' = seen BY DEF PickBest
<1>3. Ranking BY <1>0 DEF PickStands
<1>4. Answer' = Answer /\ \A j : PlaceOf(j)' = PlaceOf(j)
  BY <1>1 DEF Answer, PlaceOf, Start, SameCall
<1>5. \A a : Score(a)' = Score(a) BY <1>1 DEF Score, SameCall
<1>6. PickTypeOK' BY <1>1, <1>2 DEF PickTypeOK, SameCall
<1>7. PickStands' BY <1>0, <1>1, <1>2 DEF PickStands, SameCall, Ranking, Advanced
<1>8. Passed' BY <1>0, <1>1, <1>2, <1>3, <1>4 DEF Passed, SameCall, Ranking
<1>9. Ranked' BY <1>0, <1>1, <1>2, <1>4, <1>5 DEF Ranked, SameCall, Ranking
<1>10. TakesTurn' BY <1>1, <1>3 DEF TakesTurn, SameCall, Ranking
<1>11. Observed' /\ HomeBest' /\ Rotates' BY <1>0, <1>1, <1>2, SameCallKeeps
<1> QED BY <1>6, <1>7, <1>8, <1>9, <1>10, <1>11

\* A pass of the rotation comes to every place.
LEMMA EachPlaceComes ==
  ASSUME ~Ranking, Len(pick.list) \in Nat \ {0}, Start \in Nat,
         NEW k \in 1 .. Len(pick.list)
  PROVE  \E j \in 0 .. Len(pick.list) - 1 : PlaceOf(j) = k
<1>1. PICK j \in 0 .. Len(pick.list) - 1 : ((Start + j) % Len(pick.list)) + 1 = k
  BY PlaceComes
<1>2. PlaceOf(j) = k BY <1>1 DEF PlaceOf, Ranking
<1> QED BY <1>2

\* A pass over the whole list has found none: each was seen down.
LEMMA NobodyUsable ==
  ASSUME PickIInv, PassOver, pick.best = 0
  PROVE  Range(pick.list) \subseteq seen.down
<1> USE DEF PickIInv, PickInv
<1>1. pick.at = "scan" /\ pick.i = Len(pick.list) BY DEF PassOver
<1>2. seen.among = {} BY <1>1 DEF PickStands
<1>3. pick.list \in Pools /\ Start \in 0 .. Len(pick.list) - 1 BY <1>1, CallFacts
<1>4. /\ Len(pick.list) \in Nat \ {0}
      /\ \A a \in Range(pick.list) : \E k \in 1 .. Len(pick.list) : a = pick.list[k]
  BY <1>3, PoolFacts
<1>5. ASSUME pick.strict, NEW a \in Range(pick.list) PROVE a \in seen.down
  <2>1. PICK k \in 1 .. Len(pick.list) : a = pick.list[k] BY <1>4
  <2>2. \E j \in 0 .. Len(pick.list) - 1 : PlaceOf(j) = k
    <3>1. k - 1 \in 0 .. Len(pick.list) - 1 BY <1>4
    <3>2. CASE Ranking
      <4>1. PlaceOf(k - 1) = k BY <1>1, <1>4, <3>1, <3>2, CallFacts
      <4> QED BY <3>1, <4>1
    <3>3. CASE ~Ranking
      <4>1. Start \in Nat BY <1>3, <1>4
      <4> QED BY <1>4, <3>3, <4>1, EachPlaceComes
    <3> QED BY <3>2, <3>3
  <2> QED BY <1>1, <1>2, <2>1, <2>2 DEF Passed
<1> QED BY <1>1, <1>5 DEF Passed

\* Nobody was usable: the second pass begins.
LEMMA PickFailOpenInv == ASSUME PickIInv, PickFailOpen PROVE PickIInv'
<1> USE DEF PickIInv, PickInv
<1>0. pick.at = "scan" /\ pick.best = 0 /\ PassOver BY DEF PickFailOpen, PassOver
<1>1. /\ pick' \in PickState /\ SameCall
      /\ pick'.at = "scan" /\ ~pick'.strict /\ pick'.i = 0 /\ pick'.best = 0
  <2>1. pick \in PickState /\ pick' = [pick EXCEPT !.strict = FALSE, !.i = 0]
    BY DEF PickFailOpen, PickTypeOK
  <2> QED BY <1>0, <2>1 DEF PickFailOpen, PickState, SameCall, pickConfigVars
<1>2. seen' = seen BY DEF PickFailOpen
<1>3. seen.among = {} /\ Range(pick.list) \subseteq seen.down
  BY <1>0, NobodyUsable DEF PickStands
<1>4. pick.list \in Pools /\ Len(pick.list) \in Nat \ {0}
  BY <1>0, PoolFacts DEF PickStands
<1>5. PickTypeOK' BY <1>1, <1>2 DEF PickTypeOK, SameCall
<1>6. PickStands' BY <1>0, <1>1, <1>2, <1>3, <1>4 DEF PickStands, SameCall, Ranking, Advanced
<1>7. Passed' BY <1>1, <1>2, <1>3 DEF Passed, SameCall
<1>8. Ranked' /\ TakesTurn' BY <1>1 DEF Ranked, TakesTurn
<1>9. Observed' /\ HomeBest' /\ Rotates' BY <1>0, <1>1, <1>2, SameCallKeeps
<1> QED BY <1>5, <1>6, <1>7, <1>8, <1>9

\* The answer of a call that is done, and what it was chosen among.
LEMMA AnswerFacts ==
  ASSUME PickIInv, pick.at = "done"
  PROVE  /\ pick.client \in Client /\ pick.list \in Pools
         /\ pick.best \in 1 .. Len(pick.list) /\ Answer \in Address
         /\ Answer \in seen.among
         /\ Ranking => /\ pick.i = Len(pick.list)
                       /\ \A k \in 1 .. Len(pick.list) :
                            \/ pick.list[k] \in seen.among
                            \/ pick.strict /\ pick.list[k] \in seen.down
<1> USE DEF PickIInv, PickInv
<1>1. pick.client \in Client /\ pick.list \in Pools BY DEF PickStands
<1>2. Len(pick.list) \in Nat \ {0} BY <1>1, PoolFacts
<1>3. pick.best \in Nat BY DEF PickTypeOK, PickState
<1>4. pick.best \in 1 .. Len(pick.list) /\ pick.best # 0
  BY <1>2, <1>3 DEF PickStands
<1>5. Answer \in Address BY <1>1, <1>4, PoolFacts DEF Answer
<1>6. Answer \in seen.among BY <1>4 DEF Passed
<1>7. ASSUME Ranking, NEW k \in 1 .. Len(pick.list)
      PROVE  \/ pick.list[k] \in seen.among
             \/ pick.strict /\ pick.list[k] \in seen.down
  <2>1. k - 1 \in 0 .. Len(pick.list) - 1 BY <1>2
  <2>2. PlaceOf(k - 1) = k BY <1>2, <1>7, <2>1, CallFacts
  <2>3. k - 1 \in 0 .. pick.i - 1 BY <1>7, <2>1 DEF PickStands
  <2> QED BY <1>7, <2>2, <2>3 DEF Passed
<1> QED BY <1>1, <1>4, <1>5, <1>6, <1>7 DEF PickStands

\* The score of the answer by hash, turned round.
LEMMA BestHash ==
  ASSUME PickIInv, pick.at = "done", pick.mode = "source_hash",
         NEW x \in seen.among
  PROVE  Hash[<<pick.client, x>>] <= Hash[<<pick.client, Answer>>]
<1> USE DEF PickIInv, PickInv
<1>1. Ranking BY DEF Ranking
<1>2. pick.client \in Client /\ Answer \in Address /\ pick.i = Len(pick.list)
  BY <1>1, AnswerFacts
<1>3. PICK k \in 1 .. pick.i : x = pick.list[k] BY <1>1 DEF Passed
<1>4. x \in Address BY DEF PickTypeOK
<1>5. Score(Answer) <= Score(x)
  <2>1. Score(x) \in Int /\ Score(Answer) \in Int BY <1>2, <1>4, CallFacts
  <2>2. pick.best # 0 BY DEF PickStands
  <2>3. Score(Answer) < Score(x) \/ Score(Answer) = Score(x)
    BY <1>1, <1>3, <2>2 DEF Ranked
  <2> QED BY <2>1, <2>3
<1>6. /\ Hash[<<pick.client, x>>] \in Nat
      /\ Hash[<<pick.client, Answer>>] \in Nat
  BY <1>2, <1>4, PickAssumption
<1> QED BY <1>5, <1>6 DEF Score

\* The answer lengthens the observer's window.
LEMMA PickReturnRotates == ASSUME PickIInv, PickReturn PROVE Rotates'
<1> USE DEF PickIInv, PickInv
<1> DEFINE n == Len(pool)
           L == Len(recent)
<1>0. pick.at = "done" BY DEF PickReturn
<1>1. pick.turn \in 0 .. Width - 1 /\ Width \in Nat \ {0}
  <2>1. Width \in Nat \ {0} BY PickAssumption
  <2> QED BY <2>1 DEF PickTypeOK, PickState
<1>2. NextTurn' = pick.turn + 1
  <2>1. cursor' = Advanced(pick.turn) BY <1>0 DEF PickReturn, PickStands
  <2>2. pick'.at = "idle" BY DEF PickReturn, NoPick
  <2> QED BY <1>1, <2>1, <2>2, AdvancedTurn DEF NextTurn
<1>3. n \in Nat \ {0} BY PoolFacts DEF PickTypeOK
<1>4. recent \in Seq(Address) /\ L \in Nat BY DEF PickTypeOK
<1>5. pool' = pool /\ up' = up BY DEF PickReturn, pickConfigVars
<1>6. CASE recent' = <<>> BY <1>1, <1>2, <1>6 DEF Rotates
<1>7. CASE recent' # <<>>
  <2> DEFINE s == IF pick.turn = 0 THEN <<>> ELSE recent
             r == IF Len(s) < Window THEN s ELSE Tail(s)
  <2>1. ~Ranking /\ seen.same /\ recent' = Append(r, Answer)
    BY <1>7 DEF PickReturn, Ranking, Lengthened
  <2>2. pick.list = pool BY <1>0, <2>1 DEF Observed
  <2>3. ASSUME up[pool[Start + 1]] \/ Usable(pool) = {}
        PROVE  Answer = pool[(pick.turn % n) + 1]
    <3>1. pick.best = Start + 1 BY <1>0, <2>1, <2>3 DEF TakesTurn
    <3> QED BY <3>1, <2>2 DEF Answer, Start
  <2>4. Answer \in Address BY <1>0, AnswerFacts
  <2>5. /\ s \in Seq(Address) /\ Len(s) \in Nat /\ Len(s) <= pick.turn
        /\ \A k \in 1 .. Len(s) :
             LET x == (((pick.turn - Len(s)) + (k - 1)) % n) + 1
             IN  up[pool[x]] \/ Usable(pool) = {} => s[k] = pool[x]
    <3>1. CASE pick.turn = 0 BY <3>1
    <3>2. CASE pick.turn # 0
      <4>1. NextTurn = pick.turn BY <1>0, <3>2 DEF NextTurn
      <4>2. DOMAIN recent = 1 .. L BY <1>4
      <4> QED BY <4>1, <4>2, <1>4, <3>2 DEF Rotates
    <3> QED BY <3>1, <3>2
  <2> HIDE DEF s
  <2>6. Window \in Nat \ {0} BY PickAssumption
  <2>7. /\ r \in Seq(Address) /\ Len(r) \in Nat /\ Len(r) <= pick.turn
        /\ \A k \in 1 .. Len(r) :
             LET x == (((pick.turn - Len(r)) + (k - 1)) % n) + 1
             IN  up[pool[x]] \/ Usable(pool) = {} => r[k] = pool[x]
    <3>1. CASE Len(s) < Window
      <4>1. r = s BY <3>1
      <4> HIDE DEF r
      <4> QED BY <4>1, <2>5, Zenon
    <3>2. CASE ~(Len(s) < Window)
      <4>1. Len(s) # 0 /\ s # <<>> BY <2>5, <2>6, <3>2
      <4>2. /\ r = Tail(s) /\ r \in Seq(Address) /\ Len(r) = Len(s) - 1
            /\ \A k \in 1 .. Len(r) : r[k] = s[k + 1]
        BY <2>5, <3>2, <4>1
      <4>3. ASSUME NEW k \in 1 .. Len(r)
            PROVE  /\ k + 1 \in 1 .. Len(s)
                   /\ (pick.turn - Len(s)) + ((k + 1) - 1)
                        = (pick.turn - Len(r)) + (k - 1)
        BY <2>5, <4>2, <1>1
      <4> HIDE DEF r
      <4>4. ASSUME NEW k \in 1 .. Len(r),
                   NEW x, x = (((pick.turn - Len(r)) + (k - 1)) % n) + 1,
                   up[pool[x]] \/ Usable(pool) = {}
            PROVE  r[k] = pool[x]
        <5>1. x = (((pick.turn - Len(s)) + ((k + 1) - 1)) % n) + 1 BY <4>3, <4>4
        <5>2. s[k + 1] = pool[x] BY <2>5, <4>3, <4>4, <5>1
        <5> QED BY <4>2, <5>2
      <4> QED BY <2>5, <4>1, <4>2, <4>4, <1>1
    <3> QED BY <3>1, <3>2
  <2> HIDE DEF r
  <2>8. /\ recent' \in Seq(Address) /\ Len(recent') = Len(r) + 1
        /\ \A k \in 1 .. Len(r) : recent'[k] = r[k]
        /\ recent'[Len(r) + 1] = Answer
        /\ DOMAIN recent' = 1 .. Len(r) + 1
    BY <2>1, <2>4, <2>7
  <2>9. Len(recent') <= NextTurn' BY <1>1, <1>2, <2>7, <2>8
  <2>10. ASSUME NEW k \in DOMAIN recent',
                NEW x, x = (((NextTurn' - Len(recent')) + (k - 1)) % n) + 1,
                up[pool[x]] \/ Usable(pool) = {}
         PROVE  recent'[k] = pool[x]
    <3>1. (NextTurn' - Len(recent')) + (k - 1) = (pick.turn - Len(r)) + (k - 1)
      BY <1>1, <1>2, <2>7, <2>8
    <3>2. CASE k \in 1 .. Len(r) BY <2>7, <2>8, <2>10, <3>1, <3>2
    <3>3. CASE k = Len(r) + 1
      <4>1. (pick.turn - Len(r)) + (k - 1) = pick.turn BY <1>1, <2>7, <3>3
      <4>2. x = Start + 1 BY <4>1, <3>1, <2>10, <2>2 DEF Start
      <4> QED BY <2>3, <2>8, <2>10, <3>3, <4>2, <2>2 DEF Start
    <3> QED BY <2>7, <2>8, <3>2, <3>3
  <2>11. Usable(pool)' = Usable(pool) BY <1>5 DEF Usable
  <2> QED BY <2>9, <2>10, <2>11, <1>5 DEF Rotates
<1> QED BY <1>6, <1>7

\* The answer is returned.
LEMMA PickReturnInv == ASSUME PickIInv, PickReturn PROVE PickIInv'
<1> USE DEF PickIInv, PickInv
<1>0. pick.at = "done" BY DEF PickReturn
<1>1. /\ pick' = NoPick /\ seen' = Unseen /\ NoPick \in PickState /\ Unseen \in SeenState
      /\ pick'.at = "idle"
  BY Resting DEF PickReturn, NoPick
<1>2. pick.client \in Client /\ Answer \in Address /\ Answer \in seen.among
  BY <1>0, AnswerFacts
<1>3. \/ home' = home
      \/ /\ pick.mode = "source_hash"
         /\ home' = [home EXCEPT ![pick.client] = [to |-> {Answer}, among |-> seen.among]]
  BY DEF PickReturn
<1>4. PickTypeOK'
  <2>1. home' \in [Client -> [to : SUBSET Address, among : SUBSET Address]]
    <3>1. [to |-> {Answer}, among |-> seen.among]
            \in [to : SUBSET Address, among : SUBSET Address]
      BY <1>2 DEF PickTypeOK
    <3> QED BY <1>3, <3>1 DEF PickTypeOK
  <2>2. recent' \in Seq(Address)
    <3>1. recent \in Seq(Address) BY DEF PickTypeOK
    <3>2. \A s \in Seq(Address) : Lengthened(s, Answer) \in Seq(Address)
      <4> TAKE s \in Seq(Address)
      <4>1. CASE Len(s) < Window BY <1>2, <4>1 DEF Lengthened
      <4>2. CASE ~(Len(s) < Window)
        <5>1. s # <<>>
          <6>1. Window \in Nat \ {0} BY PickAssumption
          <6> QED BY <4>2, <6>1
        <5>2. Tail(s) \in Seq(Address) BY <5>1
        <5> QED BY <1>2, <4>2, <5>2 DEF Lengthened
      <4> QED BY <4>1, <4>2
    <3>3. <<>> \in Seq(Address) OBVIOUS
    <3>4. \/ recent' = <<>> \/ recent' = Lengthened(<<>>, Answer)
          \/ recent' = Lengthened(recent, Answer)
      BY DEF PickReturn
    <3> QED BY <3>1, <3>2, <3>3, <3>4
  <2> QED BY <2>1, <2>2, <1>1 DEF PickTypeOK, SeenState, PickReturn, pickConfigVars
<1>5. PickStands' /\ Observed' /\ Passed' /\ Ranked' /\ TakesTurn'
  BY <1>1 DEF PickStands, Observed, Passed, Ranked, TakesTurn
<1>6. HomeBest'
  <2>1. CASE home' = home BY <2>1 DEF HomeBest
  <2>2. CASE /\ pick.mode = "source_hash"
             /\ home' = [home EXCEPT ![pick.client] = [to |-> {Answer}, among |-> seen.among]]
    <3>1. \A x \in seen.among : Hash[<<pick.client, x>>] <= Hash[<<pick.client, Answer>>]
      BY <1>0, <2>2, BestHash
    <3>2. ASSUME NEW c \in Client, NEW b \in home'[c].to
          PROVE  b \in home'[c].among
                 /\ \A x \in home'[c].among : Hash[<<c, x>>] <= Hash[<<c, b>>]
      <4>1. CASE c = pick.client
        <5>1. home'[c].to = {Answer} /\ home'[c].among = seen.among
          BY <1>2, <2>2, <4>1 DEF PickTypeOK
        <5> QED BY <1>2, <3>1, <4>1, <5>1, <3>2
      <4>2. CASE c # pick.client
        <5>1. home'[c] = home[c] BY <2>2, <4>2 DEF PickTypeOK
        <5> QED BY <5>1, <3>2 DEF HomeBest
      <4> QED BY <4>1, <4>2
    <3> QED BY <3>2 DEF HomeBest
  <2> QED BY <1>3, <2>1, <2>2
<1>7. Rotates' BY PickReturnRotates
<1> QED BY <1>4, <1>5, <1>6, <1>7

-----------------------------------------------------------------------------
(* The theorems *)

LEMMA PickStepInv == PickIInv /\ [PickNext]_pickVars => PickIInv'
<1> SUFFICES ASSUME PickIInv, [PickNext]_pickVars PROVE PickIInv' OBVIOUS
<1>1. ASSUME NEW c \in Client, PickPool(c) PROVE PickIInv' BY <1>1, PickPoolInv
<1>2. CASE PickTurn BY <1>2, PickTurnInv
<1>3. CASE PickSkip BY <1>3, PickSkipInv
<1>4. CASE PickFirst BY <1>4, PickFirstInv
<1>5. CASE PickCompare BY <1>5, PickCompareInv
<1>6. CASE PickBest BY <1>6, PickBestInv
<1>7. CASE PickFailOpen BY <1>7, PickFailOpenInv
<1>8. CASE PickReturn BY <1>8, PickReturnInv
<1>9. ASSUME NEW a \in Address, Flip(a) PROVE PickIInv' BY <1>9, FlipInv
<1>10. ASSUME NEW a \in Address, NEW n \in Loads, LoadChanges(a, n) PROVE PickIInv'
  BY <1>10, LoadChangesInv
<1>11. ASSUME NEW p \in Pools, Update(p) PROVE PickIInv' BY <1>11, UpdateInv
<1>12. ASSUME NEW m \in Balances, SetBalance(m) PROVE PickIInv' BY <1>12, SetBalanceInv
<1>13. CASE UNCHANGED pickVars
  <2> USE DEF PickIInv, PickInv, pickVars
  <2>1. PickTypeOK' BY <1>13 DEF PickTypeOK
  <2>2. PickStands' BY <1>13 DEF PickStands, Ranking, Advanced
  <2>3. Observed' BY <1>13 DEF Observed
  <2>4. Passed' BY <1>13 DEF Passed, Ranking, Answer, PlaceOf, Start
  <2>5. Ranked' BY <1>13 DEF Ranked, Ranking, Answer, Score
  <2>6. TakesTurn' BY <1>13 DEF TakesTurn, Ranking, Start, Usable
  <2>7. HomeBest' BY <1>13 DEF HomeBest
  <2>8. Rotates' BY <1>13 DEF Rotates, NextTurn, Usable
  <2> QED BY <2>1, <2>2, <2>3, <2>4, <2>5, <2>6, <2>7, <2>8
<1> QED BY <1>1, <1>2, <1>3, <1>4, <1>5, <1>6, <1>7, <1>8, <1>9, <1>10, <1>11,
           <1>12, <1>13 DEF PickNext, PickStep

LEMMA PickInvariance == PickSpec => []PickIInv
BY PickInitInv, PickStepInv, PTL DEF PickSpec

\* Every variable of a call and of its observer has its type.
THEOREM PickTypeCorrect == PickSpec => []PickTypeOK
<1>1. PickIInv => PickTypeOK BY DEF PickIInv
<1> QED BY <1>1, PickInvariance, PTL

\* For any number of backends, pools and algorithms, and whatever flips, joins
\* or leaves while Pick scans: its answer was usable at some moment of the
\* call, or each backend of the pool it loaded was seen down.
THEOREM AnswerUsableCorrect == PickSpec => []AnswerUsable
<1>1. PickIInv => AnswerUsable
  <2> SUFFICES ASSUME PickIInv, pick.at = "done"
               PROVE  Answer \in seen.up \/ Range(pick.list) \subseteq seen.down
    BY DEF AnswerUsable
  <2>1. Answer \in seen.among BY AnswerFacts
  <2> QED BY <2>1 DEF PickIInv, PickInv, Passed
<1> QED BY <1>1, PickInvariance, PTL

\* least_sessions and source_hash answer the first of the best of the usable
\* backends, or of all when none is, for any loads and any hash.
THEOREM BestOfUsableCorrect == PickSpec => []BestOfUsable
<1>1. PickIInv => BestOfUsable
  <2> USE DEF PickIInv, PickInv
  <2> SUFFICES ASSUME PickIInv, pick.at = "done", seen.same, seen.still, Ranking
               PROVE  /\ Answer \in Candidates(pick.list)
                      /\ \A k \in DOMAIN pick.list : pick.list[k] \in Candidates(pick.list) =>
                           \/ Score(Answer) < Score(pick.list[k])
                           \/ Score(Answer) = Score(pick.list[k]) /\ pick.best <= k
    BY DEF BestOfUsable, Ranking
  <2>1. /\ pick.list \in Pools /\ pick.best \in 1 .. Len(pick.list) /\ Answer \in Address
        /\ Answer \in seen.among /\ pick.i = Len(pick.list)
        /\ \A k \in 1 .. Len(pick.list) :
             \/ pick.list[k] \in seen.among
             \/ pick.strict /\ pick.list[k] \in seen.down
    BY AnswerFacts
  <2>2. /\ DOMAIN pick.list = 1 .. Len(pick.list)
        /\ \A k \in 1 .. Len(pick.list) : pick.list[k] \in Address
        /\ \A a \in Range(pick.list) : \E k \in 1 .. Len(pick.list) : a = pick.list[k]
        /\ \A k \in 1 .. Len(pick.list) : pick.list[k] \in Range(pick.list)
    BY <2>1, PoolFacts
  <2>3. \A a \in Address : IF up[a] THEN a \notin seen.down ELSE a \notin seen.up
    BY DEF Observed
  <2>4. Answer \in Range(pick.list) BY <2>1, <2>2 DEF Answer
  <2>5. \A k \in 1 .. Len(pick.list) : pick.list[k] \in seen.among =>
          \/ Score(Answer) < Score(pick.list[k])
          \/ Score(Answer) = Score(pick.list[k]) /\ pick.best <= k
    BY <2>1 DEF Ranked
  <2>6. CASE pick.strict
    <3>1. Answer \in seen.up BY <2>1, <2>6 DEF Passed
    <3>2. Answer \in Usable(pick.list) BY <2>1, <2>3, <2>4, <3>1 DEF Usable
    <3>3. Candidates(pick.list) = Usable(pick.list) BY <3>2 DEF Candidates
    <3>4. ASSUME NEW k \in 1 .. Len(pick.list), pick.list[k] \in Usable(pick.list)
          PROVE  pick.list[k] \in seen.among
      BY <2>1, <2>2, <2>3, <3>4 DEF Usable
    <3> QED BY <2>2, <2>5, <3>2, <3>3, <3>4
  <2>7. CASE ~pick.strict
    <3>1. Range(pick.list) \subseteq seen.down BY <2>7 DEF Passed
    <3>2. Usable(pick.list) = {} BY <2>2, <2>3, <3>1 DEF Usable
    <3>3. Candidates(pick.list) = Range(pick.list) BY <3>2 DEF Candidates
    <3> QED BY <2>1, <2>2, <2>4, <2>5, <2>7, <3>3
  <2> QED BY <2>6, <2>7
<1> QED BY <1>1, PickInvariance, PTL

\* Between two picks by hash a client moves only as failures, recoveries and
\* reloads require, for any hash.
THEOREM MinimalDisruptionCorrect == PickSpec => []MinimalDisruption
<1>1. PickIInv => MinimalDisruption
  <2> SUFFICES ASSUME PickIInv, pick.at = "done", pick.mode = "source_hash",
                      NEW b \in home[pick.client].to, b \in seen.among,
                      Answer \in home[pick.client].among
               PROVE  Hash[<<pick.client, b>>] = Hash[<<pick.client, Answer>>]
    BY DEF MinimalDisruption
  <2>1. pick.client \in Client /\ Answer \in Address BY AnswerFacts
  <2>2. Hash[<<pick.client, b>>] <= Hash[<<pick.client, Answer>>] BY BestHash
  <2>3. Hash[<<pick.client, Answer>>] <= Hash[<<pick.client, b>>]
    BY <2>1 DEF PickIInv, PickInv, HomeBest
  <2>4. b \in Address BY DEF PickIInv, PickTypeOK
  <2>5. Hash[<<pick.client, b>>] \in Nat /\ Hash[<<pick.client, Answer>>] \in Nat
    BY <2>1, <2>4, PickAssumption
  <2> QED BY <2>2, <2>3, <2>5
<1> QED BY <1>1, PickInvariance, PTL

\* In rotation, as many consecutive picks as the pool is long reach every
\* usable backend, or all when none is, for any pool and any width of the cursor.
THEOREM RotationReachesCorrect == PickSpec => []RotationReaches
<1>1. PickIInv => RotationReaches
  <2> USE DEF PickIInv, PickInv
  <2> SUFFICES ASSUME PickIInv, NEW k \in 1 .. (Len(recent) - Len(pool)) + 1,
                      NEW a \in Candidates(pool)
               PROVE  \E j \in k .. k + (Len(pool) - 1) : a = recent[j]
    BY DEF RotationReaches
  <2> DEFINE n == Len(pool)
             L == Len(recent)
             s == (NextTurn - L) + (k - 1)
  <2>1. /\ n \in Nat \ {0}
        /\ \A b \in Range(pool) : \E x \in 1 .. n : b = pool[x]
    BY PoolFacts DEF PickTypeOK
  <2>2. L \in Nat /\ DOMAIN recent = 1 .. L BY DEF PickTypeOK
  <2>3. NextTurn \in Nat /\ L <= NextTurn BY NextTurnNat DEF Rotates
  <2>4. s \in Nat BY <2>1, <2>2, <2>3
  <2>5. a \in Range(pool) /\ (up[a] \/ Usable(pool) = {}) BY DEF Candidates, Usable
  <2>6. PICK x \in 1 .. n : a = pool[x] BY <2>1, <2>5
  <2>7. \E d \in 0 .. n - 1 : ((s + d) % n) + 1 = x
    BY <2>1, <2>4, PlaceComes
  <2>8. PICK d \in 0 .. n - 1 : ((s + d) % n) + 1 = x BY <2>7
  <2>9. k + d \in k .. k + (n - 1) /\ k + d \in 1 .. L BY <2>1, <2>2
  <2>10. (NextTurn - L) + ((k + d) - 1) = s + d BY <2>1, <2>2, <2>3
  <2>11. recent[k + d] = pool[x] BY <2>2, <2>5, <2>6, <2>8, <2>9, <2>10 DEF Rotates
  <2> QED BY <2>6, <2>9, <2>11
<1> QED BY <1>1, PickInvariance, PTL
=============================================================================
