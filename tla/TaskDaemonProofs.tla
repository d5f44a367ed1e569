-------------------------- MODULE TaskDaemonProofs --------------------------
(***************************************************************************)
(* Proofs about the daemon half of the task engine, for every set of       *)
(* daemons and callers and every bound.                                    *)
(***************************************************************************)
EXTENDS TaskDaemon, TLAPS

USE DaemonAssumption

\* The conjuncts of vars that a stuttering step keeps.
LEMMA IdleTyped ==
    /\ AnyDaemon \in Daemons
    /\ IdleSetRole \in [at : {"idle", "walk", "try", "cancel"},
                        todo : SUBSET Daemons, flipped : BOOLEAN,
                        d : Daemons, seq : Nat]
    /\ IdleCaller \in [at : {"idle", "start", "check", "try", "cancel"},
                       d : Daemons, seq : Nat, intent : BOOLEAN]
  BY DEF AnyDaemon, IdleSetRole, IdleCaller

LEMMA TryStartTyped ==
    ASSUME TypeOK, NEW d \in Daemons, NEW i \in BOOLEAN, TryStartDaemon(d, i)
    PROVE  /\ pendingRestart' \in [Daemons -> BOOLEAN]
           /\ runSeq' \in [Daemons -> Nat]
           /\ ctxDone' \in [Daemons -> BOOLEAN]
           /\ pc' \in [Daemons -> Phases]
           /\ branch' = branch
           /\ exit' = exit
<1> USE DEF TypeOK, genVars
<1>1. CASE Claim(d)
  BY <1>1 DEF Claim, Phases
<1>2. CASE /\ pendingRestart' = [pendingRestart EXCEPT ![d] = @ \/ KeepIntent(d, i)]
           /\ UNCHANGED genVars
  BY <1>2
<1>3. CASE UNCHANGED <<pendingRestart, genVars>>
  BY <1>3
<1>4. QED
  BY <1>1, <1>2, <1>3 DEF TryStartDaemon

LEMMA FlagsTyped ==
    ASSUME NEW x \in [err : BOOLEAN, abnormal : BOOLEAN, allows : BOOLEAN,
                      stopped : BOOLEAN],
           NEW a \in BOOLEAN, NEW s \in BOOLEAN
    PROVE  [x EXCEPT !.allows = a, !.stopped = s]
             \in [err : BOOLEAN, abnormal : BOOLEAN, allows : BOOLEAN, stopped : BOOLEAN]
  OBVIOUS

\* Adding, ending and moving a tail keeps the counters natural numbers.
LEMMA TailTyped ==
    ASSUME tail \in [Daemons -> [TailKinds -> Nat]], NEW d \in Daemons,
           NEW j \in TailKinds, NEW k \in TailKinds
    PROVE  /\ AddTail(d, k) => tail' \in [Daemons -> [TailKinds -> Nat]]
           /\ tail[d][k] > 0 /\ EndTail(d, k) =>
                 tail' \in [Daemons -> [TailKinds -> Nat]]
           /\ j # k /\ tail[d][j] > 0 /\ MoveTail(d, j, k) =>
                 tail' \in [Daemons -> [TailKinds -> Nat]]
<1>1. tail[d] \in [TailKinds -> Nat] /\ tail[d][j] \in Nat /\ tail[d][k] \in Nat
  OBVIOUS
<1>2. [tail[d] EXCEPT ![k] = @ + 1] \in [TailKinds -> Nat]
  BY <1>1
<1>3. tail[d][k] > 0 => [tail[d] EXCEPT ![k] = @ - 1] \in [TailKinds -> Nat]
  BY <1>1
<1>4. j # k /\ tail[d][j] > 0 =>
        [tail[d] EXCEPT ![j] = @ - 1, ![k] = @ + 1] \in [TailKinds -> Nat]
  BY <1>1
<1>5. AddTail(d, k) => tail' \in [Daemons -> [TailKinds -> Nat]]
  BY <1>2 DEF AddTail, Tails
<1>6. tail[d][k] > 0 /\ EndTail(d, k) => tail' \in [Daemons -> [TailKinds -> Nat]]
  BY <1>3 DEF EndTail, Tails
<1>7. j # k /\ tail[d][j] > 0 /\ MoveTail(d, j, k) =>
        tail' \in [Daemons -> [TailKinds -> Nat]]
  BY <1>4 DEF MoveTail
<1>8. QED
  BY <1>5, <1>6, <1>7

(***************************************************************************)
(* Every variable keeps its type.                                          *)
(***************************************************************************)
THEOREM TypeCorrect == Spec => []TypeOK
<1>1. Init => TypeOK
  <2> SUFFICES ASSUME Init PROVE TypeOK
    OBVIOUS
  <2>1. setRole \in [at : {"idle", "walk", "try", "cancel"},
                     todo : SUBSET Daemons, flipped : BOOLEAN,
                     d : Daemons, seq : Nat]
    BY IdleTyped DEF Init
  <2>2. caller \in [Callers -> [at : {"idle", "start", "check", "try", "cancel"},
                                d : Daemons, seq : Nat, intent : BOOLEAN]]
    BY IdleTyped DEF Init
  <2>3. exit \in [Daemons -> [err : BOOLEAN, abnormal : BOOLEAN,
                              allows : BOOLEAN, stopped : BOOLEAN]]
    BY DEF Init, NoExit
  <2>4. tail \in [Daemons -> [TailKinds -> Nat]]
    BY DEF Init
  <2>5. QED
    <3>1. calls \in 0..MaxCalls /\ faults \in 0..MaxFaults
      BY DEF Init
    <3>2. abnormalRestarts \in [Daemons -> 0..MaxRestarts]
      BY DEF Init
    <3>3. pc \in [Daemons -> Phases]
      BY DEF Init, Phases
    <3>4. QED
      BY <2>1, <2>2, <2>3, <2>4, <3>1, <3>2, <3>3 DEF Init, TypeOK
<1>2. TypeOK /\ [Next]_vars => TypeOK'
  <2> SUFFICES ASSUME TypeOK, [Next]_vars PROVE TypeOK'
    OBVIOUS
  <2> USE DEF TypeOK, regVars, genVars, bounds
  <2>1. ASSUME NEW d \in Daemons, StartDaemon(d) PROVE TypeOK'
    BY <2>1 DEF StartDaemon, Phases
  <2>2. ASSUME NEW d \in Daemons, AbortStart(d) PROVE TypeOK'
    BY <2>2 DEF AbortStart, Release, Phases, NoExit
  <2>3. ASSUME NEW d \in Daemons, RunBegin(d) PROVE TypeOK'
    BY <2>3 DEF RunBegin, Phases
  <2>4. ASSUME NEW d \in Daemons, ExitSnapshot(d) PROVE TypeOK'
    <3>1. RoleAllows(d) \in BOOLEAN
      BY DEF RoleAllows
    <3>2. exit' \in [Daemons -> [err : BOOLEAN, abnormal : BOOLEAN,
                                 allows : BOOLEAN, stopped : BOOLEAN]]
      <4> DEFINE x == [exit[d] EXCEPT !.allows = RoleAllows(d), !.stopped = stopped]
      <4>0. exit[d] \in [err : BOOLEAN, abnormal : BOOLEAN, allows : BOOLEAN,
                         stopped : BOOLEAN] /\ stopped \in BOOLEAN
        OBVIOUS
      <4>1. x \in [err : BOOLEAN, abnormal : BOOLEAN, allows : BOOLEAN, stopped : BOOLEAN]
        BY ONLY <3>1, <4>0, FlagsTyped
      <4>2. exit' = [exit EXCEPT ![d] = x]
        BY <2>4 DEF ExitSnapshot
      <4> HIDE DEF x
      <4> QED BY <4>1, <4>2
    <3>3. QED
      BY <2>4, <3>2 DEF ExitSnapshot, Phases
  <2>5. ASSUME NEW d \in Daemons, NEW longRun \in BOOLEAN, ExitCleanup(d, longRun)
        PROVE  TypeOK'
    <3>1. tail' \in [Daemons -> [TailKinds -> Nat]]
      BY <2>5, TailTyped DEF ExitCleanup, TailKinds
    <3>2. abnormalRestarts' \in [Daemons -> 0..MaxRestarts]
      BY <2>5 DEF ExitCleanup, BudgetLeft
    <3>3. QED
      BY <2>5, <3>1, <3>2 DEF ExitCleanup, Release, Phases, NoExit
  <2>6. ASSUME NEW d \in Daemons, Relaunch(d) PROVE TypeOK'
    <3>1. tail' \in [Daemons -> [TailKinds -> Nat]]
      BY <2>6, TailTyped DEF Relaunch, TailKinds
    <3>2. QED
      BY <2>6, <3>1, TryStartTyped DEF Relaunch
  <2>7. ASSUME NEW d \in Daemons, ScheduleRelaunch(d) PROVE TypeOK'
    <3>1. tail' \in [Daemons -> [TailKinds -> Nat]]
      BY <2>7, TailTyped DEF ScheduleRelaunch, TailKinds
    <3>2. QED
      BY <2>7, <3>1 DEF ScheduleRelaunch
  <2>8. ASSUME NEW d \in Daemons, RelaunchTimer(d) PROVE TypeOK'
    <3>1. tail' \in [Daemons -> [TailKinds -> Nat]]
      BY <2>8, TailTyped DEF RelaunchTimer, TailKinds
    <3>2. QED
      BY <2>8, <3>1 DEF RelaunchTimer
  <2>9. ASSUME NEW d \in Daemons, RelaunchRoleCheck(d) PROVE TypeOK'
    <3>1. tail' \in [Daemons -> [TailKinds -> Nat]]
      BY <2>9, TailTyped DEF RelaunchRoleCheck, TailKinds
    <3>2. QED
      BY <2>9, <3>1 DEF RelaunchRoleCheck
  <2>10. ASSUME NEW d \in Daemons, NEW err \in BOOLEAN, RunReturn(d, err)
         PROVE  TypeOK'
    BY <2>10 DEF RunReturn, Phases, NoExit
  <2>11. ASSUME NEW isMaster \in BOOLEAN, SetRole(isMaster) PROVE TypeOK'
    BY <2>11, IdleTyped DEF SetRole
  <2>12. ASSUME NEW d \in Daemons, SetRoleVisit(d) PROVE TypeOK'
    <3>1. ASSUME NEW where \in {"walk", "try", "cancel"}
          PROVE  [at |-> where, todo |-> setRole.todo \ {d},
                  flipped |-> setRole.flipped, d |-> d,
                  seq |-> IF where = "cancel" THEN runSeq[d] ELSE 0]
                   \in [at : {"idle", "walk", "try", "cancel"},
                        todo : SUBSET Daemons, flipped : BOOLEAN,
                        d : Daemons, seq : Nat]
      OBVIOUS
    <3>2. setRole' \in [at : {"idle", "walk", "try", "cancel"},
                        todo : SUBSET Daemons, flipped : BOOLEAN,
                        d : Daemons, seq : Nat]
      BY <2>12, <3>1 DEF SetRoleVisit
    <3>3. QED
      BY <2>12, <3>2 DEF SetRoleVisit
  <2>13. ASSUME SetRoleCancel PROVE TypeOK'
    BY <2>13 DEF SetRoleCancel, CancelGen, Running
  <2>14. ASSUME SetRoleTry PROVE TypeOK'
    <3>1. setRole.d \in Daemons
      OBVIOUS
    <3>2. (setRole.flipped /\ (RestartOnRoleFlip[setRole.d] \/ RunsOn[setRole.d] # "any"))
            \in BOOLEAN
      OBVIOUS
    <3>3. QED
      BY <2>14, <3>1, <3>2, TryStartTyped DEF SetRoleTry
  <2>15. ASSUME SetRoleReturn PROVE TypeOK'
    BY <2>15, IdleTyped DEF SetRoleReturn
  <2>16. ASSUME NEW c \in Callers, StartLoopEnable(c) PROVE TypeOK'
    BY <2>16 DEF StartLoopEnable, CallerGoes
  <2>17. ASSUME NEW c \in Callers, StartLoopRoleCheck(c) PROVE TypeOK'
    <3>1. caller' \in [Callers -> [at : {"idle", "start", "check", "try", "cancel"},
                                   d : Daemons, seq : Nat, intent : BOOLEAN]]
      <4>1. CASE caller' = [caller EXCEPT ![c] = IdleCaller]
        BY <4>1, IdleTyped
      <4>2. CASE CallerGoes(c, "try", caller[c].d, 0, caller[c].intent)
        BY <4>2 DEF CallerGoes
      <4>3. QED
        BY <2>17, <4>1, <4>2 DEF StartLoopRoleCheck
    <3>2. QED
      BY <2>17, <3>1 DEF StartLoopRoleCheck
  <2>18. ASSUME NEW c \in Callers, StartLoopTry(c) PROVE TypeOK'
    <3>1. caller[c].d \in Daemons /\ caller[c].intent \in BOOLEAN
      OBVIOUS
    <3>2. QED
      BY <2>18, <3>1, TryStartTyped, IdleTyped DEF StartLoopTry
  <2>19. ASSUME NEW c \in Callers, StopLoopCancel(c) PROVE TypeOK'
    BY <2>19, IdleTyped DEF StopLoopCancel, CancelGen, Running
  <2>20. ASSUME NEW c \in Callers, NEW d \in Daemons, StartLoop(c, d) PROVE TypeOK'
    BY <2>20 DEF StartLoop, CallerGoes
  <2>21. ASSUME NEW c \in Callers, NEW d \in Daemons, StopLoop(c, d) PROVE TypeOK'
    <3>1. caller' \in [Callers -> [at : {"idle", "start", "check", "try", "cancel"},
                                   d : Daemons, seq : Nat, intent : BOOLEAN]]
      <4>1. CASE CallerGoes(c, "cancel", d, runSeq[d], FALSE)
        BY <4>1 DEF CallerGoes
      <4>2. CASE UNCHANGED caller
        BY <4>2
      <4>3. QED
        BY <2>21, <4>1, <4>2 DEF StopLoop
    <3>2. QED
      BY <2>21, <3>1 DEF StopLoop
  <2>22. ASSUME Stop PROVE TypeOK'
    BY <2>22 DEF Stop, HasCancel, Running
  <2>23. CASE UNCHANGED vars
    BY <2>23 DEF vars
  <2>24. QED
    BY SMTT(40), <2>1, <2>2, <2>3, <2>4, <2>5, <2>6, <2>7, <2>8, <2>9, <2>10, <2>11,
       <2>12, <2>13, <2>14, <2>15, <2>16, <2>17, <2>18, <2>19, <2>20, <2>21,
       <2>22, <2>23
       DEF Next, GoroutineStep, TailStep, SetRoleStep, CallerStep
<1>3. QED
  BY <1>1, <1>2, PTL DEF Spec

-----------------------------------------------------------------------------
\* What a tryStartDaemon of d does to the generation of any daemon.
LEMMA TryStartEffect ==
    ASSUME TypeOK, NEW d \in Daemons, NEW i, TryStartDaemon(d, i),
           NEW e \in Daemons
    PROVE  \/ /\ pc'[e] = pc[e] /\ runSeq'[e] = runSeq[e]
              /\ ctxDone'[e] = ctxDone[e]
              /\ e = d /\ MayStart(d) => Running(d)
           \/ /\ e = d /\ MayStart(d) /\ ~Running(d)
              /\ pc'[e] = "starting" /\ ctxDone'[e] = FALSE
  BY DEF TypeOK, TryStartDaemon, Claim, genVars

(***************************************************************************)
(* No daemon survives on a node whose role forbids it.                     *)
(***************************************************************************)
THEOREM RoleGate == Spec => []NoForbiddenDaemon
<1>1. Init => NoForbiddenDaemon
  BY DEF Init, NoForbiddenDaemon, Live
<1>2. TypeOK /\ NoForbiddenDaemon /\ [Next]_vars => NoForbiddenDaemon'
  <2> SUFFICES ASSUME TypeOK, NoForbiddenDaemon, [Next]_vars,
                      NEW e \in Daemons, Live(e)', ~RoleAllows(e)'
               PROVE  (ctxDone[e] \/ SetRoleCancels(e))'
    BY DEF NoForbiddenDaemon
  <2>0. Live(e) /\ ~RoleAllows(e) => ctxDone[e] \/ SetRoleCancels(e)
    BY DEF NoForbiddenDaemon
  <2> USE <2>0 DEF TypeOK, regVars, genVars, bounds, Live, RoleAllows,
                   SetRoleCancels
  <2>1. ASSUME NEW d \in Daemons, GoroutineStep(d)
        PROVE  (ctxDone[e] \/ SetRoleCancels(e))'
    <3>1. CASE StartDaemon(d)
      BY <3>1 DEF StartDaemon
    <3>2. CASE AbortStart(d)
      BY <3>2 DEF AbortStart, Release
    <3>3. CASE RunBegin(d)
      BY <3>3 DEF RunBegin
    <3>4. CASE ExitSnapshot(d)
      BY <3>4 DEF ExitSnapshot
    <3>5. CASE \E longRun \in BOOLEAN : ExitCleanup(d, longRun)
      BY <3>5 DEF ExitCleanup, Release
    <3>6. QED
      BY <2>1, <3>1, <3>2, <3>3, <3>4, <3>5 DEF GoroutineStep
  <2>2. ASSUME NEW d \in Daemons, Relaunch(d)
        PROVE  (ctxDone[e] \/ SetRoleCancels(e))'
    BY <2>2, TryStartEffect DEF Relaunch, MayStart
  <2>3. ASSUME NEW d \in Daemons,
               ScheduleRelaunch(d) \/ RelaunchTimer(d) \/ RelaunchRoleCheck(d)
        PROVE  (ctxDone[e] \/ SetRoleCancels(e))'
    BY <2>3 DEF ScheduleRelaunch, RelaunchTimer, RelaunchRoleCheck
  <2>4. ASSUME NEW d \in Daemons, NEW err \in BOOLEAN, RunReturn(d, err)
        PROVE  (ctxDone[e] \/ SetRoleCancels(e))'
    BY <2>4 DEF RunReturn
  <2>5. ASSUME NEW isMaster \in BOOLEAN, SetRole(isMaster)
        PROVE  (ctxDone[e] \/ SetRoleCancels(e))'
    BY <2>5 DEF SetRole
  <2>6. ASSUME NEW d \in Daemons, SetRoleVisit(d)
        PROVE  (ctxDone[e] \/ SetRoleCancels(e))'
    BY <2>6 DEF SetRoleVisit, HasCancel, Running
  <2>7. ASSUME SetRoleCancel
        PROVE  (ctxDone[e] \/ SetRoleCancels(e))'
    BY <2>7 DEF SetRoleCancel, CancelGen, Running
  <2>8. ASSUME SetRoleTry
        PROVE  (ctxDone[e] \/ SetRoleCancels(e))'
    BY <2>8, TryStartEffect DEF SetRoleTry, MayStart
  <2>9. ASSUME SetRoleReturn
        PROVE  (ctxDone[e] \/ SetRoleCancels(e))'
    BY <2>9 DEF SetRoleReturn, IdleSetRole
  <2>10. ASSUME NEW c \in Callers,
                StartLoopEnable(c) \/ StartLoopRoleCheck(c)
         PROVE  (ctxDone[e] \/ SetRoleCancels(e))'
    BY <2>10 DEF StartLoopEnable, StartLoopRoleCheck
  <2>11. ASSUME NEW c \in Callers, StartLoopTry(c)
         PROVE  (ctxDone[e] \/ SetRoleCancels(e))'
    <3>1. caller[c].d \in Daemons
      OBVIOUS
    <3>2. QED
      BY ZenonT(60), <2>11, <3>1, TryStartEffect DEF StartLoopTry, MayStart
  <2>12. ASSUME NEW c \in Callers, StopLoopCancel(c)
         PROVE  (ctxDone[e] \/ SetRoleCancels(e))'
    BY <2>12 DEF StopLoopCancel, CancelGen
  <2>13. ASSUME NEW c \in Callers, NEW d \in Daemons, StartLoop(c, d) \/ StopLoop(c, d)
         PROVE  (ctxDone[e] \/ SetRoleCancels(e))'
    <3>1. CASE StartLoop(c, d)
      BY <3>1 DEF StartLoop
    <3>2. CASE StopLoop(c, d)
      BY <3>2 DEF StopLoop
    <3>3. QED
      BY <2>13, <3>1, <3>2
  <2>14. ASSUME Stop
         PROVE  (ctxDone[e] \/ SetRoleCancels(e))'
    BY <2>14 DEF Stop
  <2>15. CASE UNCHANGED vars
    BY <2>15 DEF vars
  <2>16. QED
    BY <2>1, <2>2, <2>3, <2>4, <2>5, <2>6, <2>7, <2>8, <2>9, <2>10, <2>11,
       <2>12, <2>13, <2>14, <2>15
       DEF Next, TailStep, SetRoleStep, CallerStep
<1>3. QED
  BY <1>1, <1>2, TypeCorrect, PTL DEF Spec

(***************************************************************************)
(* A live daemon whose loop is off is cancelled, or the StopLoop that      *)
(* turned the loop off is about to cancel exactly that generation.         *)
(***************************************************************************)
THEOREM StopLoopReaches == Spec => []StopLoopNotLost
<1>1. Init => StopLoopNotLost
  BY DEF Init, StopLoopNotLost, Live
<1>2. TypeOK /\ StopLoopNotLost /\ [Next]_vars => StopLoopNotLost'
  <2> DEFINE Goal(e) == ctxDone[e] \/ \E c \in Callers : StopLoopCancels(c, e)
  <2> SUFFICES ASSUME TypeOK, StopLoopNotLost, [Next]_vars,
                      NEW e \in Daemons, Live(e)', ~loopEnabled'[e]
               PROVE  Goal(e)'
    BY DEF StopLoopNotLost
  <2>0. Live(e) /\ ~loopEnabled[e] => Goal(e)
    BY DEF StopLoopNotLost
  <2> USE <2>0 DEF TypeOK, regVars, genVars, bounds, Live, StopLoopCancels
  <2>1. ASSUME NEW d \in Daemons, GoroutineStep(d) PROVE Goal(e)'
    <3>1. CASE StartDaemon(d)
      BY <3>1 DEF StartDaemon
    <3>2. CASE AbortStart(d)
      BY <3>2 DEF AbortStart, Release
    <3>3. CASE RunBegin(d)
      BY <3>3 DEF RunBegin
    <3>4. CASE ExitSnapshot(d)
      BY <3>4 DEF ExitSnapshot
    <3>5. CASE \E longRun \in BOOLEAN : ExitCleanup(d, longRun)
      BY SMTT(40), <3>5 DEF ExitCleanup, Release
    <3>6. QED
      BY <2>1, <3>1, <3>2, <3>3, <3>4, <3>5 DEF GoroutineStep
  <2>2. ASSUME NEW d \in Daemons, Relaunch(d) PROVE Goal(e)'
    BY ZenonT(60), <2>2, TryStartEffect DEF Relaunch, MayStart
  <2>3. ASSUME NEW d \in Daemons,
               ScheduleRelaunch(d) \/ RelaunchTimer(d) \/ RelaunchRoleCheck(d)
        PROVE  Goal(e)'
    BY <2>3 DEF ScheduleRelaunch, RelaunchTimer, RelaunchRoleCheck
  <2>4. ASSUME NEW d \in Daemons, NEW err \in BOOLEAN, RunReturn(d, err)
        PROVE  Goal(e)'
    BY <2>4 DEF RunReturn
  <2>5. ASSUME NEW isMaster \in BOOLEAN, SetRole(isMaster) PROVE Goal(e)'
    BY <2>5 DEF SetRole
  <2>6. ASSUME NEW d \in Daemons, SetRoleVisit(d) PROVE Goal(e)'
    BY <2>6 DEF SetRoleVisit
  <2>7. ASSUME SetRoleCancel PROVE Goal(e)'
    BY <2>7 DEF SetRoleCancel, CancelGen
  <2>8. ASSUME SetRoleTry PROVE Goal(e)'
    <3>1. setRole.d \in Daemons /\ UNCHANGED <<caller, loopEnabled>>
      BY <2>8 DEF SetRoleTry
    <3>2. \/ pc'[e] = pc[e] /\ runSeq'[e] = runSeq[e] /\ ctxDone'[e] = ctxDone[e]
          \/ loopEnabled[e]
      BY ZenonT(60), <2>8, <3>1, TryStartEffect DEF SetRoleTry, MayStart
    <3>3. QED
      BY <3>1, <3>2
  <2>9. ASSUME SetRoleReturn PROVE Goal(e)'
    BY <2>9 DEF SetRoleReturn
  <2>10. ASSUME NEW c \in Callers, StartLoopEnable(c) PROVE Goal(e)'
    BY <2>10 DEF StartLoopEnable, CallerGoes
  <2>11. ASSUME NEW c \in Callers, StartLoopRoleCheck(c) PROVE Goal(e)'
    BY ZenonT(60), <2>11 DEF StartLoopRoleCheck, CallerGoes
  <2>12. ASSUME NEW c \in Callers, StartLoopTry(c) PROVE Goal(e)'
    <3>1. caller[c].d \in Daemons
      OBVIOUS
    <3>2. \/ pc'[e] = pc[e] /\ runSeq'[e] = runSeq[e] /\ ctxDone'[e] = ctxDone[e]
          \/ loopEnabled[e]
      BY ZenonT(60), <2>12, <3>1, TryStartEffect DEF StartLoopTry, MayStart
    <3>3. /\ loopEnabled' = loopEnabled
          /\ \A b \in Callers : caller[b].at = "cancel" => caller'[b] = caller[b]
      BY <2>12 DEF StartLoopTry
    <3>4. QED
      BY ZenonT(60), <3>2, <3>3
  <2>13. ASSUME NEW c \in Callers, StopLoopCancel(c) PROVE Goal(e)'
    BY <2>13 DEF StopLoopCancel, CancelGen, Running
  <2>14. ASSUME NEW c \in Callers, NEW d \in Daemons, StartLoop(c, d)
         PROVE  Goal(e)'
    BY <2>14 DEF StartLoop, CallerGoes
  <2>15. ASSUME NEW c \in Callers, NEW d \in Daemons, StopLoop(c, d)
         PROVE  Goal(e)'
    <3>1. CASE e = d
      <4>1. HasCancel(d) /\ CallerGoes(c, "cancel", d, runSeq[d], FALSE)
        BY <2>15, <3>1 DEF StopLoop, HasCancel, Running
      <4>2. StopLoopCancels(c, e)'
        BY <2>15, <3>1, <4>1 DEF StopLoop, CallerGoes
      <4>3. QED
        BY <4>2
    <3>2. CASE e # d
      <4>1. /\ loopEnabled'[e] = loopEnabled[e] /\ UNCHANGED genVars
            /\ \A b \in Callers : caller[b].at = "cancel" => caller'[b] = caller[b]
        BY <2>15, <3>2 DEF StopLoop, CallerGoes
      <4>2. QED
        BY ZenonT(60), <4>1
    <3>3. QED
      BY <3>1, <3>2
  <2>16. ASSUME Stop PROVE Goal(e)'
    BY <2>16 DEF Stop
  <2>17. CASE UNCHANGED vars
    BY <2>17 DEF vars
  <2>18. QED
    BY <2>1, <2>2, <2>3, <2>4, <2>5, <2>6, <2>7, <2>8, <2>9, <2>10, <2>11,
       <2>12, <2>13, <2>14, <2>15, <2>16, <2>17
       DEF Next, TailStep, SetRoleStep, CallerStep
<1>3. QED
  BY <1>1, <1>2, TypeCorrect, PTL DEF Spec

(***************************************************************************)
(* A stopped engine spawns no daemon goroutine.                            *)
(***************************************************************************)
THEOREM StopIsFinal == Spec => StopSpawnsNothing
<1>1. TypeOK /\ [Next]_vars => [stopped => \A d \in Daemons : Spawned(d)' => Spawned(d)]_vars
  <2> SUFFICES ASSUME TypeOK, Next, stopped, NEW e \in Daemons, Spawned(e)'
               PROVE  Spawned(e)
    OBVIOUS
  <2> USE DEF TypeOK, genVars, Spawned
  <2>1. ASSUME NEW d \in Daemons, GoroutineStep(d) PROVE Spawned(e)
    BY ZenonT(60), <2>1 DEF GoroutineStep, StartDaemon, AbortStart, RunBegin, ExitSnapshot,
                ExitCleanup, Release
  <2>2. ASSUME NEW d \in Daemons, TailStep(d) PROVE Spawned(e)
    BY <2>2 DEF TailStep, Relaunch, TryStartDaemon, MayStart, ScheduleRelaunch,
                RelaunchTimer, RelaunchRoleCheck
  <2>3. ASSUME NEW d \in Daemons, NEW err \in BOOLEAN, RunReturn(d, err)
        PROVE  Spawned(e)
    BY <2>3 DEF RunReturn
  <2>4. ASSUME SetRoleStep \/ \E isMaster \in BOOLEAN : SetRole(isMaster)
        PROVE  Spawned(e)
    BY <2>4 DEF SetRoleStep, SetRole, SetRoleVisit, SetRoleCancel, SetRoleTry,
                TryStartDaemon, MayStart, SetRoleReturn
  <2>5. ASSUME NEW c \in Callers,
               CallerStep(c) \/ \E d \in Daemons : StartLoop(c, d) \/ StopLoop(c, d)
        PROVE  Spawned(e)
    BY <2>5 DEF CallerStep, StartLoopEnable, StartLoopRoleCheck, StartLoopTry,
                TryStartDaemon, MayStart, StopLoopCancel, StartLoop, StopLoop
  <2>6. ASSUME Stop PROVE Spawned(e)
    BY <2>6 DEF Stop
  <2>7. QED
    BY <2>1, <2>2, <2>3, <2>4, <2>5, <2>6 DEF Next
<1>2. QED
  BY <1>1, TypeCorrect, PTL DEF Spec, StopSpawnsNothing

(***************************************************************************)
(* A task that branches on the role works for the current one, or is being *)
(* replaced.                                                               *)
(***************************************************************************)
THEOREM BranchCurrent == Spec => []BranchFollowsRole
<1>1. Init => BranchInv
  BY DEF Init, BranchInv, IdleSetRole
<1>2. TypeOK /\ BranchInv /\ [Next]_vars => BranchInv'
  <2> SUFFICES ASSUME TypeOK, BranchInv, [Next]_vars PROVE BranchInv'
    OBVIOUS
  <2> DEFINE Replaced(e) == \/ ctxDone[e]
                            \/ e \in setRole.todo /\ setRole.flipped
                            \/ setRole.at = "cancel" /\ setRole.d = e
                                                    /\ setRole.seq = runSeq[e]
             Stale(e) == RestartOnRoleFlip[e] /\ pc[e] = "running" /\ branch[e] # role
  <2>0. /\ setRole.at = "idle" => setRole.todo = {}
        /\ \A e \in Daemons : Stale(e) => Replaced(e)
    BY DEF BranchInv
  <2> SUFFICES /\ setRole'.at = "idle" => setRole'.todo = {}
               /\ \A e \in Daemons : Stale(e)' => Replaced(e)'
    BY DEF BranchInv
  <2> USE DEF TypeOK, regVars, genVars, bounds
  <2>a. ASSUME setRole' = setRole, role' = role,
               \A e \in Daemons : pc'[e] = "running" /\ branch'[e] # role =>
                   /\ pc'[e] = pc[e] /\ branch'[e] = branch[e]
                   /\ runSeq'[e] = runSeq[e] /\ (ctxDone[e] => ctxDone'[e])
        PROVE  /\ setRole'.at = "idle" => setRole'.todo = {}
               /\ \A e \in Daemons : Stale(e)' => Replaced(e)'
    <3> SUFFICES ASSUME NEW e \in Daemons, Stale(e)' PROVE Replaced(e)'
      BY <2>0, <2>a
    <3>0. pc'[e] = "running" /\ branch'[e] # role
      BY <2>a
    <3>1. /\ pc'[e] = pc[e] /\ branch'[e] = branch[e] /\ runSeq'[e] = runSeq[e]
          /\ ctxDone[e] => ctxDone'[e]
      BY <2>a, <3>0
    <3>2. Replaced(e)
      BY <2>0, <2>a, <3>1
    <3>3. QED
      BY <2>a, <3>1, <3>2
  <2>1. ASSUME NEW d \in Daemons, GoroutineStep(d) PROVE BranchInv'
    <3>1. CASE StartDaemon(d)
      BY ZenonT(60), <2>a, <3>1 DEF StartDaemon, BranchInv
    <3>2. CASE AbortStart(d)
      BY ZenonT(60), <2>a, <3>2 DEF AbortStart, Release, BranchInv
    <3>3. CASE RunBegin(d)
      BY <2>a, <3>3 DEF RunBegin, BranchInv
    <3>4. CASE ExitSnapshot(d)
      BY <2>a, <3>4 DEF ExitSnapshot, BranchInv
    <3>5. CASE \E longRun \in BOOLEAN : ExitCleanup(d, longRun)
      <4>1. Release(d) /\ UNCHANGED <<role, setRole>>
        BY <3>5 DEF ExitCleanup
      <4>2. QED
        BY ZenonT(60), <2>a, <4>1 DEF Release, BranchInv
    <3>6. QED
      BY <2>1, <3>1, <3>2, <3>3, <3>4, <3>5 DEF GoroutineStep
  <2>2. ASSUME NEW d \in Daemons, TailStep(d) PROVE BranchInv'
    <3>1. CASE Relaunch(d)
      BY ZenonT(60), <2>a, <3>1 DEF Relaunch, TryStartDaemon, Claim, BranchInv
    <3>2. CASE ScheduleRelaunch(d) \/ RelaunchTimer(d) \/ RelaunchRoleCheck(d)
      BY <2>a, <3>2 DEF ScheduleRelaunch, RelaunchTimer, RelaunchRoleCheck, BranchInv
    <3>3. QED
      BY <2>2, <3>1, <3>2 DEF TailStep
  <2>3. ASSUME NEW d \in Daemons, NEW err \in BOOLEAN, RunReturn(d, err)
        PROVE  BranchInv'
    BY <2>a, <2>3 DEF RunReturn, BranchInv
  <2>4. ASSUME NEW isMaster \in BOOLEAN, SetRole(isMaster) PROVE BranchInv'
    <3>1. setRole.at = "idle" /\ setRole.todo = {}
      BY <2>0, <2>4 DEF SetRole
    <3>2. /\ setRole'.at = "walk" /\ setRole'.todo = Daemons
          /\ setRole'.flipped = (role # isMaster) /\ role' = isMaster
          /\ UNCHANGED genVars
      BY <2>4 DEF SetRole
    <3>3. QED
      BY <2>0, <3>1, <3>2 DEF BranchInv
  <2>5. ASSUME NEW d \in Daemons, SetRoleVisit(d) PROVE BranchInv'
    <3>1. /\ setRole.at = "walk" /\ setRole'.at # "idle"
          /\ setRole'.todo = setRole.todo \ {d} /\ setRole'.flipped = setRole.flipped
          /\ UNCHANGED <<role, genVars>>
      BY <2>5 DEF SetRoleVisit
    <3>2. RestartOnRoleFlip[d] /\ setRole.flipped /\ pc[d] = "running" =>
            setRole'.at = "cancel" /\ setRole'.d = d /\ setRole'.seq = runSeq[d]
      BY <2>5 DEF SetRoleVisit, Renew, HasCancel, Running
    <3>3. QED
      BY <2>0, <3>1, <3>2 DEF BranchInv
  <2>6. ASSUME SetRoleCancel PROVE BranchInv'
    <3>1. /\ setRole.at = "cancel" /\ setRole'.at = "walk"
          /\ setRole'.todo = setRole.todo /\ setRole'.flipped = setRole.flipped
          /\ UNCHANGED <<role, pc, branch, runSeq>>
      BY <2>6 DEF SetRoleCancel
    <3>2. \A e \in Daemons :
             /\ ctxDone[e] => ctxDone'[e]
             /\ pc[e] = "running" /\ setRole.d = e /\ setRole.seq = runSeq[e] => ctxDone'[e]
      BY <2>6 DEF SetRoleCancel, CancelGen, Running
    <3>3. QED
      BY <2>0, <3>1, <3>2 DEF BranchInv
  <2>7. ASSUME SetRoleTry PROVE BranchInv'
    <3>1. /\ setRole.at = "try" /\ setRole'.at = "walk"
          /\ setRole'.todo = setRole.todo /\ setRole'.flipped = setRole.flipped
          /\ UNCHANGED <<role, branch>> /\ setRole.d \in Daemons
      BY <2>7 DEF SetRoleTry, TryStartDaemon, Claim
    <3>2. \A e \in Daemons :
             \/ pc'[e] = pc[e] /\ runSeq'[e] = runSeq[e] /\ ctxDone'[e] = ctxDone[e]
             \/ pc'[e] = "starting"
      BY <2>7, <3>1, TryStartEffect DEF SetRoleTry
    <3>3. QED
      BY <2>0, <3>1, <3>2 DEF BranchInv
  <2>8. ASSUME SetRoleReturn PROVE BranchInv'
    BY <2>0, <2>8 DEF SetRoleReturn, IdleSetRole, BranchInv
  <2>9. ASSUME NEW c \in Callers, CallerStep(c) PROVE BranchInv'
    <3>1. CASE StartLoopEnable(c) \/ StartLoopRoleCheck(c)
      BY <2>a, <3>1 DEF StartLoopEnable, StartLoopRoleCheck, BranchInv
    <3>2. CASE StartLoopTry(c)
      BY ZenonT(60), <2>a, <3>2 DEF StartLoopTry, TryStartDaemon, Claim, BranchInv
    <3>3. CASE StopLoopCancel(c)
      BY <2>a, <3>3 DEF StopLoopCancel, CancelGen, BranchInv
    <3>4. QED
      BY <2>9, <3>1, <3>2, <3>3 DEF CallerStep
  <2>10. ASSUME NEW c \in Callers, NEW d \in Daemons, StartLoop(c, d) PROVE BranchInv'
    BY <2>a, <2>10 DEF StartLoop, BranchInv
  <2>11. ASSUME NEW c \in Callers, NEW d \in Daemons, StopLoop(c, d) PROVE BranchInv'
    BY <2>a, <2>11 DEF StopLoop, BranchInv
  <2>12. ASSUME Stop PROVE BranchInv'
    BY <2>a, <2>12 DEF Stop, BranchInv
  <2>13. CASE UNCHANGED vars
    BY <2>a, <2>13 DEF vars, BranchInv
  <2>14. QED
    BY <2>1, <2>2, <2>3, <2>4, <2>5, <2>6, <2>7, <2>8, <2>9, <2>10, <2>11,
       <2>12, <2>13 DEF Next, SetRoleStep, BranchInv
<1>3. BranchInv => BranchFollowsRole
  BY DEF BranchInv, BranchFollowsRole, SetRoleCancels
<1>4. QED
  BY <1>1, <1>2, <1>3, TypeCorrect, PTL DEF Spec

-----------------------------------------------------------------------------
\* What adding, ending and moving a tail of d does to every tail.
LEMMA TailEffect ==
    ASSUME TypeOK, NEW d \in Daemons, NEW j \in TailKinds, NEW k \in TailKinds,
           j # k
    PROVE  /\ AddTail(d, k) =>
                 /\ tail'[d][k] > 0
                 /\ \A e \in Daemons, l \in TailKinds : tail[e][l] > 0 => tail'[e][l] > 0
           /\ EndTail(d, k) =>
                 \A e \in Daemons, l \in TailKinds :
                    (e # d \/ l # k) /\ tail[e][l] > 0 => tail'[e][l] > 0
           /\ MoveTail(d, j, k) =>
                 /\ tail'[d][k] > 0
                 /\ \A e \in Daemons, l \in TailKinds :
                       (e # d \/ l # j) /\ tail[e][l] > 0 => tail'[e][l] > 0
<1> tail \in [Daemons -> [TailKinds -> Nat]]
  BY DEF TypeOK
<1>1. AddTail(d, k) =>
        /\ tail'[d][k] > 0
        /\ \A e \in Daemons, l \in TailKinds : tail[e][l] > 0 => tail'[e][l] > 0
  BY DEF AddTail, Tails
<1>2. EndTail(d, k) =>
        \A e \in Daemons, l \in TailKinds :
           (e # d \/ l # k) /\ tail[e][l] > 0 => tail'[e][l] > 0
  BY DEF EndTail, Tails
<1>3. MoveTail(d, j, k) =>
        /\ tail'[d][k] > 0
        /\ \A e \in Daemons, l \in TailKinds :
              (e # d \/ l # j) /\ tail[e][l] > 0 => tail'[e][l] > 0
  BY DEF MoveTail
<1>4. QED
  BY <1>1, <1>2, <1>3

(***************************************************************************)
(* A daemon shown as exhausted is off and stays off, and a set             *)
(* relaunchPending always has its timer.                                   *)
(***************************************************************************)
THEOREM ExhaustedStaysOff == Spec => []ExhaustedIsFinal
<1>1. Init => ExhaustedIsFinal
  BY DEF Init, ExhaustedIsFinal
<1>2. TypeOK /\ ExhaustedIsFinal /\ [Next]_vars => ExhaustedIsFinal'
  <2> DEFINE Off(e) == restartExhausted[e] => ~loopEnabled[e] /\ ~Running(e)
             Timed(e) == relaunchPending[e] =>
                            tail[e]["schedule"] > 0 \/ tail[e]["timer"] > 0
  <2> SUFFICES ASSUME TypeOK, ExhaustedIsFinal, [Next]_vars, NEW e \in Daemons
               PROVE  Off(e)' /\ Timed(e)'
    BY DEF ExhaustedIsFinal
  <2>0. Off(e) /\ Timed(e)
    BY DEF ExhaustedIsFinal
  <2> USE DEF TypeOK, regVars, genVars, bounds, Running
  <2>k. /\ "relaunch" \in TailKinds /\ "schedule" \in TailKinds
        /\ "timer" \in TailKinds /\ "fired" \in TailKinds
    BY DEF TailKinds
  <2>s. ASSUME UNCHANGED <<regVars, tail>>,
               pc'[e] = pc[e] \/ pc'[e] = "none" \/ pc[e] # "none"
        PROVE  Off(e)' /\ Timed(e)'
    BY <2>0, <2>s
  <2>1. ASSUME NEW d \in Daemons, GoroutineStep(d) PROVE Off(e)' /\ Timed(e)'
    <3>1. CASE StartDaemon(d)
      BY <2>s, <3>1 DEF StartDaemon
    <3>2. CASE AbortStart(d)
      BY <2>s, <3>2 DEF AbortStart, Release
    <3>3. CASE RunBegin(d)
      BY <2>s, <3>3 DEF RunBegin
    <3>4. CASE ExitSnapshot(d)
      BY <2>s, <3>4 DEF ExitSnapshot
    <3>5. ASSUME NEW longRun \in BOOLEAN, ExitCleanup(d, longRun)
          PROVE  Off(e)' /\ Timed(e)'
      <4>1. Off(e)'
        BY <2>0, <3>5 DEF ExitCleanup, Release
      <4>2. Timed(e)'
        <5> DEFINE pended(v) == [relaunchPending EXCEPT ![d] = v]
        <5>1. CASE UNCHANGED tail /\ relaunchPending' = pended(relaunchPending[d])
          BY <2>0, <5>1
        <5>2. CASE AddTail(d, "relaunch") /\ relaunchPending' = pended(relaunchPending[d])
          BY ZenonT(60), <2>0, <2>k, <5>2, TailEffect
        <5>3. CASE AddTail(d, "schedule")
          <6>1. /\ tail'[d]["schedule"] > 0
                /\ \A l \in TailKinds : tail[e][l] > 0 => tail'[e][l] > 0
            BY <2>k, <5>3, TailEffect
          <6>2. relaunchPending'[e] => e = d \/ relaunchPending[e]
            BY <3>5 DEF ExitCleanup
          <6>3. QED
            BY <2>0, <2>k, <6>1, <6>2
        <5>4. QED
          BY ZenonT(60), <3>5, <5>1, <5>2, <5>3 DEF ExitCleanup
      <4>3. QED
        BY <4>1, <4>2
    <3>6. QED
      BY <2>1, <3>1, <3>2, <3>3, <3>4, <3>5 DEF GoroutineStep
  <2>2. ASSUME NEW d \in Daemons, TryStartDaemon(d, FALSE) \/ TryStartDaemon(d, TRUE),
               UNCHANGED <<loopEnabled, relaunchPending, restartExhausted>>
        PROVE  Off(e)'
    BY <2>0, <2>2, TryStartEffect DEF MayStart
  <2>3. ASSUME NEW d \in Daemons, Relaunch(d) PROVE Off(e)' /\ Timed(e)'
    <3>1. Timed(e)'
      <4>1. EndTail(d, "relaunch") /\ UNCHANGED relaunchPending
        BY <2>3 DEF Relaunch
      <4>2. \A l \in TailKinds : l # "relaunch" /\ tail[e][l] > 0 => tail'[e][l] > 0
        BY <2>k, <4>1, TailEffect
      <4>3. QED
        BY <2>0, <2>k, <4>1, <4>2
    <3>2. QED
      BY <2>2, <2>3, <3>1 DEF Relaunch
  <2>4. ASSUME NEW d \in Daemons, ScheduleRelaunch(d) PROVE Off(e)' /\ Timed(e)'
    <3>1. Timed(e)'
      <4>1. CASE /\ relaunchPending' = [relaunchPending EXCEPT ![d] = FALSE]
                 /\ EndTail(d, "schedule")
        <5>1. \A l \in TailKinds : e # d /\ tail[e][l] > 0 => tail'[e][l] > 0
          BY <2>k, <4>1, TailEffect
        <5>2. QED
          BY <2>0, <2>k, <4>1, <5>1
      <4>2. CASE MoveTail(d, "schedule", "timer") /\ UNCHANGED relaunchPending
        <5>1. /\ tail'[d]["timer"] > 0
              /\ \A l \in TailKinds : e # d /\ tail[e][l] > 0 => tail'[e][l] > 0
          BY <2>k, <4>2, TailEffect
        <5>2. QED
          BY <2>0, <2>k, <4>2, <5>1
      <4>3. QED
        BY <2>4, <4>1, <4>2 DEF ScheduleRelaunch
    <3>2. QED
      BY <2>0, <2>4, <3>1 DEF ScheduleRelaunch
  <2>5. ASSUME NEW d \in Daemons, RelaunchTimer(d) PROVE Off(e)' /\ Timed(e)'
    <3>1. Timed(e)'
      <4>1. /\ relaunchPending' = [relaunchPending EXCEPT ![d] = FALSE]
            /\ MoveTail(d, "timer", "fired") \/ EndTail(d, "timer")
        BY <2>5 DEF RelaunchTimer
      <4>a. "timer" # "fired"
        OBVIOUS
      <4>b. CASE EndTail(d, "timer")
        <5>1. \A l \in TailKinds : e # d /\ tail[e][l] > 0 => tail'[e][l] > 0
          BY <4>b DEF EndTail, Tails
        <5>2. QED
          BY <2>0, <2>k, <4>1, <5>1
      <4>c. CASE MoveTail(d, "timer", "fired")
        BY ZenonT(60), <2>0, <2>k, <4>1, <4>a, <4>c, TailEffect
      <4>3. QED
        BY <4>1, <4>b, <4>c
    <3>2. QED
      BY <2>0, <2>5, <3>1 DEF RelaunchTimer
  <2>6. ASSUME NEW d \in Daemons, RelaunchRoleCheck(d) PROVE Off(e)' /\ Timed(e)'
    <3>1. Timed(e)'
      BY SMTT(40), <2>0, <2>k, <2>6, TailEffect DEF RelaunchRoleCheck
    <3>2. QED
      BY <2>0, <2>6, <3>1 DEF RelaunchRoleCheck
  <2>7. ASSUME NEW d \in Daemons, NEW err \in BOOLEAN, RunReturn(d, err)
        PROVE  Off(e)' /\ Timed(e)'
    BY <2>s, <2>7 DEF RunReturn
  <2>8. ASSUME NEW isMaster \in BOOLEAN, SetRole(isMaster) PROVE Off(e)' /\ Timed(e)'
    BY <2>s, <2>8 DEF SetRole
  <2>9. ASSUME NEW d \in Daemons, SetRoleVisit(d) PROVE Off(e)' /\ Timed(e)'
    BY <2>0, <2>9 DEF SetRoleVisit
  <2>10. ASSUME SetRoleCancel PROVE Off(e)' /\ Timed(e)'
    BY <2>s, <2>10 DEF SetRoleCancel
  <2>11. ASSUME SetRoleTry PROVE Off(e)' /\ Timed(e)'
    <3>1. setRole.d \in Daemons
      OBVIOUS
    <3>2. UNCHANGED <<loopEnabled, relaunchPending, restartExhausted, tail>>
      BY <2>11 DEF SetRoleTry
    <3>a. pc'[e] = pc[e] \/ loopEnabled[e]
      <4> DEFINE i == setRole.flipped /\
                      (RestartOnRoleFlip[setRole.d] \/ RunsOn[setRole.d] # "any")
      <4>1. TryStartDaemon(setRole.d, i)
        BY <2>11 DEF SetRoleTry
      <4> HIDE DEF i
      <4>2. QED
        BY ZenonT(60), <3>1, <4>1, TryStartEffect DEF MayStart
    <3>3. QED
      BY <2>0, <3>2, <3>a
  <2>12. ASSUME SetRoleReturn PROVE Off(e)' /\ Timed(e)'
    BY <2>s, <2>12 DEF SetRoleReturn
  <2>13. ASSUME NEW c \in Callers, StartLoopEnable(c) PROVE Off(e)' /\ Timed(e)'
    BY <2>0, <2>13 DEF StartLoopEnable
  <2>14. ASSUME NEW c \in Callers, StartLoopRoleCheck(c) PROVE Off(e)' /\ Timed(e)'
    BY <2>s, <2>14 DEF StartLoopRoleCheck
  <2>15. ASSUME NEW c \in Callers, StartLoopTry(c) PROVE Off(e)' /\ Timed(e)'
    <3>1. caller[c].d \in Daemons
      OBVIOUS
    <3>2. Off(e)'
      BY ZenonT(60), <2>0, <2>15, <3>1, TryStartEffect DEF StartLoopTry, MayStart
    <3>3. QED
      BY <2>0, <2>15, <3>2 DEF StartLoopTry
  <2>16. ASSUME NEW c \in Callers, StopLoopCancel(c) PROVE Off(e)' /\ Timed(e)'
    BY <2>s, <2>16 DEF StopLoopCancel
  <2>17. ASSUME NEW c \in Callers, NEW d \in Daemons, StartLoop(c, d)
         PROVE  Off(e)' /\ Timed(e)'
    BY <2>s, <2>17 DEF StartLoop
  <2>18. ASSUME NEW c \in Callers, NEW d \in Daemons, StopLoop(c, d)
         PROVE  Off(e)' /\ Timed(e)'
    BY <2>0, <2>18 DEF StopLoop
  <2>19. ASSUME Stop PROVE Off(e)' /\ Timed(e)'
    BY <2>s, <2>19 DEF Stop
  <2>20. CASE UNCHANGED vars
    BY <2>s, <2>20 DEF vars
  <2>21. QED
    BY <2>1, <2>3, <2>4, <2>5, <2>6, <2>7, <2>8, <2>9, <2>10, <2>11, <2>12,
       <2>13, <2>14, <2>15, <2>16, <2>17, <2>18, <2>19, <2>20
       DEF Next, TailStep, SetRoleStep, CallerStep
<1>3. QED
  BY <1>1, <1>2, TypeCorrect, PTL DEF Spec

-----------------------------------------------------------------------------
(***************************************************************************)
(* No cancel function is of a generation still to come.                    *)
(***************************************************************************)
LEMMA SeqInit == Init => SeqBound
<1> SUFFICES ASSUME Init PROVE SeqBound
  OBVIOUS
<1>1. /\ setRole.seq = 0 /\ setRole.d = AnyDaemon
      /\ \A c \in Callers : caller[c].seq = 0 /\ caller[c].d = AnyDaemon
  BY DEF Init, IdleSetRole, IdleCaller
<1>2. runSeq[AnyDaemon] = 0
  BY IdleTyped DEF Init
<1> QED BY <1>1, <1>2 DEF SeqBound

LEMMA SeqNext == TypeOK /\ SeqBound /\ [Next]_vars => SeqBound'
<1> SUFFICES ASSUME TypeOK, SeqBound, [Next]_vars PROVE SeqBound'
  OBVIOUS
<1> USE DEF TypeOK, SeqBound, regVars, genVars, bounds
<1>t. ASSUME NEW d \in Daemons, NEW i, TryStartDaemon(d, i), NEW e \in Daemons
      PROVE  runSeq[e] <= runSeq'[e] /\ runSeq'[e] \in Nat
  BY <1>t DEF TryStartDaemon, Claim
<1>s. ASSUME UNCHANGED <<runSeq, setRole, caller>> PROVE SeqBound'
  BY <1>s
<1>c. ASSUME NEW c \in Callers, NEW x, caller' = [caller EXCEPT ![c] = x],
             x.seq <= runSeq[x.d], UNCHANGED <<runSeq, setRole>>
      PROVE  SeqBound'
  BY <1>c
<1>i. IdleCaller.seq <= runSeq[IdleCaller.d]
  BY IdleTyped DEF IdleCaller
<1>1. ASSUME NEW d \in Daemons, GoroutineStep(d) PROVE SeqBound'
  BY <1>s, <1>1 DEF GoroutineStep, StartDaemon, AbortStart, RunBegin, ExitSnapshot,
     ExitCleanup, Release
<1>2. ASSUME NEW d \in Daemons, TailStep(d) PROVE SeqBound'
  <2>1. CASE Relaunch(d)
    <3>1. TryStartDaemon(d, FALSE) /\ UNCHANGED <<setRole, caller>>
      BY <2>1 DEF Relaunch
    <3>2. \A e \in Daemons : runSeq[e] <= runSeq'[e] /\ runSeq'[e] \in Nat
      BY <1>t, <3>1
    <3>3. setRole.d \in Daemons /\ setRole.seq \in Nat /\ runSeq[setRole.d] \in Nat
      OBVIOUS
    <3>4. ASSUME NEW c \in Callers
          PROVE  /\ caller[c].d \in Daemons /\ caller[c].seq \in Nat
                 /\ runSeq[caller[c].d] \in Nat
      OBVIOUS
    <3> QED BY <3>1, <3>2, <3>3, <3>4
  <2>2. CASE ScheduleRelaunch(d) \/ RelaunchTimer(d) \/ RelaunchRoleCheck(d)
    BY <1>s, <2>2 DEF ScheduleRelaunch, RelaunchTimer, RelaunchRoleCheck
  <2> QED BY <1>2, <2>1, <2>2 DEF TailStep
<1>3. ASSUME NEW d \in Daemons, NEW err \in BOOLEAN, RunReturn(d, err) PROVE SeqBound'
  BY <1>s, <1>3 DEF RunReturn
<1>4. ASSUME NEW isMaster \in BOOLEAN, SetRole(isMaster) PROVE SeqBound'
  BY <1>4, IdleTyped DEF SetRole
<1>5. ASSUME NEW d \in Daemons, SetRoleVisit(d) PROVE SeqBound'
  BY <1>5 DEF SetRoleVisit
<1>6. ASSUME SetRoleCancel PROVE SeqBound'
  BY <1>6 DEF SetRoleCancel
<1>7. ASSUME SetRoleTry PROVE SeqBound'
  <2>1. \E i : TryStartDaemon(setRole.d, i)
    BY <1>7 DEF SetRoleTry
  <2>2. setRole.d \in Daemons
    OBVIOUS
  <2>3. \A e \in Daemons : runSeq[e] <= runSeq'[e] /\ runSeq'[e] \in Nat
    BY <1>t, <2>1, <2>2
  <2>4. setRole'.seq = setRole.seq /\ setRole'.d = setRole.d /\ caller' = caller
    BY <1>7 DEF SetRoleTry
  <2>5. setRole.seq \in Nat /\ runSeq[setRole.d] \in Nat
    OBVIOUS
  <2>6. ASSUME NEW c \in Callers
        PROVE  /\ caller[c].d \in Daemons /\ caller[c].seq \in Nat
               /\ runSeq[caller[c].d] \in Nat
    OBVIOUS
  <2> QED BY <2>2, <2>3, <2>4, <2>5, <2>6
<1>8. ASSUME SetRoleReturn PROVE SeqBound'
  BY <1>8, IdleTyped DEF SetRoleReturn, IdleSetRole
<1>9. ASSUME NEW c \in Callers, StartLoopEnable(c) \/ StartLoopRoleCheck(c)
      PROVE  SeqBound'
  <2> DEFINE d == caller[c].d
             x(at, i) == [at |-> at, d |-> d, seq |-> 0, intent |-> i]
  <2>1. UNCHANGED <<runSeq, setRole>>
    BY <1>9 DEF StartLoopEnable, StartLoopRoleCheck
  <2>2. \/ caller' = [caller EXCEPT ![c] = x("check", ~loopEnabled[d])]
        \/ caller' = [caller EXCEPT ![c] = x("try", caller[c].intent)]
        \/ caller' = [caller EXCEPT ![c] = IdleCaller]
    BY <1>9 DEF StartLoopEnable, StartLoopRoleCheck, CallerGoes
  <2>3. d \in Daemons /\ runSeq[d] \in Nat
    OBVIOUS
  <2>4. \A at, i : x(at, i).seq <= runSeq[x(at, i).d]
    BY <2>3
  <2> QED BY <1>c, <1>i, <2>1, <2>2, <2>4
<1>10. ASSUME NEW c \in Callers, StartLoopTry(c) PROVE SeqBound'
  <2>1. caller[c].d \in Daemons /\ AnyDaemon \in Daemons
    BY IdleTyped
  <2>2. \A e \in Daemons : runSeq[e] <= runSeq'[e] /\ runSeq'[e] \in Nat
    BY <1>t, <1>10, <2>1 DEF StartLoopTry
  <2>3. caller' = [caller EXCEPT ![c] = IdleCaller] /\ setRole' = setRole
    BY <1>10 DEF StartLoopTry
  <2>4. setRole.d \in Daemons /\ setRole.seq \in Nat /\ runSeq[setRole.d] \in Nat
    OBVIOUS
  <2>5. ASSUME NEW b \in Callers
        PROVE  /\ caller[b].d \in Daemons /\ caller[b].seq \in Nat
               /\ runSeq[caller[b].d] \in Nat
    OBVIOUS
  <2>6. IdleCaller.seq = 0 /\ IdleCaller.d = AnyDaemon
    BY DEF IdleCaller
  <2>7. ASSUME NEW b \in Callers PROVE caller'[b].seq <= runSeq'[caller'[b].d]
    <3>1. CASE b = c
      BY <2>1, <2>2, <2>3, <2>6, <3>1
    <3>2. CASE b # c
      BY <2>2, <2>3, <2>5, <3>2
    <3> QED BY <3>1, <3>2
  <2> QED BY <2>2, <2>3, <2>4, <2>7
<1>11. ASSUME NEW c \in Callers, StopLoopCancel(c) PROVE SeqBound'
  BY <1>11, IdleTyped DEF StopLoopCancel, IdleCaller
<1>12. ASSUME NEW c \in Callers, NEW d \in Daemons, StartLoop(c, d) PROVE SeqBound'
  BY <1>12 DEF StartLoop, CallerGoes
<1>13. ASSUME NEW c \in Callers, NEW d \in Daemons, StopLoop(c, d) PROVE SeqBound'
  <2> DEFINE x == [at |-> "cancel", d |-> d, seq |-> runSeq[d], intent |-> FALSE]
  <2>1. UNCHANGED <<runSeq, setRole>>
    BY <1>13 DEF StopLoop
  <2>2. caller' = [caller EXCEPT ![c] = x] \/ caller' = caller
    BY <1>13 DEF StopLoop, CallerGoes
  <2>3. x.seq <= runSeq[x.d]
    OBVIOUS
  <2> QED BY <1>c, <1>s, <2>1, <2>2, <2>3
<1>14. ASSUME Stop PROVE SeqBound'
  BY <1>s, <1>14 DEF Stop
<1>15. CASE UNCHANGED vars
  BY <1>s, <1>15 DEF vars
<1> QED
  BY <1>1, <1>2, <1>3, <1>4, <1>5, <1>6, <1>7, <1>8, <1>9, <1>10, <1>11, <1>12,
     <1>13, <1>14, <1>15 DEF Next, SetRoleStep, CallerStep

\* A tryStartDaemon of d claims a new generation, plants an intent, or leaves
\* everything as it is.
LEMMA TryStartCases ==
    ASSUME TypeOK, NEW d \in Daemons, NEW i, TryStartDaemon(d, i), NEW e \in Daemons
    PROVE  /\ exit' = exit
           /\ \/ /\ e = d /\ ~Running(e) /\ pc'[e] = "starting"
                 /\ runSeq'[e] = runSeq[e] + 1 /\ ctxDone'[e] = FALSE
              \/ /\ pc'[e] = pc[e] /\ runSeq'[e] = runSeq[e] /\ ctxDone'[e] = ctxDone[e]
                 /\ pendingRestart[e] => pendingRestart'[e]
                 /\ e = d => \/ Running(e) /\ (i => pendingRestart'[e])
                             \/ stopped \/ ~RoleAllows(e) \/ ~loopEnabled[e]
<1> USE DEF TypeOK, genVars, Running
<1>1. CASE MayStart(d) /\ ~Running(d) /\ Claim(d)
  BY <1>1 DEF Claim
<1>2. CASE /\ MayStart(d) /\ Running(d) /\ UNCHANGED genVars
           /\ pendingRestart' = [pendingRestart EXCEPT ![d] = @ \/ KeepIntent(d, i)]
  BY <1>2 DEF KeepIntent, HasCancel
<1>3. CASE ~MayStart(d) /\ UNCHANGED <<pendingRestart, genVars>>
  BY <1>3 DEF MayStart
<1> QED BY <1>1, <1>2, <1>3 DEF TryStartDaemon

\* The callers on their way to e, when only c moves.
LEMMA CallerMoves ==
    ASSUME TypeOK, NEW c \in Callers, NEW x, caller' = [caller EXCEPT ![c] = x],
           NEW e \in Daemons
    PROVE  /\ caller'[c] = x
           /\ \A b \in Callers \ {c} : caller'[b] = caller[b]
  BY DEF TypeOK

(***************************************************************************)
(* Whoever cancels a daemon of either role leaves a restart intent.        *)
(***************************************************************************)
LEMMA CoveredInit ==
    ASSUME Init, NEW e \in Daemons PROVE RestartCovered(e)
  BY DEF Init, RestartCovered, Running

LEMMA CoveredNext ==
    ASSUME TypeOK, SeqBound, [Next]_vars, NEW e \in Daemons, RunsOn[e] = "any",
           RestartCovered(e)
    PROVE  RestartCovered(e)'
<1> DEFINE Cancels == \E c \in Callers : StopLoopCancels(c, e)
           Walks   == setRole.at = "cancel" /\ setRole.d = e /\ setRole.seq = runSeq[e]
           C1 == Running(e) /\ loopEnabled[e] /\ ~stopped /\ (ctxDone[e] \/ Cancels) =>
                     pendingRestart[e] \/ IntentArrives(e)
           C2 == Running(e) /\ Walks => pendingRestart[e]
           C3 == pc[e] = "snapped" => exit[e].allows /\ (exit[e].stopped => stopped)
           C4 == pc[e] \in {"returned", "snapped"} /\ exit[e].err /\ ~exit[e].abnormal =>
                     ctxDone[e]
           C5 == pc[e] = "aborting" => stopped
<1>0. C1 /\ C2 /\ C3 /\ C4 /\ C5
  BY DEF RestartCovered
<1>g. ASSUME C1', C2', C3', C4', C5' PROVE RestartCovered(e)'
  BY <1>g DEF RestartCovered
<1>any. RoleAllows(e)
  BY DEF RoleAllows
<1> USE DEF TypeOK, regVars, genVars, bounds, Running
\* A step of others.
<1>s. ASSUME UNCHANGED <<stopped, setRole, caller>>, loopEnabled'[e] = loopEnabled[e],
             pc'[e] = pc[e], runSeq'[e] = runSeq[e], ctxDone'[e] = ctxDone[e],
             exit'[e] = exit[e], pendingRestart[e] => pendingRestart'[e]
      PROVE  RestartCovered(e)'
  <2>1. Cancels' = Cancels /\ Walks' = Walks /\ IntentArrives(e)' = IntentArrives(e)
    BY <1>s DEF StopLoopCancels, IntentArrives, StartLoopArrives
  <2> QED BY <1>0, <1>g, <1>s, <2>1
<1>r. ASSUME pc'[e] = "none" PROVE RestartCovered(e)'
  BY <1>g, <1>r
\* A new generation: every cancel function is of an older one.
<1>n. ASSUME pc'[e] = "starting", runSeq'[e] = runSeq[e] + 1, ctxDone'[e] = FALSE,
             setRole'.seq = setRole.seq, setRole'.d = setRole.d,
             \A c \in Callers : caller'[c].at = "cancel" => caller'[c] = caller[c]
      PROVE  RestartCovered(e)'
  <2>1. runSeq[e] \in Nat
    OBVIOUS
  <2>2. ~Walks'
    <3>1. setRole.d = e => setRole.seq <= runSeq[e]
      BY DEF SeqBound
    <3>2. setRole.seq \in Nat
      OBVIOUS
    <3> QED BY <1>n, <2>1, <3>1, <3>2
  <2>3. ~Cancels'
    <3> SUFFICES ASSUME NEW c \in Callers, StopLoopCancels(c, e)' PROVE FALSE
      OBVIOUS
    <3>1. caller[c].d = e /\ caller[c].seq = runSeq[e] + 1
      BY <1>n DEF StopLoopCancels
    <3>2. caller[c].seq <= runSeq[e]
      BY <3>1 DEF SeqBound
    <3> QED BY <2>1, <3>1, <3>2
  <2> QED BY <1>g, <1>n, <2>2, <2>3
<1>1. ASSUME NEW d \in Daemons, StartDaemon(d) PROVE RestartCovered(e)'
  <2>1. CASE d # e
    BY <1>s, <1>1, <2>1 DEF StartDaemon
  <2>2. CASE d = e /\ ~stopped
    <3>1. /\ pc[e] = "starting" /\ pc'[e] = "spawned" /\ ctxDone' = ctxDone
          /\ UNCHANGED <<stopped, loopEnabled, pendingRestart, runSeq, setRole, caller>>
      BY <1>1, <2>2 DEF StartDaemon
    <3>2. Cancels' = Cancels /\ Walks' = Walks /\ IntentArrives(e)' = IntentArrives(e)
      BY <3>1 DEF StopLoopCancels, IntentArrives, StartLoopArrives
    <3> QED BY <1>0, <1>g, <3>1, <3>2
  <2>3. CASE d = e /\ stopped
    <3>1. /\ pc[e] = "starting" /\ pc'[e] = "aborting"
          /\ UNCHANGED <<stopped, pendingRestart, runSeq, setRole>>
      BY <1>1, <2>3 DEF StartDaemon
    <3>2. Walks' = Walks
      BY <3>1
    <3> QED BY <1>0, <1>g, <2>3, <3>1, <3>2
  <2> QED BY <2>1, <2>2, <2>3
<1>2. ASSUME NEW d \in Daemons, AbortStart(d) PROVE RestartCovered(e)'
  BY <1>s, <1>r, <1>2 DEF AbortStart, Release
<1>3. ASSUME NEW d \in Daemons, RunBegin(d) PROVE RestartCovered(e)'
  <2>1. CASE d # e
    BY <1>s, <1>3, <2>1 DEF RunBegin
  <2>2. CASE d = e
    <3>1. /\ pc[e] = "spawned" /\ pc'[e] = "running"
          /\ UNCHANGED <<stopped, loopEnabled, pendingRestart, runSeq, ctxDone, setRole, caller>>
      BY <1>3, <2>2 DEF RunBegin
    <3>2. Cancels' = Cancels /\ Walks' = Walks /\ IntentArrives(e)' = IntentArrives(e)
      BY <3>1 DEF StopLoopCancels, IntentArrives, StartLoopArrives
    <3> QED BY <1>0, <1>g, <3>1, <3>2
  <2> QED BY <2>1, <2>2
<1>4. ASSUME NEW d \in Daemons, NEW err \in BOOLEAN, RunReturn(d, err)
      PROVE  RestartCovered(e)'
  <2>1. CASE d # e
    BY <1>s, <1>4, <2>1 DEF RunReturn
  <2>2. CASE d = e
    <3>1. /\ pc[e] = "running" /\ pc'[e] = "returned"
          /\ exit'[e].err = err /\ exit'[e].abnormal = (err /\ ~ctxDone[e])
          /\ UNCHANGED <<stopped, loopEnabled, pendingRestart, runSeq, ctxDone, setRole, caller>>
      BY <1>4, <2>2 DEF RunReturn
    <3>2. Cancels' = Cancels /\ Walks' = Walks /\ IntentArrives(e)' = IntentArrives(e)
      BY <3>1 DEF StopLoopCancels, IntentArrives, StartLoopArrives
    <3> QED BY <1>0, <1>g, <3>1, <3>2
  <2> QED BY <2>1, <2>2
<1>5. ASSUME NEW d \in Daemons, ExitSnapshot(d) PROVE RestartCovered(e)'
  <2>1. CASE d # e
    BY <1>s, <1>5, <2>1 DEF ExitSnapshot
  <2>2. CASE d = e
    <3>1. /\ pc[e] = "returned" /\ pc'[e] = "snapped"
          /\ exit'[e].err = exit[e].err /\ exit'[e].abnormal = exit[e].abnormal
          /\ exit'[e].allows = RoleAllows(e) /\ exit'[e].stopped = stopped
          /\ UNCHANGED <<stopped, loopEnabled, pendingRestart, runSeq, ctxDone, setRole, caller>>
      BY <1>5, <2>2 DEF ExitSnapshot
    <3>2. Cancels' = Cancels /\ Walks' = Walks /\ IntentArrives(e)' = IntentArrives(e)
      BY <3>1 DEF StopLoopCancels, IntentArrives, StartLoopArrives
    <3> QED BY <1>0, <1>g, <1>any, <3>1, <3>2
  <2> QED BY <2>1, <2>2
<1>6. ASSUME NEW d \in Daemons, NEW longRun \in BOOLEAN, ExitCleanup(d, longRun)
      PROVE  RestartCovered(e)'
  <2>1. CASE d # e
    <3>1. /\ UNCHANGED <<stopped, setRole, caller, runSeq>>
          /\ loopEnabled'[e] = loopEnabled[e] /\ pendingRestart'[e] = pendingRestart[e]
      BY <1>6, <2>1 DEF ExitCleanup, Release
    <3>2. pc'[e] = pc[e] /\ ctxDone'[e] = ctxDone[e] /\ exit'[e] = exit[e]
      BY <1>6, <2>1 DEF ExitCleanup, Release
    <3> QED BY <1>s, <3>1, <3>2
  <2>2. CASE d = e
    BY <1>r, <1>6, <2>2 DEF ExitCleanup, Release
  <2> QED BY <2>1, <2>2
<1>7. ASSUME NEW d \in Daemons, TailStep(d) PROVE RestartCovered(e)'
  <2>1. CASE Relaunch(d)
    <3>1. TryStartDaemon(d, FALSE) /\ UNCHANGED <<stopped, loopEnabled, setRole, caller>>
      BY <2>1 DEF Relaunch
    <3> QED BY <1>s, <1>n, <3>1, TryStartCases
  <2>2. CASE ScheduleRelaunch(d) \/ RelaunchTimer(d) \/ RelaunchRoleCheck(d)
    BY <1>s, <2>2 DEF ScheduleRelaunch, RelaunchTimer, RelaunchRoleCheck
  <2> QED BY <1>7, <2>1, <2>2 DEF TailStep
\* Only the walk of SetRole moves.
<1>w. ASSUME UNCHANGED <<stopped, loopEnabled, genVars, caller>>, ~Walks' \/ pendingRestart'[e],
             pendingRestart[e] => pendingRestart'[e]
      PROVE  RestartCovered(e)'
  <2>1. Cancels' = Cancels /\ IntentArrives(e)' = IntentArrives(e)
    BY <1>w DEF StopLoopCancels, IntentArrives, StartLoopArrives
  <2> QED BY <1>0, <1>g, <1>w, <2>1
<1>8. ASSUME NEW isMaster \in BOOLEAN, SetRole(isMaster) PROVE RestartCovered(e)'
  BY <1>w, <1>8 DEF SetRole
<1>9. ASSUME NEW d \in Daemons, SetRoleVisit(d) PROVE RestartCovered(e)'
  <2>1. UNCHANGED <<stopped, loopEnabled, genVars, caller>>
    BY <1>9 DEF SetRoleVisit
  <2>2. pendingRestart[e] => pendingRestart'[e]
    BY <1>9 DEF SetRoleVisit
  <2>3. Walks' => d = e
    BY <1>9 DEF SetRoleVisit
  <2>4. d = e /\ Walks' => pendingRestart'[e]
    BY <1>9, <1>any DEF SetRoleVisit
  <2> QED BY <1>w, <2>1, <2>2, <2>3, <2>4
<1>10. ASSUME SetRoleReturn PROVE RestartCovered(e)'
  BY <1>w, <1>10 DEF SetRoleReturn, IdleSetRole
<1>11. ASSUME SetRoleCancel PROVE RestartCovered(e)'
  <2>1. /\ UNCHANGED <<stopped, loopEnabled, pendingRestart, runSeq, pc, exit, caller>>
        /\ setRole'.at = "walk"
    BY <1>11 DEF SetRoleCancel
  <2>2. ctxDone'[e] => ctxDone[e] \/ (Running(e) /\ Walks)
    BY <1>11 DEF SetRoleCancel, CancelGen
  <2>3. ctxDone[e] => ctxDone'[e]
    BY <1>11 DEF SetRoleCancel, CancelGen
  <2>4. Cancels' = Cancels /\ ~Walks' /\ IntentArrives(e)' = IntentArrives(e)
    BY <2>1 DEF StopLoopCancels, IntentArrives, StartLoopArrives
  <2> QED BY <1>0, <1>g, <2>1, <2>2, <2>3, <2>4
<1>12. ASSUME SetRoleTry PROVE RestartCovered(e)'
  <2>1. /\ \E i : TryStartDaemon(setRole.d, i)
        /\ UNCHANGED <<stopped, loopEnabled, caller>>
        /\ setRole'.seq = setRole.seq /\ setRole'.d = setRole.d /\ setRole'.at = "walk"
    BY <1>12 DEF SetRoleTry
  <2>2. setRole.d \in Daemons
    OBVIOUS
  <2>3. CASE /\ pc'[e] = "starting" /\ runSeq'[e] = runSeq[e] + 1 /\ ctxDone'[e] = FALSE
    BY <1>n, <2>1, <2>3
  <2>4. CASE /\ pc'[e] = pc[e] /\ runSeq'[e] = runSeq[e] /\ ctxDone'[e] = ctxDone[e]
             /\ exit' = exit /\ (pendingRestart[e] => pendingRestart'[e])
    <3>1. Cancels' = Cancels /\ ~Walks' /\ IntentArrives(e)' = IntentArrives(e)
      BY <2>1, <2>4 DEF StopLoopCancels, IntentArrives, StartLoopArrives
    <3> QED BY <1>0, <1>g, <2>1, <2>4, <3>1
  <2> QED BY <2>1, <2>2, <2>3, <2>4, TryStartCases
\* Only caller c moves.
<1>c. ASSUME NEW c \in Callers, NEW x, caller' = [caller EXCEPT ![c] = x],
             UNCHANGED <<stopped, setRole, pc, runSeq, exit, pendingRestart>>,
             ctxDone[e] => ctxDone'[e],
             ctxDone'[e] => ctxDone[e] \/ StopLoopCancels(c, e),
             /\ loopEnabled'[e] =>
                   \/ loopEnabled[e]
                   \/ x.at = "check" /\ x.d = e /\ x.intent
             /\ x.at = "cancel" /\ x.d = e => ~loopEnabled'[e]
             /\ StartLoopArrives(c, e) /\ caller[c].intent =>
                   x.at \in {"check", "try"} /\ x.d = e /\ x.intent
      PROVE  RestartCovered(e)'
  <2>1. caller'[c] = x /\ \A b \in Callers \ {c} : caller'[b] = caller[b]
    BY <1>c, CallerMoves
  <2>2. IntentArrives(e) => IntentArrives(e)'
    <3> SUFFICES ASSUME NEW b \in Callers, StartLoopArrives(b, e), caller[b].intent
                 PROVE  IntentArrives(e)'
      BY DEF IntentArrives
    <3> QED BY <1>c, <2>1 DEF IntentArrives, StartLoopArrives
  <2>3. loopEnabled'[e] /\ Cancels' => Cancels
    BY <1>c, <2>1 DEF StopLoopCancels
  <2>4. loopEnabled'[e] /\ ~loopEnabled[e] => IntentArrives(e)'
    BY <1>c, <2>1 DEF IntentArrives, StartLoopArrives
  <2>5. ctxDone'[e] => ctxDone[e] \/ Cancels
    BY <1>c
  <2>6. C1'
    BY <1>0, <1>c, <2>2, <2>3, <2>4, <2>5
  <2>7. Walks' = Walks
    BY <1>c
  <2> QED BY <1>0, <1>g, <1>c, <2>6, <2>7
<1>13. ASSUME NEW c \in Callers, StartLoopEnable(c) PROVE RestartCovered(e)'
  <2> DEFINE d == caller[c].d
             x == [at |-> "check", d |-> d, seq |-> 0, intent |-> ~loopEnabled[d]]
  <2>1. /\ caller[c].at = "start" /\ caller' = [caller EXCEPT ![c] = x]
        /\ UNCHANGED <<stopped, setRole, genVars, pendingRestart>>
        /\ loopEnabled' = [loopEnabled EXCEPT ![d] = TRUE]
    BY <1>13 DEF StartLoopEnable, CallerGoes
  <2>2. d \in Daemons
    OBVIOUS
  <2>3. loopEnabled'[e] => loopEnabled[e] \/ (x.at = "check" /\ x.d = e /\ x.intent)
    BY <2>1, <2>2
  <2>4. x.at # "cancel" /\ ~StartLoopArrives(c, e)
    BY <2>1 DEF StartLoopArrives
  <2> HIDE DEF x
  <2> QED BY <1>c, <2>1, <2>3, <2>4
<1>14. ASSUME NEW c \in Callers, StartLoopRoleCheck(c) PROVE RestartCovered(e)'
  <2> DEFINE d == caller[c].d
             x == [at |-> "try", d |-> d, seq |-> 0, intent |-> caller[c].intent]
  <2>1. /\ caller[c].at = "check" /\ UNCHANGED <<stopped, setRole, genVars, regVars>>
    BY <1>14 DEF StartLoopRoleCheck
  <2>2. CASE caller' = [caller EXCEPT ![c] = x]
    <3>1. x.at = "try" /\ x.d = d /\ x.intent = caller[c].intent
      OBVIOUS
    <3> HIDE DEF x
    <3> QED BY <1>c, <2>1, <2>2, <3>1 DEF StartLoopArrives
  <2>3. CASE caller' = [caller EXCEPT ![c] = IdleCaller] /\ ~RoleAllows(d)
    <3>1. ~StartLoopArrives(c, e)
      BY <1>any, <2>3 DEF StartLoopArrives
    <3>2. IdleCaller.at = "idle"
      BY DEF IdleCaller
    <3> QED BY <1>c, <2>1, <2>3, <3>1, <3>2
  <2> QED BY <1>14, <2>2, <2>3 DEF StartLoopRoleCheck, CallerGoes
<1>15. ASSUME NEW c \in Callers, StartLoopTry(c) PROVE RestartCovered(e)'
  <2> DEFINE d == caller[c].d
             i == caller[c].intent
  <2>1. /\ caller[c].at = "try" /\ TryStartDaemon(d, i)
        /\ caller' = [caller EXCEPT ![c] = IdleCaller]
        /\ UNCHANGED <<stopped, loopEnabled, setRole>>
    BY <1>15 DEF StartLoopTry
  <2>2. d \in Daemons /\ IdleCaller.at = "idle"
    BY DEF IdleCaller
  <2>3. caller'[c] = IdleCaller /\ \A b \in Callers \ {c} : caller'[b] = caller[b]
    BY <2>1, CallerMoves
  <2>4. \A b \in Callers : caller'[b].at = "cancel" => caller'[b] = caller[b]
    BY <2>2, <2>3
  <2>5. CASE /\ pc'[e] = "starting" /\ runSeq'[e] = runSeq[e] + 1 /\ ctxDone'[e] = FALSE
    BY <1>n, <2>1, <2>4, <2>5
  <2>6. CASE /\ pc'[e] = pc[e] /\ runSeq'[e] = runSeq[e] /\ ctxDone'[e] = ctxDone[e]
             /\ exit' = exit /\ (pendingRestart[e] => pendingRestart'[e])
             /\ e = d => \/ Running(e) /\ (i => pendingRestart'[e])
                         \/ stopped \/ ~RoleAllows(e) \/ ~loopEnabled[e]
    <3>1. Cancels' => Cancels
      BY <2>1, <2>4, <2>6 DEF StopLoopCancels
    <3>2. IntentArrives(e) /\ loopEnabled[e] /\ ~stopped =>
            IntentArrives(e)' \/ pendingRestart'[e]
      <4> SUFFICES ASSUME NEW b \in Callers, StartLoopArrives(b, e), caller[b].intent,
                          loopEnabled[e], ~stopped
                   PROVE  IntentArrives(e)' \/ pendingRestart'[e]
        BY DEF IntentArrives
      <4>1. CASE b = c
        BY <1>any, <2>6, <4>1 DEF StartLoopArrives
      <4>2. CASE b # c
        BY <2>3, <4>2 DEF IntentArrives, StartLoopArrives
      <4> QED BY <4>1, <4>2
    <3>3. Walks' = Walks
      BY <2>1, <2>6
    <3> QED BY <1>0, <1>g, <2>1, <2>6, <3>1, <3>2, <3>3
  <2> HIDE DEF i, d
  <2> QED BY ZenonT(60), <2>1, <2>2, <2>5, <2>6, TryStartCases
<1>16. ASSUME NEW c \in Callers, StopLoopCancel(c) PROVE RestartCovered(e)'
  <2>1. /\ caller[c].at = "cancel" /\ caller' = [caller EXCEPT ![c] = IdleCaller]
        /\ UNCHANGED <<stopped, setRole, pc, runSeq, exit, pendingRestart, loopEnabled>>
    BY <1>16 DEF StopLoopCancel
  <2>2. /\ ctxDone[e] => ctxDone'[e]
        /\ ctxDone'[e] => ctxDone[e] \/ StopLoopCancels(c, e)
    BY <1>16 DEF StopLoopCancel, CancelGen, StopLoopCancels
  <2>3. IdleCaller.at = "idle" /\ ~StartLoopArrives(c, e)
    BY <2>1 DEF IdleCaller, StartLoopArrives
  <2> QED BY <1>c, <2>1, <2>2, <2>3
<1>17. ASSUME NEW c \in Callers, NEW d \in Daemons, StartLoop(c, d)
       PROVE  RestartCovered(e)'
  <2> DEFINE x == [at |-> "start", d |-> d, seq |-> 0, intent |-> FALSE]
  <2>1. /\ caller[c].at = "idle" /\ caller' = [caller EXCEPT ![c] = x]
        /\ UNCHANGED <<stopped, setRole, genVars, regVars>>
    BY <1>17 DEF StartLoop, CallerGoes
  <2>2. x.at = "start" /\ ~StartLoopArrives(c, e)
    BY <2>1 DEF StartLoopArrives
  <2> HIDE DEF x
  <2> QED BY <1>c, <2>1, <2>2
<1>18. ASSUME NEW c \in Callers, NEW d \in Daemons, StopLoop(c, d)
       PROVE  RestartCovered(e)'
  <2> DEFINE x == [at |-> "cancel", d |-> d, seq |-> runSeq[d], intent |-> FALSE]
  <2>1. /\ caller[c].at = "idle" /\ loopEnabled' = [loopEnabled EXCEPT ![d] = FALSE]
        /\ caller' = [caller EXCEPT ![c] = x] \/ caller' = caller
        /\ UNCHANGED <<stopped, setRole, genVars, pendingRestart>>
    BY <1>18 DEF StopLoop, CallerGoes
  <2>2. x.at = "cancel" /\ x.d = d /\ ~StartLoopArrives(c, e)
    BY <2>1 DEF StartLoopArrives
  <2>3. CASE caller' = [caller EXCEPT ![c] = x]
    <3> HIDE DEF x
    <3> QED BY <1>c, <2>1, <2>2, <2>3
  <2>4. CASE caller' = caller
    <3>1. Cancels' = Cancels /\ Walks' = Walks /\ IntentArrives(e)' = IntentArrives(e)
      BY <2>1, <2>4 DEF StopLoopCancels, IntentArrives, StartLoopArrives
    <3> QED BY <1>0, <1>g, <2>1, <2>4, <3>1
  <2> QED BY <2>1, <2>3, <2>4
<1>19. ASSUME Stop PROVE RestartCovered(e)'
  <2>1. /\ stopped' /\ UNCHANGED <<pc, runSeq, exit, setRole, pendingRestart>>
        /\ ctxDone[e] => ctxDone'[e]
    BY <1>19 DEF Stop
  <2>2. Walks' = Walks
    BY <2>1
  <2> QED BY <1>0, <1>g, <2>1, <2>2
<1>20. CASE UNCHANGED vars
  BY <1>s, <1>20 DEF vars
<1> QED
  BY <1>1, <1>2, <1>3, <1>4, <1>5, <1>6, <1>7, <1>8, <1>9, <1>10, <1>11, <1>12,
     <1>13, <1>14, <1>15, <1>16, <1>17, <1>18, <1>19, <1>20
     DEF Next, GoroutineStep, SetRoleStep, CallerStep

(***************************************************************************)
(* A daemon of either role whose loop is on is up, or a StartLoop or a     *)
(* tail is about to start it.                                              *)
(***************************************************************************)
AboutToStart(d) ==
    \/ \E c \in Callers : StartLoopArrives(c, d)
    \/ \E k \in TailKinds : tail[d][k] > 0

Attended(d) == ~Running(d) /\ loopEnabled[d] /\ ~stopped => AboutToStart(d)

LEMMA AttendedNext ==
    ASSUME TypeOK, ExhaustedIsFinal, [Next]_vars, NEW e \in Daemons, RunsOn[e] = "any",
           RestartCovered(e), Attended(e)
    PROVE  Attended(e)'
<1> DEFINE Arrives == \E c \in Callers : StartLoopArrives(c, e)
           Tailed  == \E k \in TailKinds : tail[e][k] > 0
<1>any. RoleAllows(e)
  BY DEF RoleAllows
<1>k. /\ "relaunch" \in TailKinds /\ "schedule" \in TailKinds
      /\ "timer" \in TailKinds /\ "fired" \in TailKinds
  BY DEF TailKinds
<1> USE DEF TypeOK, regVars, genVars, bounds, Running
<1>0. ~Running(e) /\ loopEnabled[e] /\ ~stopped => Arrives \/ Tailed
  BY DEF Attended, AboutToStart
<1>g. ASSUME pc'[e] = "none" /\ loopEnabled'[e] /\ ~stopped' => Arrives' \/ Tailed'
      PROVE  Attended(e)'
  BY <1>g DEF Attended, AboutToStart
<1>s. ASSUME pc'[e] = "none" /\ loopEnabled'[e] /\ ~stopped' =>
               pc[e] = "none" /\ loopEnabled[e] /\ ~stopped,
             tail' = tail, caller' = caller
      PROVE  Attended(e)'
  <2>1. Arrives' = Arrives /\ Tailed' = Tailed
    BY <1>s DEF StartLoopArrives
  <2> QED BY <1>0, <1>g, <1>s, <2>1
<1>1. ASSUME NEW d \in Daemons, StartDaemon(d) \/ RunBegin(d) \/ ExitSnapshot(d)
      PROVE  Attended(e)'
  BY <1>s, <1>1 DEF StartDaemon, RunBegin, ExitSnapshot
<1>2. ASSUME NEW d \in Daemons, AbortStart(d) PROVE Attended(e)'
  <2>1. CASE d # e
    BY <1>s, <1>2, <2>1 DEF AbortStart, Release
  <2>2. CASE d = e
    <3>1. stopped /\ stopped' = stopped
      BY <1>2, <2>2 DEF AbortStart, RestartCovered
    <3> QED BY <1>g, <3>1
  <2> QED BY <2>1, <2>2
<1>3. ASSUME NEW d \in Daemons, NEW err \in BOOLEAN, RunReturn(d, err) PROVE Attended(e)'
  BY <1>s, <1>3 DEF RunReturn
<1>4. ASSUME NEW d \in Daemons, NEW longRun \in BOOLEAN, ExitCleanup(d, longRun)
      PROVE  Attended(e)'
  <2>1. caller' = caller /\ stopped' = stopped
    BY <1>4 DEF ExitCleanup
  <2>2. Arrives' = Arrives
    BY <2>1 DEF StartLoopArrives
  <2>3. Tailed => Tailed'
    <3>1. CASE tail' = tail
      BY <3>1
    <3>2. CASE AddTail(d, "relaunch") \/ AddTail(d, "schedule")
      BY <1>k, <3>2, TailEffect
    <3> QED BY <1>4, <3>1, <3>2 DEF ExitCleanup
  <2>4. CASE d # e
    <3>1. pc'[e] = pc[e] /\ loopEnabled'[e] = loopEnabled[e]
      BY <1>4, <2>4 DEF ExitCleanup, Release
    <3> QED BY <1>0, <1>g, <2>1, <2>2, <2>3, <3>1
  <2>5. CASE d = e
    <3> SUFFICES ASSUME loopEnabled'[e], ~stopped PROVE Arrives' \/ Tailed'
      BY <1>g, <2>1
    <3> DEFINE x         == exit[d]
               on        == loopEnabled[d] /\ ~x.stopped /\ x.allows
               abnormal  == x.abnormal \/ (~x.err /\ ~ctxDone[d] /\ on)
               relaunch  == pendingRestart[d] /\ on /\ ~abnormal
               used      == IF longRun THEN 0 ELSE abnormalRestarts[d]
               mayHeal   == abnormal /\ on /\ ~relaunchPending[d]
               heal      == mayHeal /\ BudgetLeft(used)
               exhausted == mayHeal /\ ~BudgetLeft(used)
    <3>1. /\ pc[d] = "snapped"
          /\ loopEnabled' = [loopEnabled EXCEPT ![d] = @ /\ ~exhausted]
          /\ \/ relaunch /\ AddTail(d, "relaunch")
             \/ heal /\ AddTail(d, "schedule")
             \/ ~relaunch /\ ~heal /\ UNCHANGED tail
      BY <1>4 DEF ExitCleanup
    <3>2. loopEnabled[d] /\ ~exhausted
      BY <2>5, <3>1
    <3>3. on
      BY <2>5, <3>1, <3>2 DEF RestartCovered
    <3>4. CASE relaunch \/ heal
      <4>1. AddTail(d, "relaunch") \/ AddTail(d, "schedule")
        BY <3>1, <3>4
      <4>2. tail'[d]["relaunch"] > 0 \/ tail'[d]["schedule"] > 0
        BY <1>k, <4>1, TailEffect
      <4> QED BY <1>k, <2>5, <4>2
    <3>5. CASE ~relaunch /\ ~heal /\ abnormal
      <4>1. relaunchPending[d]
        BY <3>2, <3>3, <3>5
      <4>2. tail[d]["schedule"] > 0 \/ tail[d]["timer"] > 0
        BY <4>1 DEF ExhaustedIsFinal
      <4> QED BY <1>k, <2>3, <2>5, <4>2
    <3>6. CASE ~relaunch /\ ~heal /\ ~abnormal
      <4>1. ~pendingRestart[d]
        BY <3>3, <3>6
      <4>2. ctxDone[d]
        BY <2>5, <3>1, <3>3, <3>6 DEF RestartCovered
      <4>3. IntentArrives(e)
        BY <2>5, <3>1, <3>2, <4>1, <4>2 DEF RestartCovered
      <4> QED BY <2>2, <4>3 DEF IntentArrives
    <3> QED BY <3>4, <3>5, <3>6
  <2> QED BY <2>4, <2>5
<1>5. ASSUME NEW d \in Daemons, Relaunch(d) PROVE Attended(e)'
  <2>1. /\ TryStartDaemon(d, FALSE) /\ EndTail(d, "relaunch")
        /\ UNCHANGED <<stopped, loopEnabled, caller>>
    BY <1>5 DEF Relaunch
  <2>2. Arrives' = Arrives
    BY <2>1 DEF StartLoopArrives
  <2>3. d # e /\ Tailed => Tailed'
    BY SMTT(40), <1>k, <2>1, TailEffect
  <2>4. \/ pc'[e] = "starting"
        \/ pc'[e] = pc[e] /\ (e = d => Running(e) \/ stopped \/ ~loopEnabled[e])
    BY <1>any, <2>1, TryStartCases
  <2> QED BY <1>0, <1>g, <2>1, <2>2, <2>3, <2>4
<1>6. ASSUME NEW d \in Daemons,
             ScheduleRelaunch(d) \/ RelaunchTimer(d) \/ RelaunchRoleCheck(d)
      PROVE  Attended(e)'
  <2>1. UNCHANGED <<stopped, loopEnabled, caller, pc>>
    BY <1>6 DEF ScheduleRelaunch, RelaunchTimer, RelaunchRoleCheck
  <2>2. Arrives' = Arrives
    BY <2>1 DEF StartLoopArrives
  <2>3. \/ stopped /\ (EndTail(d, "schedule") \/ EndTail(d, "timer"))
        \/ ~RoleAllows(d) /\ EndTail(d, "fired")
        \/ MoveTail(d, "schedule", "timer")
        \/ MoveTail(d, "timer", "fired")
        \/ MoveTail(d, "fired", "relaunch")
    BY <1>6 DEF ScheduleRelaunch, RelaunchTimer, RelaunchRoleCheck
  <2>4. CASE stopped
    BY <1>g, <2>1, <2>4
  <2>5. CASE ~RoleAllows(d) /\ EndTail(d, "fired")
    <3>1. Tailed => Tailed'
      BY <1>any, <1>k, <2>5, TailEffect
    <3> QED BY <1>0, <1>g, <2>1, <2>2, <3>1
  <2>6. ASSUME NEW j \in TailKinds, NEW k \in TailKinds, j # k, MoveTail(d, j, k)
        PROVE  Attended(e)'
    <3>1. /\ tail'[d][k] > 0
          /\ \A l \in TailKinds : (e # d \/ l # j) /\ tail[e][l] > 0 => tail'[e][l] > 0
      BY <2>6, TailEffect
    <3>2. Tailed => Tailed'
      BY <2>6, <3>1
    <3> QED BY <1>0, <1>g, <2>1, <2>2, <3>2
  <2>7. "schedule" # "timer" /\ "timer" # "fired" /\ "fired" # "relaunch"
    OBVIOUS
  <2> QED BY <1>k, <2>3, <2>4, <2>5, <2>6, <2>7
<1>7. ASSUME NEW isMaster \in BOOLEAN, SetRole(isMaster) PROVE Attended(e)'
  BY <1>s, <1>7 DEF SetRole
<1>8. ASSUME NEW d \in Daemons, SetRoleVisit(d) PROVE Attended(e)'
  BY <1>s, <1>8 DEF SetRoleVisit
<1>9. ASSUME SetRoleCancel \/ SetRoleReturn PROVE Attended(e)'
  BY <1>s, <1>9 DEF SetRoleCancel, SetRoleReturn
<1>10. ASSUME SetRoleTry PROVE Attended(e)'
  <2>1. /\ \E i : TryStartDaemon(setRole.d, i)
        /\ UNCHANGED <<stopped, loopEnabled, caller, tail>>
    BY <1>10 DEF SetRoleTry
  <2>2. setRole.d \in Daemons
    OBVIOUS
  <2>3. pc'[e] = "starting" \/ pc'[e] = pc[e]
    BY <2>1, <2>2, TryStartCases
  <2> QED BY <1>s, <2>1, <2>3
\* Only caller c moves, and not away from e.
<1>c. ASSUME NEW c \in Callers, NEW x, caller' = [caller EXCEPT ![c] = x],
             UNCHANGED <<stopped, tail, pc>>,
             loopEnabled'[e] => loopEnabled[e] \/ (x.at = "check" /\ x.d = e),
             StartLoopArrives(c, e) => x.at \in {"check", "try"} /\ x.d = e
      PROVE  Attended(e)'
  <2>1. caller'[c] = x /\ \A b \in Callers \ {c} : caller'[b] = caller[b]
    BY <1>c, CallerMoves
  <2>2. Arrives => Arrives'
    BY <1>c, <2>1 DEF StartLoopArrives
  <2>3. x.at = "check" /\ x.d = e => Arrives'
    BY <2>1 DEF StartLoopArrives
  <2>4. Tailed' = Tailed
    BY <1>c
  <2> QED BY <1>0, <1>g, <1>c, <2>2, <2>3, <2>4
<1>11. ASSUME NEW c \in Callers, StartLoopEnable(c) PROVE Attended(e)'
  <2> DEFINE d == caller[c].d
             x == [at |-> "check", d |-> d, seq |-> 0, intent |-> ~loopEnabled[d]]
  <2>1. /\ caller[c].at = "start" /\ caller' = [caller EXCEPT ![c] = x]
        /\ UNCHANGED <<stopped, tail, pc>>
        /\ loopEnabled' = [loopEnabled EXCEPT ![d] = TRUE]
    BY <1>11 DEF StartLoopEnable, CallerGoes
  <2>2. x.at = "check" /\ x.d = d /\ ~StartLoopArrives(c, e)
    BY <2>1 DEF StartLoopArrives
  <2>3. loopEnabled'[e] => loopEnabled[e] \/ (x.at = "check" /\ x.d = e)
    BY <2>1, <2>2
  <2> HIDE DEF x
  <2> QED BY <1>c, <2>1, <2>2, <2>3
<1>12. ASSUME NEW c \in Callers, StartLoopRoleCheck(c) PROVE Attended(e)'
  <2> DEFINE d == caller[c].d
             x == [at |-> "try", d |-> d, seq |-> 0, intent |-> caller[c].intent]
  <2>1. UNCHANGED <<stopped, tail, pc, loopEnabled>>
    BY <1>12 DEF StartLoopRoleCheck
  <2>2. CASE caller' = [caller EXCEPT ![c] = x]
    <3>1. x.at = "try" /\ x.d = d
      OBVIOUS
    <3> HIDE DEF x
    <3> QED BY <1>c, <2>1, <2>2, <3>1 DEF StartLoopArrives
  <2>3. CASE caller' = [caller EXCEPT ![c] = IdleCaller] /\ ~RoleAllows(d)
    <3>1. ~StartLoopArrives(c, e)
      BY <1>any, <2>3 DEF StartLoopArrives
    <3> QED BY <1>c, <2>1, <2>3, <3>1
  <2> QED BY <1>12, <2>2, <2>3 DEF StartLoopRoleCheck, CallerGoes
<1>13. ASSUME NEW c \in Callers, StartLoopTry(c) PROVE Attended(e)'
  <2> DEFINE d == caller[c].d
             i == caller[c].intent
  <2>1. /\ caller[c].at = "try" /\ TryStartDaemon(d, i)
        /\ caller' = [caller EXCEPT ![c] = IdleCaller]
        /\ UNCHANGED <<stopped, loopEnabled, tail>>
    BY <1>13 DEF StartLoopTry
  <2>2. d \in Daemons
    OBVIOUS
  <2>3. caller'[c] = IdleCaller /\ \A b \in Callers \ {c} : caller'[b] = caller[b]
    BY <2>1, CallerMoves
  <2>4. Tailed' = Tailed
    BY <2>1
  <2>5. d # e /\ Arrives => Arrives'
    BY <2>3 DEF StartLoopArrives
  <2>6. \/ pc'[e] = "starting"
        \/ pc'[e] = pc[e] /\ (e = d => Running(e) \/ stopped \/ ~loopEnabled[e])
    <3> HIDE DEF i, d
    <3> QED BY <1>any, <2>1, <2>2, TryStartCases
  <2> QED BY <1>0, <1>g, <2>1, <2>4, <2>5, <2>6
<1>14. ASSUME NEW c \in Callers, StopLoopCancel(c) PROVE Attended(e)'
  <2>1. /\ caller[c].at = "cancel" /\ caller' = [caller EXCEPT ![c] = IdleCaller]
        /\ UNCHANGED <<stopped, tail, pc, loopEnabled>>
    BY <1>14 DEF StopLoopCancel
  <2>2. ~StartLoopArrives(c, e)
    BY <2>1 DEF StartLoopArrives
  <2> QED BY <1>c, <2>1, <2>2
<1>15. ASSUME NEW c \in Callers, NEW d \in Daemons, StartLoop(c, d) PROVE Attended(e)'
  <2> DEFINE x == [at |-> "start", d |-> d, seq |-> 0, intent |-> FALSE]
  <2>1. /\ caller[c].at = "idle" /\ caller' = [caller EXCEPT ![c] = x]
        /\ UNCHANGED <<stopped, tail, pc, loopEnabled>>
    BY <1>15 DEF StartLoop, CallerGoes
  <2>2. ~StartLoopArrives(c, e)
    BY <2>1 DEF StartLoopArrives
  <2> HIDE DEF x
  <2> QED BY <1>c, <2>1, <2>2
<1>16. ASSUME NEW c \in Callers, NEW d \in Daemons, StopLoop(c, d) PROVE Attended(e)'
  <2> DEFINE x == [at |-> "cancel", d |-> d, seq |-> runSeq[d], intent |-> FALSE]
  <2>1. /\ caller[c].at = "idle" /\ loopEnabled' = [loopEnabled EXCEPT ![d] = FALSE]
        /\ caller' = [caller EXCEPT ![c] = x] \/ caller' = caller
        /\ UNCHANGED <<stopped, tail, pc>>
    BY <1>16 DEF StopLoop, CallerGoes
  <2>2. ~StartLoopArrives(c, e) /\ (loopEnabled'[e] => loopEnabled[e])
    BY <2>1 DEF StartLoopArrives
  <2> HIDE DEF x
  <2> QED BY <1>c, <1>s, <2>1, <2>2
<1>17. ASSUME Stop PROVE Attended(e)'
  BY <1>g, <1>17 DEF Stop
<1>18. CASE UNCHANGED vars
  BY <1>s, <1>18 DEF vars
<1> QED
  BY <1>1, <1>2, <1>3, <1>4, <1>5, <1>6, <1>7, <1>8, <1>9, <1>10, <1>11, <1>12,
     <1>13, <1>14, <1>15, <1>16, <1>17, <1>18
     DEF Next, GoroutineStep, TailStep, SetRoleStep, CallerStep

(***************************************************************************)
(* A daemon that may run on either role is never forgotten by the exits,   *)
(* the restarts, the role flips and the loop switch that hand it on.       *)
(***************************************************************************)
THEOREM DaemonNeverLost == Spec => []NoLostDaemon
<1> DEFINE Inv == /\ LostInv
                  /\ \A d \in Daemons : RunsOn[d] = "any" => Attended(d)
<1>1. Init => Inv
  <2> SUFFICES ASSUME Init PROVE Inv
    OBVIOUS
  <2>1. \A d \in Daemons : Attended(d)
    BY DEF Init, Attended
  <2> QED BY <2>1, SeqInit, CoveredInit DEF LostInv
<1>2. TypeOK /\ ExhaustedIsFinal /\ Inv /\ [Next]_vars => Inv'
  <2> SUFFICES ASSUME TypeOK, ExhaustedIsFinal, Inv, [Next]_vars PROVE Inv'
    OBVIOUS
  <2>1. SeqBound /\ SeqBound'
    BY SeqNext DEF LostInv
  <2>2. ASSUME NEW d \in Daemons, RunsOn[d] = "any"
        PROVE  RestartCovered(d)' /\ Attended(d)'
    BY <2>1, <2>2, CoveredNext, AttendedNext DEF LostInv
  <2> QED BY <2>1, <2>2 DEF LostInv
<1>3. Inv => NoLostDaemon
  <2> SUFFICES ASSUME Inv, NEW d \in Daemons, RunsOn[d] = "any", loopEnabled[d], ~stopped
               PROVE  WillRun(d)
    BY DEF NoLostDaemon
  <2>1. CASE Running(d)
    BY <2>1 DEF LostInv, RestartCovered, WillRun, IntentArrives
  <2>2. CASE ~Running(d)
    BY <2>2 DEF Attended, AboutToStart, WillRun
  <2> QED BY <2>1, <2>2
<1> QED BY <1>1, <1>2, <1>3, TypeCorrect, ExhaustedStaysOff, PTL DEF Spec

=============================================================================
