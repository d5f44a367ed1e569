--------------------------- MODULE TaskRunsProofs ---------------------------
(***************************************************************************)
(* Proofs about TaskRuns.  The types and each of the five properties of    *)
(* single runs are inductive with the types alone; the boot needs the      *)
(* pause (PauseHeld), the counter the finiteness of what it counts         *)
(* (ExactInv), and the import window both.                                 *)
(***************************************************************************)
EXTENDS TaskRuns, TLAPS, FiniteSetTheorems

\* TypeOK without the counter, whose type follows from its exactness.
StateOK == EngOK /\ TaskOK /\ RunOK /\ ClientOK /\ WalkOK /\ BoundOK

\* Threads and walks that are idle are well typed.
LEMMA IdleTyped ==
    /\ Idle \in Thread({"idle", "reserve", "counted", "snap", "claim", "hook", "apply"})
    /\ IdleWalk \in Walker({"idle", "walk", "checked", "reserve", "counted"})
    /\ IdleWalk \in Walker({"idle", "walk", "cancel"})
    /\ IdleWalk \in Walker({"idle", "walk", "cancel", "wait", "window"})
<1>1. AnyTask \in Tasks
  BY RunsAssumption DEF AnyTask
<1> QED BY <1>1 DEF Idle, IdleWalk, Thread, Walker, Triggers

\* The initial states are well typed.
LEMMA InitTyped == Init => StateOK /\ inFlight = 0
<1> SUFFICES ASSUME Init PROVE StateOK /\ inFlight = 0
  OBVIOUS
<1>1. EngOK
  BY DEF Init, EngOK
<1>2. TaskOK
  BY DEF Init, TaskOK
<1>3. RunOK
  BY DEF Init, RunOK, Triggers
<1>4. ClientOK
  BY IdleTyped DEF Init, ClientOK
<1>5. WalkOK
  <2>1. AnyTask \in Tasks /\ BootSync \subseteq Tasks
    BY RunsAssumption DEF AnyTask
  <2>2. boot \in Walker({"pick", "reserve", "counted", "await", "done"})
    <3>1. boot = [at |-> "pick", todo |-> BootSync, flipped |-> FALSE,
                  t |-> AnyTask, seq |-> 0]
      BY Zenon DEF Init, IdleWalk
    <3> QED BY <2>1, <3>1 DEF Walker
  <2> QED BY <2>2, IdleTyped DEF Init, WalkOK
<1>6. BoundOK
  <2>1. MaxCalls \in Nat /\ MaxTicks \in Nat
    BY RunsAssumption
  <2>2. calls = 0 /\ ticks = 0
    BY DEF Init
  <2> QED BY <2>1, <2>2 DEF BoundOK
<1>7. inFlight = 0
  BY DEF Init
<1> QED BY <1>1, <1>2, <1>3, <1>4, <1>5, <1>6, <1>7 DEF StateOK

\* Calling a cancel function keeps the contexts typed.
LEMMA CancelGenTyped ==
    ASSUME RunOK, NEW t, NEW seq, NEW why \in {"system", "user"}, CancelGen(t, seq, why)
    PROVE  ctx' \in [Tasks -> {"live", "system", "user"}]
BY DEF RunOK, CancelGen

\* A reservation keeps the state of the tasks and of the runs typed.
LEMMA ReserveTyped ==
    ASSUME EngOK, TaskOK, RunOK, NEW t \in Tasks, NEW trigger \in Triggers,
           Reserve(t, trigger)
    PROVE  TaskOK' /\ RunOK'
<1>1. CASE Admit(t, trigger)
  <2>1. FirstContext \in {"live", "system"}
    BY DEF FirstContext
  <2>2. RunOK'
    BY <1>1, <2>1 DEF Admit, RunOK
  <2>3. TaskOK'
    BY <1>1 DEF Admit, TaskOK
  <2> QED BY <2>2, <2>3
<1>2. CASE UNCHANGED <<runVars, taskVars>>
  BY <1>2 DEF runVars, taskVars, RunOK, TaskOK
<1> QED BY <1>1, <1>2 DEF Reserve

\* Every step keeps the types.
LEMMA NextTyped == StateOK /\ [Next]_vars => StateOK'
<1> SUFFICES ASSUME StateOK, [Next]_vars PROVE StateOK'
  OBVIOUS
<1> USE DEF StateOK
<1>0. MaxCalls \in Nat /\ MaxTicks \in Nat
  BY RunsAssumption
<1>1. ASSUME NEW t \in Tasks, RunReturn(t) PROVE StateOK'
  <2>1. EngOK' /\ TaskOK' /\ ClientOK' /\ WalkOK' /\ BoundOK'
    BY <1>1 DEF RunReturn, EngOK, TaskOK, ClientOK, WalkOK, BoundOK, engVars,
        taskVars, bounds
  <2>2. RunOK'
    BY <1>1 DEF RunReturn, RunOK
  <2> QED BY <2>1, <2>2 DEF StateOK
<1>2. ASSUME NEW t \in Tasks, Release(t) PROVE StateOK'
  <2>1. EngOK' /\ TaskOK' /\ ClientOK' /\ WalkOK' /\ BoundOK'
    BY <1>2 DEF Release, EngOK, TaskOK, ClientOK, WalkOK, BoundOK, engVars, taskVars,
        bounds
  <2>2. RunOK'
    <3>1. /\ runTrigger' \in [Tasks -> Triggers]
          /\ pc' \in [Tasks -> {"none", "body", "returned"}]
          /\ ctx' \in [Tasks -> {"live", "system", "user"}]
      BY <1>2 DEF Release, RunOK, Triggers
    <3>2. releasing' \in [Tasks -> Nat]
      <4>1. releasing' = [releasing EXCEPT ![t] = releasing[t] + 1]
        BY <1>2 DEF Release
      <4> QED BY <1>2, <4>1 DEF RunOK
    <3> QED BY <1>2, <3>1, <3>2 DEF Release, RunOK
  <2> QED BY <2>1, <2>2 DEF StateOK
<1>3. ASSUME NEW t \in Tasks, ReleaseCount(t) PROVE StateOK'
  <2>1. EngOK' /\ TaskOK' /\ ClientOK' /\ WalkOK' /\ BoundOK'
    BY <1>3 DEF ReleaseCount, EngOK, TaskOK, ClientOK, WalkOK, BoundOK, engVars,
        taskVars, bounds
  <2>2. RunOK'
    BY <1>3 DEF ReleaseCount, RunOK
  <2> QED BY <2>1, <2>2 DEF StateOK
<1>4. ASSUME NEW t \in Tasks, BootPick(t) PROVE StateOK'
  <2>1. EngOK' /\ TaskOK' /\ RunOK' /\ ClientOK' /\ BoundOK'
    BY <1>4 DEF BootPick, EngOK, TaskOK, RunOK, ClientOK, BoundOK, engVars, taskVars,
        runVars, bounds
  <2>2. WalkOK'
    BY <1>4, IdleTyped DEF BootPick, WalkOK, Walker
  <2> QED BY <2>1, <2>2 DEF StateOK
<1>5. CASE BootCount
  <2>1. EngOK' /\ TaskOK' /\ RunOK' /\ ClientOK' /\ BoundOK'
    BY <1>5 DEF BootCount, EngOK, TaskOK, RunOK, ClientOK, BoundOK, engVars, taskVars,
        runVars, bounds
  <2>2. WalkOK'
    BY <1>5 DEF BootCount, Count, WalkOK, Walker
  <2> QED BY <2>1, <2>2 DEF StateOK
<1>6. CASE BootReserve
  <2>1. boot.t \in Tasks /\ "startup" \in Triggers
    BY DEF WalkOK, ClientOK, Walker, Thread, Triggers
  <2>2. Reserve(boot.t, "startup")
    BY <1>6 DEF BootReserve
  <2>3. TaskOK' /\ RunOK'
    BY <2>1, <2>2, ReserveTyped
  <2>4. EngOK' /\ BoundOK'
    BY <1>6 DEF BootReserve, EngOK, engVars, BoundOK, bounds
  <2>5. WalkOK' /\ ClientOK'
    BY <1>6 DEF BootReserve, WalkOK, Walker, ClientOK
  <2> QED BY <2>3, <2>4, <2>5 DEF StateOK
<1>7. CASE BootAwait
  <2>1. EngOK' /\ TaskOK' /\ RunOK' /\ ClientOK' /\ BoundOK'
    BY <1>7 DEF BootAwait, EngOK, TaskOK, RunOK, ClientOK, BoundOK, engVars, taskVars,
        runVars, bounds
  <2>2. WalkOK'
    BY <1>7, IdleTyped DEF BootAwait, WalkOK, Walker
  <2> QED BY <2>1, <2>2 DEF StateOK
<1>8. CASE BootResume
  <2>1. TaskOK' /\ RunOK' /\ ClientOK' /\ BoundOK'
    BY <1>8 DEF BootResume, TaskOK, RunOK, ClientOK, BoundOK, taskVars, runVars, bounds
  <2>2. EngOK'
    BY <1>8 DEF BootResume, EngOK
  <2>3. WalkOK'
    BY <1>8, IdleTyped DEF BootResume, WalkOK, Walker
  <2> QED BY <2>1, <2>2, <2>3 DEF StateOK
<1>9. CASE TickStart
  <2>1. EngOK' /\ TaskOK' /\ RunOK' /\ ClientOK'
    BY <1>9 DEF TickStart, EngOK, TaskOK, RunOK, ClientOK, engVars, taskVars, runVars
  <2>2. WalkOK'
    <3>1. tick' = [at |-> "walk", todo |-> {t \in Tasks : Kind[t] # "oneshot"},
                   flipped |-> FALSE, t |-> AnyTask, seq |-> 0]
      BY <1>9, Zenon DEF TickStart, IdleWalk
    <3>2. AnyTask \in Tasks
      BY RunsAssumption DEF AnyTask
    <3>3. tick' \in Walker({"idle", "walk", "checked", "reserve", "counted"})
      BY <1>9, <3>1, <3>2 DEF Walker
    <3> QED BY <1>9, <3>3 DEF TickStart, WalkOK
  <2>3. BoundOK'
    BY <1>9, <1>0 DEF TickStart, BoundOK
  <2> QED BY <2>1, <2>2, <2>3 DEF StateOK
<1>10. ASSUME NEW t \in Tasks, TickVisit(t) PROVE StateOK'
  <2>1. EngOK' /\ TaskOK' /\ RunOK' /\ ClientOK' /\ BoundOK'
    BY <1>10 DEF TickVisit, EngOK, TaskOK, RunOK, ClientOK, BoundOK, engVars,
        taskVars, runVars, bounds
  <2>2. WalkOK'
    BY <1>10, IdleTyped DEF TickVisit, WalkOK, Walker
  <2> QED BY <2>1, <2>2 DEF StateOK
<1>11. CASE TickJudge
  <2>1. EngOK' /\ RunOK' /\ ClientOK' /\ BoundOK'
    BY <1>11 DEF TickJudge, EngOK, RunOK, ClientOK, BoundOK, engVars, runVars, bounds
  <2>2. TaskOK'
    <3>1. tick.t \in Tasks
      BY DEF WalkOK, Walker
    <3> QED BY <1>11, <3>1 DEF TickJudge, TaskOK, taskVars
  <2>3. WalkOK'
    BY <1>11 DEF TickJudge, WalkOK, Walker
  <2> QED BY <2>1, <2>2, <2>3 DEF StateOK
<1>12. CASE TickCount
  <2>1. EngOK' /\ TaskOK' /\ RunOK' /\ ClientOK' /\ BoundOK'
    BY <1>12 DEF TickCount, EngOK, TaskOK, RunOK, ClientOK, BoundOK, engVars,
        taskVars, runVars, bounds
  <2>2. WalkOK'
    BY <1>12 DEF TickCount, Count, WalkOK, Walker
  <2> QED BY <2>1, <2>2 DEF StateOK
<1>13. CASE TickReserve
  <2>1. tick.t \in Tasks /\ "auto" \in Triggers
    BY DEF WalkOK, ClientOK, Walker, Thread, Triggers
  <2>2. Reserve(tick.t, "auto")
    BY <1>13 DEF TickReserve
  <2>3. TaskOK' /\ RunOK'
    BY <2>1, <2>2, ReserveTyped
  <2>4. EngOK' /\ BoundOK'
    BY <1>13 DEF TickReserve, EngOK, engVars, BoundOK, bounds
  <2>5. WalkOK' /\ ClientOK'
    BY <1>13 DEF TickReserve, WalkOK, Walker, ClientOK
  <2> QED BY <2>3, <2>4, <2>5 DEF StateOK
<1>14. CASE TickEnd
  <2>1. EngOK' /\ TaskOK' /\ RunOK' /\ ClientOK' /\ BoundOK'
    BY <1>14 DEF TickEnd, EngOK, TaskOK, RunOK, ClientOK, BoundOK, engVars, taskVars,
        runVars, bounds
  <2>2. WalkOK'
    BY <1>14, IdleTyped DEF TickEnd, WalkOK, Walker
  <2> QED BY <2>1, <2>2 DEF StateOK
<1>15. ASSUME NEW c \in Clients, NEW t \in Tasks, Trigger(c, t) PROVE StateOK'
  <2>1. EngOK' /\ TaskOK' /\ RunOK' /\ WalkOK'
    BY <1>15 DEF Trigger, EngOK, TaskOK, RunOK, WalkOK, engVars, taskVars, runVars
  <2>2. ClientOK'
    <3>1. [Idle EXCEPT !.at = "reserve", !.t = t] \in
            Thread({"idle", "reserve", "counted", "snap", "claim", "hook", "apply"})
      BY IdleTyped DEF Thread
    <3> QED BY <1>15, <3>1 DEF Trigger, ClientOK
  <2>3. BoundOK'
    BY <1>15, <1>0 DEF Trigger, MayCall, BoundOK
  <2> QED BY <2>1, <2>2, <2>3 DEF StateOK
<1>16. ASSUME NEW c \in Clients, TriggerCount(c) PROVE StateOK'
  <2>1. EngOK' /\ TaskOK' /\ RunOK' /\ WalkOK' /\ BoundOK'
    BY <1>16 DEF TriggerCount, EngOK, TaskOK, RunOK, WalkOK, BoundOK, engVars,
        taskVars, runVars, bounds
  <2>2. ClientOK'
    BY <1>16, IdleTyped DEF TriggerCount, Count, Goes, Ends, ClientOK, Thread
  <2> QED BY <2>1, <2>2 DEF StateOK
<1>17. ASSUME NEW c \in Clients, TriggerReserve(c) PROVE StateOK'
  <2>1. client[c].t \in Tasks /\ "manual" \in Triggers
    BY <1>17 DEF WalkOK, ClientOK, Walker, Thread, Triggers
  <2>2. Reserve(client[c].t, "manual")
    BY <1>17 DEF TriggerReserve
  <2>3. TaskOK' /\ RunOK'
    BY <2>1, <2>2, ReserveTyped
  <2>4. EngOK' /\ BoundOK'
    BY <1>17 DEF TriggerReserve, EngOK, engVars, BoundOK, bounds
  <2>5. WalkOK'
    BY <1>17 DEF TriggerReserve, WalkOK
  <2>6. ClientOK'
    BY <1>17, IdleTyped DEF TriggerReserve, Ends, ClientOK
  <2> QED BY <2>3, <2>4, <2>5, <2>6 DEF StateOK
<1>18. ASSUME NEW c \in Clients, NEW t \in Tasks, Cancel(c, t) PROVE StateOK'
  <2>1. EngOK' /\ TaskOK' /\ RunOK' /\ WalkOK'
    BY <1>18 DEF Cancel, EngOK, TaskOK, RunOK, WalkOK, engVars, taskVars, runVars
  <2>2. ClientOK'
    <3>1. [Idle EXCEPT !.at = "snap", !.t = t] \in
            Thread({"idle", "reserve", "counted", "snap", "claim", "hook", "apply"})
      BY IdleTyped DEF Thread
    <3> QED BY <1>18, <3>1 DEF Cancel, ClientOK
  <2>3. BoundOK'
    BY <1>18, <1>0 DEF Cancel, MayCall, BoundOK
  <2> QED BY <2>1, <2>2, <2>3 DEF StateOK
<1>19. ASSUME NEW c \in Clients, CancelSnapshot(c) PROVE StateOK'
  <2>1. EngOK' /\ TaskOK' /\ RunOK' /\ WalkOK' /\ BoundOK'
    BY <1>19 DEF CancelSnapshot, EngOK, TaskOK, RunOK, WalkOK, BoundOK, engVars,
        taskVars, runVars, bounds
  <2>2. ClientOK'
    <3>1. client[c].t \in Tasks
      BY DEF ClientOK, Thread
    <3>2. runSeq[client[c].t] \in Nat /\ runTrigger[client[c].t] \in Triggers
      BY <3>1 DEF RunOK
    <3> QED BY <1>19, <3>1, <3>2, IdleTyped DEF CancelSnapshot, Ends, ClientOK, Thread
  <2> QED BY <2>1, <2>2 DEF StateOK
<1>20. ASSUME NEW c \in Clients, CancelClaim(c) PROVE StateOK'
  <2>1. EngOK' /\ TaskOK' /\ WalkOK' /\ BoundOK'
    BY <1>20 DEF CancelClaim, EngOK, TaskOK, WalkOK, BoundOK, engVars, taskVars, bounds
  <2>2. RunOK'
    BY <1>20 DEF CancelClaim, RunOK, ClientOK, Thread
  <2>3. ClientOK'
    BY <1>20, IdleTyped DEF CancelClaim, Goes, Ends, ClientOK, Thread
  <2> QED BY <2>1, <2>2, <2>3 DEF StateOK
<1>21. ASSUME NEW c \in Clients, NEW ok \in BOOLEAN, CancelHook(c, ok) PROVE StateOK'
  <2>1. EngOK' /\ TaskOK' /\ WalkOK' /\ BoundOK'
    BY <1>21 DEF CancelHook, EngOK, TaskOK, WalkOK, BoundOK, engVars, taskVars, bounds
  <2>2. RunOK'
    BY <1>21 DEF CancelHook, RunOK
  <2>3. ClientOK'
    BY <1>21, IdleTyped DEF CancelHook, Goes, Ends, ClientOK, Thread
  <2> QED BY <2>1, <2>2, <2>3 DEF StateOK
<1>22. ASSUME NEW c \in Clients, CancelApply(c) PROVE StateOK'
  <2>1. EngOK' /\ TaskOK' /\ WalkOK' /\ BoundOK'
    BY <1>22 DEF CancelApply, EngOK, TaskOK, WalkOK, BoundOK, engVars, taskVars, bounds
  <2>2. RunOK'
    <3>1. ctx' \in [Tasks -> {"live", "system", "user"}]
      BY <1>22, CancelGenTyped DEF CancelApply, RunOK
    <3> QED BY <1>22, <3>1 DEF CancelApply, RunOK
  <2>3. ClientOK'
    BY <1>22, IdleTyped DEF CancelApply, Ends, ClientOK
  <2> QED BY <2>1, <2>2, <2>3 DEF StateOK
<1>23. ASSUME NEW c \in Clients, NEW t \in Tasks, StartLoop(c, t) PROVE StateOK'
  <2>1. EngOK' /\ RunOK' /\ ClientOK' /\ WalkOK'
    BY <1>23 DEF StartLoop, EngOK, RunOK, ClientOK, WalkOK, engVars, runVars
  <2>2. TaskOK'
    BY <1>23 DEF StartLoop, TaskOK
  <2>3. BoundOK'
    BY <1>23, <1>0 DEF StartLoop, MayCall, BoundOK
  <2> QED BY <2>1, <2>2, <2>3 DEF StateOK
<1>24. ASSUME NEW c \in Clients, NEW t \in Tasks, StopLoop(c, t) PROVE StateOK'
  <2>1. EngOK' /\ RunOK' /\ ClientOK' /\ WalkOK'
    BY <1>24 DEF StopLoop, EngOK, RunOK, ClientOK, WalkOK, engVars, runVars
  <2>2. TaskOK'
    BY <1>24 DEF StopLoop, TaskOK
  <2>3. BoundOK'
    BY <1>24, <1>0 DEF StopLoop, MayCall, BoundOK
  <2> QED BY <2>1, <2>2, <2>3 DEF StateOK
<1>25. ASSUME NEW c \in Clients, NEW t \in Tasks, NEW hasWork \in BOOLEAN, RearmLoop(c, t, hasWork)
       PROVE  StateOK'
  <2>1. EngOK' /\ RunOK' /\ ClientOK' /\ WalkOK'
    BY <1>25 DEF RearmLoop, EngOK, RunOK, ClientOK, WalkOK, engVars, runVars
  <2>2. TaskOK'
    BY <1>25 DEF RearmLoop, TaskOK
  <2>3. BoundOK'
    BY <1>25, <1>0 DEF RearmLoop, MayCall, BoundOK
  <2> QED BY <2>1, <2>2, <2>3 DEF StateOK
<1>26. ASSUME NEW isMaster \in BOOLEAN, SetRole(isMaster) PROVE StateOK'
  <2>1. TaskOK' /\ RunOK' /\ ClientOK'
    BY <1>26 DEF SetRole, TaskOK, RunOK, ClientOK, taskVars, runVars
  <2>2. EngOK'
    BY <1>26 DEF SetRole, EngOK
  <2>3. WalkOK'
    <3>1. setRole' = [at |-> "walk", todo |-> Tasks, flipped |-> role # isMaster,
                      t |-> AnyTask, seq |-> 0]
      BY <1>26, Zenon DEF SetRole, IdleWalk
    <3>2. AnyTask \in Tasks
      BY RunsAssumption DEF AnyTask
    <3>3. setRole' \in Walker({"idle", "walk", "cancel"})
      BY <1>26, <3>1, <3>2 DEF Walker
    <3> QED BY <1>26, <3>3 DEF SetRole, WalkOK
  <2>4. BoundOK'
    BY <1>26, <1>0 DEF SetRole, BoundOK
  <2> QED BY <2>1, <2>2, <2>3, <2>4 DEF StateOK
<1>27. ASSUME NEW t \in Tasks, SetRoleVisit(t) PROVE StateOK'
  <2>1. EngOK' /\ RunOK' /\ ClientOK' /\ BoundOK'
    BY <1>27 DEF SetRoleVisit, EngOK, RunOK, ClientOK, BoundOK, engVars, runVars, bounds
  <2>2. TaskOK'
    BY <1>27 DEF SetRoleVisit, TaskOK
  <2>3. WalkOK'
    <3>1. runSeq[t] \in Nat
      BY <1>27 DEF RunOK
    <3> QED BY <1>27, <3>1 DEF SetRoleVisit, WalkOK, Walker
  <2> QED BY <2>1, <2>2, <2>3 DEF StateOK
<1>28. CASE SetRoleCancel
  <2>1. EngOK' /\ TaskOK' /\ ClientOK' /\ BoundOK'
    BY <1>28 DEF SetRoleCancel, EngOK, TaskOK, ClientOK, BoundOK, engVars, taskVars,
        bounds
  <2>2. RunOK'
    <3>1. ctx' \in [Tasks -> {"live", "system", "user"}]
      BY <1>28, CancelGenTyped DEF SetRoleCancel
    <3> QED BY <1>28, <3>1 DEF SetRoleCancel, RunOK
  <2>3. WalkOK'
    BY ZenonT(60), <1>28, IdleTyped DEF SetRoleCancel, WalkOK, Walker
  <2> QED BY <2>1, <2>2, <2>3 DEF StateOK
<1>29. CASE SetRoleReturn
  <2>1. EngOK' /\ TaskOK' /\ RunOK' /\ ClientOK' /\ BoundOK'
    BY <1>29 DEF SetRoleReturn, EngOK, TaskOK, RunOK, ClientOK, BoundOK, engVars,
        taskVars, runVars, bounds
  <2>2. WalkOK'
    BY <1>29, IdleTyped DEF SetRoleReturn, WalkOK, Walker
  <2> QED BY <2>1, <2>2 DEF StateOK
<1>30. CASE PauseScheduling
  <2>1. TaskOK' /\ RunOK' /\ ClientOK'
    BY <1>30 DEF PauseScheduling, TaskOK, RunOK, ClientOK, taskVars, runVars
  <2>2. EngOK'
    BY <1>30 DEF PauseScheduling, EngOK
  <2>3. WalkOK'
    <3>1. import' = [at |-> "walk", todo |-> {}, flipped |-> FALSE,
                     t |-> AnyTask, seq |-> 0]
      BY <1>30, Zenon DEF PauseScheduling, IdleWalk
    <3>2. AnyTask \in Tasks
      BY RunsAssumption DEF AnyTask
    <3>3. import' \in Walker({"idle", "walk", "cancel", "wait", "window"})
      BY <1>30, <3>1, <3>2 DEF Walker
    <3> QED BY <1>30, <3>3 DEF PauseScheduling, WalkOK
  <2>4. BoundOK'
    BY <1>30, <1>0 DEF PauseScheduling, BoundOK
  <2> QED BY <2>1, <2>2, <2>3, <2>4 DEF StateOK
<1>31. CASE DrainSnapshot
  <2>1. EngOK' /\ TaskOK' /\ RunOK' /\ ClientOK' /\ BoundOK'
    BY <1>31 DEF DrainSnapshot, EngOK, TaskOK, RunOK, ClientOK, BoundOK, engVars,
        taskVars, runVars, bounds
  <2>2. WalkOK'
    BY <1>31, IdleTyped DEF DrainSnapshot, WalkOK, Walker
  <2> QED BY <2>1, <2>2 DEF StateOK
<1>32. ASSUME NEW t \in Tasks, DrainVisit(t) PROVE StateOK'
  <2>1. EngOK' /\ TaskOK' /\ RunOK' /\ ClientOK' /\ BoundOK'
    BY <1>32 DEF DrainVisit, EngOK, TaskOK, RunOK, ClientOK, BoundOK, engVars,
        taskVars, runVars, bounds
  <2>2. WalkOK'
    <3>1. runSeq[t] \in Nat
      BY <1>32 DEF RunOK
    <3> QED BY <1>32, <3>1 DEF DrainVisit, WalkOK, Walker
  <2> QED BY <2>1, <2>2 DEF StateOK
<1>33. CASE DrainCancel
  <2>1. EngOK' /\ TaskOK' /\ ClientOK' /\ BoundOK'
    BY <1>33 DEF DrainCancel, EngOK, TaskOK, ClientOK, BoundOK, engVars, taskVars,
        bounds
  <2>2. RunOK'
    <3>1. ctx' \in [Tasks -> {"live", "system", "user"}]
      BY <1>33, CancelGenTyped DEF DrainCancel
    <3> QED BY <1>33, <3>1 DEF DrainCancel, RunOK
  <2>3. WalkOK'
    BY <1>33, IdleTyped DEF DrainCancel, WalkOK, Walker
  <2> QED BY <2>1, <2>2, <2>3 DEF StateOK
<1>34. CASE DrainWalked
  <2>1. EngOK' /\ TaskOK' /\ RunOK' /\ ClientOK' /\ BoundOK'
    BY <1>34 DEF DrainWalked, EngOK, TaskOK, RunOK, ClientOK, BoundOK, engVars,
        taskVars, runVars, bounds
  <2>2. WalkOK'
    BY <1>34, IdleTyped DEF DrainWalked, WalkOK, Walker
  <2> QED BY <2>1, <2>2 DEF StateOK
<1>35. CASE Drained
  <2>1. EngOK' /\ TaskOK' /\ RunOK' /\ ClientOK' /\ BoundOK'
    BY <1>35 DEF Drained, EngOK, TaskOK, RunOK, ClientOK, BoundOK, engVars, taskVars,
        runVars, bounds
  <2>2. WalkOK'
    BY <1>35, IdleTyped DEF Drained, WalkOK, Walker
  <2> QED BY <2>1, <2>2 DEF StateOK
<1>36. CASE ResumeScheduling
  <2>1. TaskOK' /\ RunOK' /\ ClientOK' /\ BoundOK'
    BY <1>36 DEF ResumeScheduling, TaskOK, RunOK, ClientOK, BoundOK, taskVars,
        runVars, bounds
  <2>2. EngOK'
    BY <1>36 DEF ResumeScheduling, EngOK
  <2>3. WalkOK'
    BY <1>36, IdleTyped DEF ResumeScheduling, WalkOK, Walker
  <2> QED BY <2>1, <2>2, <2>3 DEF StateOK
<1>37. CASE Stop
  <2>1. TaskOK' /\ RunOK' /\ ClientOK' /\ WalkOK' /\ BoundOK'
    BY <1>37 DEF Stop, TaskOK, RunOK, ClientOK, WalkOK, BoundOK, taskVars, runVars,
        bounds
  <2>2. EngOK'
    BY <1>37 DEF Stop, EngOK
  <2> QED BY <2>1, <2>2 DEF StateOK
<1>38. ASSUME NEW t \in Tasks, StopVisit(t) PROVE StateOK'
  <2>1. TaskOK' /\ ClientOK' /\ WalkOK' /\ BoundOK'
    BY <1>38 DEF StopVisit, TaskOK, ClientOK, WalkOK, BoundOK, taskVars, bounds
  <2>2. EngOK'
    BY <1>38 DEF StopVisit, EngOK
  <2>3. RunOK'
    <3>1. ctx' \in [Tasks -> {"live", "system", "user"}]
      BY <1>38, CancelGenTyped DEF StopVisit
    <3> QED BY <1>38, <3>1 DEF StopVisit, RunOK
  <2> QED BY <2>1, <2>2, <2>3 DEF StateOK
<1>39. CASE UNCHANGED vars
  <2>1. EngOK' /\ TaskOK' /\ RunOK' /\ ClientOK' /\ WalkOK' /\ BoundOK'
    BY <1>39 DEF vars, EngOK, TaskOK, RunOK, ClientOK, WalkOK, BoundOK, engVars,
        taskVars, runVars, bounds
  <2> QED BY <2>1 DEF StateOK
<1> QED BY <1>1, <1>2, <1>3, <1>4, <1>5, <1>6, <1>7, <1>8, <1>9, <1>10, <1>11,
           <1>12, <1>13, <1>14, <1>15, <1>16, <1>17, <1>18, <1>19, <1>20,
           <1>21, <1>22, <1>23, <1>24, <1>25, <1>26, <1>27, <1>28, <1>29,
           <1>30, <1>31, <1>32, <1>33, <1>34, <1>35, <1>36, <1>37, <1>38,
           <1>39
           DEF Next, RunStep, BootStep, TickStep, ClientStep, SetRoleStep,
               ImportStep, StopStep, Call

-----------------------------------------------------------------------------
(***************************************************************************)
(* What the shared sections do to the runs.                                *)
(***************************************************************************)
\* A cancel function can only end the liveness of a context.
LEMMA CancelGenEffect ==
    ASSUME RunOK, NEW t, NEW seq, NEW why \in {"system", "user"}, CancelGen(t, seq, why)
    PROVE  /\ \A x \in Tasks : ctx'[x] = "live" => ctx[x] = "live"
           /\ t \in Tasks /\ Running(t) /\ seq = runSeq[t] => ctx'[t] # "live"
BY DEF RunOK, CancelGen

\* A reservation admits its task, or leaves the runs alone.
LEMMA ReserveEffect ==
    ASSUME RunOK, TaskOK, NEW t \in Tasks, NEW trigger, Reserve(t, trigger)
    PROVE  \/ UNCHANGED <<runVars, taskVars>> /\ inFlight' = inFlight - 1
           \/ /\ RoleAllows(t) /\ ~Running(t) /\ ~hookRunning[t]
              /\ pc' = [pc EXCEPT ![t] = "body"]
              /\ runSeq' = [runSeq EXCEPT ![t] = runSeq[t] + 1]
              /\ runTrigger' = [runTrigger EXCEPT ![t] = trigger]
              /\ ctx' = [ctx EXCEPT ![t] = FirstContext]
              /\ \A x \in Tasks \ {t} : beat'[x] = beat[x]
              /\ UNCHANGED <<inFlight, hookRunning, releasing, loopEnabled>>
BY DEF Reserve, Admit, MayAdmit, TaskOK

-----------------------------------------------------------------------------
(***************************************************************************)
(* A stop reaches every run.                                               *)
(***************************************************************************)
\* A reservation behind the stop walk is born cancelled.
LEMMA StopReserve ==
    ASSUME StateOK, StopReachesRun, NEW t \in Tasks, NEW trigger, Reserve(t, trigger),
           UNCHANGED engVars
    PROVE  StopReachesRun'
<1>1. CASE UNCHANGED runVars
  BY <1>1 DEF StopReachesRun, runVars, engVars
<1>2. CASE /\ pc' = [pc EXCEPT ![t] = "body"]
           /\ ctx' = [ctx EXCEPT ![t] = FirstContext]
  BY <1>2 DEF StopReachesRun, FirstContext, StateOK, RunOK, EngOK, engVars
<1> QED BY <1>1, <1>2, ReserveEffect DEF StateOK

\* A cancelled context stays away from the property.
LEMMA StopCancel ==
    ASSUME StateOK, StopReachesRun, NEW t, NEW seq, NEW why \in {"system", "user"},
           CancelGen(t, seq, why) \/ UNCHANGED ctx, UNCHANGED <<stopped, stopTodo, pc>>
    PROVE  StopReachesRun'
<1>1. \A x \in Tasks : ctx'[x] = "live" => ctx[x] = "live"
  BY CancelGenEffect DEF StateOK
<1> QED BY <1>1 DEF StopReachesRun

\* Every step keeps StopReachesRun.
LEMMA StopNext == StateOK /\ StopReachesRun /\ [Next]_vars => StopReachesRun'
<1> SUFFICES ASSUME StateOK, StopReachesRun, [Next]_vars PROVE StopReachesRun'
  OBVIOUS
<1>1. ASSUME UNCHANGED <<stopped, stopTodo, pc, ctx>> PROVE StopReachesRun'
  BY <1>1 DEF StopReachesRun
<1>2. ASSUME NEW t \in Tasks, RunReturn(t) \/ Release(t) PROVE StopReachesRun'
  BY <1>2 DEF RunReturn, Release, StopReachesRun, StateOK, RunOK, engVars
<1>3. CASE BootReserve \/ TickReserve
  <2>1. boot.t \in Tasks /\ tick.t \in Tasks
    BY DEF StateOK, WalkOK, Walker
  <2> QED BY <1>3, <2>1, StopReserve DEF BootReserve, TickReserve
<1>4. ASSUME NEW c \in Clients, TriggerReserve(c) PROVE StopReachesRun'
  <2>1. client[c].t \in Tasks
    BY <1>4 DEF StateOK, ClientOK, Thread
  <2> QED BY <1>4, <2>1, StopReserve DEF TriggerReserve
<1>5. ASSUME NEW c \in Clients, CancelApply(c) PROVE StopReachesRun'
  BY <1>5, StopCancel DEF CancelApply, engVars
<1>6. CASE SetRoleCancel \/ DrainCancel
  BY <1>6, StopCancel DEF SetRoleCancel, DrainCancel, engVars
<1>7. CASE Stop
  BY <1>7 DEF Stop, StopReachesRun
<1>8. ASSUME NEW t \in Tasks, StopVisit(t) PROVE StopReachesRun'
  <2>1. CancelGen(t, runSeq[t], "system")
    BY <1>8 DEF StopVisit
  <2>2. \A x \in Tasks : ctx'[x] = "live" => ctx[x] = "live"
    BY <2>1, CancelGenEffect DEF StateOK
  <2>3. Running(t) => ctx'[t] # "live"
    BY <1>8, <2>1, CancelGenEffect DEF StateOK
  <2> QED BY <1>8, <2>2, <2>3 DEF StopVisit, StopReachesRun, Running
<1>9. CASE BootCount \/ BootAwait \/ BootResume \/ TickStart \/ TickJudge \/
    TickCount
  BY <1>1, <1>9 DEF BootCount, BootAwait, BootResume, TickStart, TickJudge,
      TickCount, engVars, runVars
<1>10. CASE TickEnd \/ SetRoleReturn \/ PauseScheduling \/ DrainSnapshot \/
    DrainWalked \/ Drained
  BY <1>1, <1>10 DEF TickEnd, SetRoleReturn, PauseScheduling, DrainSnapshot,
      DrainWalked, Drained, engVars, runVars
<1>11. CASE ResumeScheduling
  BY <1>1, <1>11 DEF ResumeScheduling, engVars, runVars
<1>12. ASSUME NEW t \in Tasks, ReleaseCount(t) \/ BootPick(t) \/ TickVisit(t) \/
    SetRoleVisit(t) \/ DrainVisit(t) PROVE StopReachesRun'
  BY <1>1, <1>12 DEF ReleaseCount, BootPick, TickVisit, SetRoleVisit,
      DrainVisit, engVars, runVars
<1>13. ASSUME NEW c \in Clients, TriggerCount(c) \/ CancelSnapshot(c) \/
    CancelClaim(c) PROVE StopReachesRun'
  BY <1>1, <1>13 DEF TriggerCount, CancelSnapshot, CancelClaim, engVars, runVars
<1>14. ASSUME NEW c \in Clients, NEW t \in Tasks, Trigger(c, t) \/ Cancel(c, t)
    \/ StartLoop(c, t) \/ StopLoop(c, t) PROVE StopReachesRun'
  BY <1>1, <1>14 DEF Trigger, Cancel, StartLoop, StopLoop, engVars, runVars
<1>15. ASSUME NEW c \in Clients, NEW ok \in BOOLEAN, CancelHook(c, ok) PROVE
    StopReachesRun'
  BY <1>1, <1>15 DEF CancelHook, engVars, runVars
<1>16. ASSUME NEW c \in Clients, NEW t \in Tasks, NEW hasWork \in BOOLEAN,
    RearmLoop(c, t, hasWork) PROVE StopReachesRun'
  BY <1>1, <1>16 DEF RearmLoop, engVars, runVars
<1>17. ASSUME NEW isMaster \in BOOLEAN, SetRole(isMaster) PROVE StopReachesRun'
  BY <1>1, <1>17 DEF SetRole, engVars, runVars
<1>18. CASE UNCHANGED vars
  BY <1>1, <1>18 DEF vars, engVars, runVars
<1> QED BY <1>2, <1>3, <1>4, <1>5, <1>6, <1>7, <1>8, <1>9, <1>10, <1>11,
           <1>12, <1>13, <1>14, <1>15, <1>16, <1>17, <1>18
           DEF Next, RunStep, BootStep, TickStep, ClientStep, SetRoleStep,
               ImportStep, StopStep, Call

(***************************************************************************)
(* A stop of the engine reaches every run, the one that registers while    *)
(* StopWithTimeout walks over the registrations included, for any number   *)
(* of tasks and clients.                                                   *)
(***************************************************************************)
THEOREM StopReaches == Spec => []StopReachesRun
<1>1. Init => StateOK /\ StopReachesRun
  BY InitTyped DEF Init, StopReachesRun
<1> QED BY <1>1, NextTyped, StopNext, PTL DEF Spec

-----------------------------------------------------------------------------
(***************************************************************************)
(* No run survives a demotion.                                             *)
(***************************************************************************)
\* A reservation admits a run only under the role of the moment.
LEMMA ForbidReserve ==
    ASSUME StateOK, NoForbiddenRun, NEW t \in Tasks, NEW trigger, Reserve(t, trigger),
           UNCHANGED <<engVars, setRole>>
    PROVE  NoForbiddenRun'
<1>1. \A x \in Tasks : RoleAllows(x)' <=> RoleAllows(x)
  BY DEF RoleAllows, engVars
<1>2. CASE UNCHANGED runVars
  BY <1>1, <1>2 DEF NoForbiddenRun, runVars
<1>3. CASE /\ RoleAllows(t)
           /\ pc' = [pc EXCEPT ![t] = "body"]
           /\ runSeq' = [runSeq EXCEPT ![t] = runSeq[t] + 1]
           /\ ctx' = [ctx EXCEPT ![t] = FirstContext]
  BY <1>1, <1>3 DEF NoForbiddenRun, StateOK, RunOK
<1> QED BY <1>2, <1>3, ReserveEffect DEF StateOK

\* A cancelled context, whoever cancelled it, is out of the property's reach.
LEMMA ForbidCancel ==
    ASSUME StateOK, NoForbiddenRun,
           \A x \in Tasks : ctx'[x] = "live" => ctx[x] = "live",
           UNCHANGED <<role, pc, runSeq, setRole>>
    PROVE  NoForbiddenRun'
<1>1. \A x \in Tasks : RoleAllows(x)' <=> RoleAllows(x)
  BY DEF RoleAllows
<1> QED BY <1>1 DEF NoForbiddenRun

\* Every step keeps NoForbiddenRun.
LEMMA ForbidNext == StateOK /\ NoForbiddenRun /\ [Next]_vars => NoForbiddenRun'
<1> SUFFICES ASSUME StateOK, NoForbiddenRun, [Next]_vars PROVE NoForbiddenRun'
  OBVIOUS
<1>1. ASSUME UNCHANGED <<role, pc, ctx, runSeq, setRole>> PROVE NoForbiddenRun'
  BY <1>1, ForbidCancel
<1>2. ASSUME NEW t \in Tasks, RunReturn(t) \/ Release(t) PROVE NoForbiddenRun'
  <2>1. \A x \in Tasks : RoleAllows(x)' <=> RoleAllows(x)
    <3>1. role' = role
      BY <1>2 DEF RunReturn, Release, engVars
    <3> QED BY <3>1 DEF RoleAllows
  <2> QED BY ZenonT(60), <1>2, <2>1 DEF RunReturn, Release, NoForbiddenRun, StateOK, RunOK
<1>3. CASE BootReserve \/ TickReserve
  <2>1. boot.t \in Tasks /\ tick.t \in Tasks
    BY DEF StateOK, WalkOK, Walker
  <2> QED BY <1>3, <2>1, ForbidReserve DEF BootReserve, TickReserve
<1>4. ASSUME NEW c \in Clients, TriggerReserve(c) PROVE NoForbiddenRun'
  <2>1. client[c].t \in Tasks
    BY <1>4 DEF StateOK, ClientOK, Thread
  <2> QED BY <1>4, <2>1, ForbidReserve DEF TriggerReserve
<1>5. ASSUME NEW c \in Clients, CancelApply(c) PROVE NoForbiddenRun'
  <2>1. CASE CancelGen(client[c].t, client[c].seq, "user")
    <3>1. \A x \in Tasks : ctx'[x] = "live" => ctx[x] = "live"
      BY <2>1, CancelGenEffect DEF StateOK
    <3> QED BY <1>5, <3>1, ForbidCancel DEF CancelApply, engVars
  <2>2. CASE UNCHANGED ctx
    BY <1>5, <2>2, ForbidCancel DEF CancelApply, engVars
  <2> QED BY <1>5, <2>1, <2>2 DEF CancelApply
<1>6. CASE DrainCancel
  <2>1. \A x \in Tasks : ctx'[x] = "live" => ctx[x] = "live"
    BY <1>6, CancelGenEffect DEF StateOK, DrainCancel
  <2> QED BY <1>6, <2>1, ForbidCancel DEF DrainCancel, engVars
<1>7. ASSUME NEW t \in Tasks, StopVisit(t) PROVE NoForbiddenRun'
  <2>1. \A x \in Tasks : ctx'[x] = "live" => ctx[x] = "live"
    BY <1>7, CancelGenEffect DEF StateOK, StopVisit
  <2> QED BY <1>7, <2>1, ForbidCancel DEF StopVisit
<1>8. ASSUME NEW isMaster \in BOOLEAN, SetRole(isMaster) PROVE NoForbiddenRun'
  <2>1. setRole' = [IdleWalk EXCEPT !.at = "walk", !.todo = Tasks,
                                    !.flipped = role # isMaster]
    BY <1>8 DEF SetRole
  <2>2. setRole'.todo = Tasks
    BY <2>1, IdleTyped DEF Walker
  <2> QED BY <2>2 DEF NoForbiddenRun
<1>9. CASE SetRoleReturn \/ \E t \in Tasks : SetRoleVisit(t)
  <2>1. \A x \in Tasks : RoleAllows(x)' <=> RoleAllows(x)
    <3>1. role' = role
      BY <1>9 DEF SetRoleReturn, SetRoleVisit, engVars
    <3> QED BY <3>1 DEF RoleAllows
  <2>2. CASE SetRoleReturn
    BY <2>1, <2>2 DEF SetRoleReturn, NoForbiddenRun, runVars
  <2>3. ASSUME NEW t \in Tasks, SetRoleVisit(t) PROVE NoForbiddenRun'
    <3>1. /\ setRole.at = "walk" /\ UNCHANGED <<pc, ctx, runSeq>>
          /\ setRole'.todo = setRole.todo \ {t} /\ setRole'.t = t
          /\ ~RoleAllows(t) /\ Running(t) =>
                setRole'.at = "cancel" /\ setRole'.seq = runSeq[t]
      BY <2>3 DEF SetRoleVisit, StateOK, WalkOK, Walker, runVars
    <3> QED BY <2>1, <3>1 DEF NoForbiddenRun, Running
  <2> QED BY <1>9, <2>2, <2>3
<1>10. CASE SetRoleCancel
  <2>1. \A x \in Tasks : RoleAllows(x)' <=> RoleAllows(x)
    BY <1>10 DEF SetRoleCancel, RoleAllows, engVars
  <2>2. /\ \A x \in Tasks : ctx'[x] = "live" => ctx[x] = "live"
        /\ Running(setRole.t) /\ setRole.seq = runSeq[setRole.t]
              => ctx'[setRole.t] # "live"
    BY <1>10, CancelGenEffect DEF SetRoleCancel, StateOK, WalkOK, Walker
  <2>3. setRole'.todo = setRole.todo /\ UNCHANGED <<pc, runSeq>>
    BY <1>10 DEF SetRoleCancel, StateOK, WalkOK, Walker
  <2> QED BY <2>1, <2>2, <2>3 DEF NoForbiddenRun, Running
<1>11. CASE BootCount \/ BootAwait \/ BootResume \/ TickStart \/ TickJudge \/
    TickCount
  BY <1>1, <1>11 DEF BootCount, BootAwait, BootResume, TickStart, TickJudge,
      TickCount, engVars, runVars
<1>12. CASE TickEnd \/ PauseScheduling \/ DrainSnapshot \/ DrainWalked \/
    Drained \/ ResumeScheduling
  BY <1>1, <1>12 DEF TickEnd, PauseScheduling, DrainSnapshot, DrainWalked,
      Drained, ResumeScheduling, engVars, runVars
<1>13. CASE Stop
  BY <1>1, <1>13 DEF Stop, engVars, runVars
<1>14. ASSUME NEW t \in Tasks, ReleaseCount(t) \/ BootPick(t) \/ TickVisit(t) \/
    DrainVisit(t) PROVE NoForbiddenRun'
  BY <1>1, <1>14 DEF ReleaseCount, BootPick, TickVisit, DrainVisit, engVars,
      runVars
<1>15. ASSUME NEW c \in Clients, TriggerCount(c) \/ CancelSnapshot(c) \/
    CancelClaim(c) PROVE NoForbiddenRun'
  BY <1>1, <1>15 DEF TriggerCount, CancelSnapshot, CancelClaim, engVars, runVars
<1>16. ASSUME NEW c \in Clients, NEW t \in Tasks, Trigger(c, t) \/ Cancel(c, t)
    \/ StartLoop(c, t) \/ StopLoop(c, t) PROVE NoForbiddenRun'
  BY <1>1, <1>16 DEF Trigger, Cancel, StartLoop, StopLoop, engVars, runVars
<1>17. ASSUME NEW c \in Clients, NEW ok \in BOOLEAN, CancelHook(c, ok) PROVE
    NoForbiddenRun'
  BY <1>1, <1>17 DEF CancelHook, engVars, runVars
<1>18. ASSUME NEW c \in Clients, NEW t \in Tasks, NEW hasWork \in BOOLEAN,
    RearmLoop(c, t, hasWork) PROVE NoForbiddenRun'
  BY <1>1, <1>18 DEF RearmLoop, engVars, runVars
<1>19. CASE UNCHANGED vars
  BY <1>1, <1>19 DEF vars, engVars, runVars
<1> QED BY <1>2, <1>3, <1>4, <1>5, <1>6, <1>7, <1>8, <1>9, <1>10, <1>11,
           <1>12, <1>13, <1>14, <1>15, <1>16, <1>17, <1>18, <1>19
           DEF Next, RunStep, BootStep, TickStep, ClientStep, SetRoleStep,
               ImportStep, StopStep, Call

(***************************************************************************)
(* NoForbiddenRun holds for any number of tasks and clients: after a       *)
(* demotion no body runs on, uncancelled, that the new role forbids,       *)
(* unless SetRole is still on its way to it.                               *)
(***************************************************************************)
THEOREM DemotionReaches == Spec => []NoForbiddenRun
<1>1. Init => StateOK /\ NoForbiddenRun
  BY InitTyped DEF Init, NoForbiddenRun
<1> QED BY <1>1, NextTyped, ForbidNext, PTL DEF Spec

-----------------------------------------------------------------------------
(***************************************************************************)
(* A cancel hook acts on the run it was called for.                        *)
(***************************************************************************)
\* Steps that neither start nor end a hook, and that leave the generation of
\* every task with a hook alone.
LEMMA HookFrame ==
    ASSUME StateOK, HookHitsItsRun, UNCHANGED hookRunning,
           \A c \in Clients : client[c].at = "hook" <=> client'[c].at = "hook",
           \A c \in Clients : client[c].at = "hook" => client'[c] = client[c],
           \A t \in Tasks : hookRunning[t] => runSeq'[t] = runSeq[t]
    PROVE  HookHitsItsRun'
<1>1. \A c \in Clients : client[c].t \in Tasks
  BY DEF StateOK, ClientOK, Thread
<1>2. ASSUME NEW c \in Clients, client'[c].at = "hook"
      PROVE  /\ hookRunning'[client'[c].t]
             /\ runSeq'[client'[c].t] = client'[c].seq
             /\ \A d \in Clients \ {c} :
                   client'[d].at = "hook" => client'[d].t # client'[c].t
  BY <1>1, <1>2 DEF HookHitsItsRun
<1>3. ASSUME NEW t \in Tasks, hookRunning'[t]
      PROVE  \E c \in Clients : client'[c].at = "hook" /\ client'[c].t = t
  BY <1>3 DEF HookHitsItsRun
<1> QED BY <1>2, <1>3 DEF HookHitsItsRun

\* A reservation is refused while a hook of the task executes.
LEMMA HookReserve ==
    ASSUME StateOK, NEW t \in Tasks, NEW trigger, Reserve(t, trigger)
    PROVE  /\ UNCHANGED hookRunning
           /\ \A x \in Tasks : hookRunning[x] => runSeq'[x] = runSeq[x]
<1>1. CASE UNCHANGED runVars
  BY <1>1 DEF runVars
<1>2. CASE /\ ~hookRunning[t] /\ UNCHANGED hookRunning
           /\ runSeq' = [runSeq EXCEPT ![t] = runSeq[t] + 1]
  BY <1>2 DEF StateOK, RunOK
<1> QED BY <1>1, <1>2, ReserveEffect DEF StateOK

\* A step of one client between places that are not the hook.
LEMMA HookClient ==
    ASSUME StateOK, HookHitsItsRun, NEW c \in Clients, UNCHANGED hookRunning,
           client[c].at # "hook", client'[c].at # "hook",
           \A d \in Clients \ {c} : client'[d] = client[d],
           \A t \in Tasks : hookRunning[t] => runSeq'[t] = runSeq[t]
    PROVE  HookHitsItsRun'
<1>1. \A d \in Clients : client[d].at = "hook" <=> client'[d].at = "hook"
  OBVIOUS
<1>2. \A d \in Clients : client[d].at = "hook" => client'[d] = client[d]
  OBVIOUS
<1> QED BY <1>1, <1>2, HookFrame

\* Every step keeps HookHitsItsRun.
LEMMA HookNext == StateOK /\ HookHitsItsRun /\ [Next]_vars => HookHitsItsRun'
<1> SUFFICES ASSUME StateOK, HookHitsItsRun, [Next]_vars PROVE HookHitsItsRun'
  OBVIOUS
<1>0. Idle.at = "idle"
  BY DEF Idle
<1>1. ASSUME UNCHANGED <<client, hookRunning, runSeq>> PROVE HookHitsItsRun'
  BY <1>1, HookFrame
<1>2. CASE BootReserve \/ TickReserve
  <2>1. boot.t \in Tasks /\ tick.t \in Tasks
    BY DEF StateOK, WalkOK, Walker
  <2>2. /\ UNCHANGED hookRunning
        /\ \A x \in Tasks : hookRunning[x] => runSeq'[x] = runSeq[x]
    BY <1>2, <2>1, HookReserve DEF BootReserve, TickReserve
  <2> QED BY <1>2, <2>2, HookFrame DEF BootReserve, TickReserve
<1>3. ASSUME NEW c \in Clients, TriggerReserve(c) PROVE HookHitsItsRun'
  <2>1. client[c].t \in Tasks
    BY DEF StateOK, ClientOK, Thread
  <2>2. /\ UNCHANGED hookRunning
        /\ \A x \in Tasks : hookRunning[x] => runSeq'[x] = runSeq[x]
    BY <1>3, <2>1, HookReserve DEF TriggerReserve
  <2>3. client[c].at # "hook" /\ client' = [client EXCEPT ![c] = Idle]
    BY <1>3 DEF TriggerReserve, Ends
  <2>4. client'[c].at # "hook" /\ \A d \in Clients \ {c} : client'[d] = client[d]
    BY <1>0, <2>3 DEF StateOK, ClientOK
  <2> QED BY <2>2, <2>3, <2>4, HookClient
<1>4. ASSUME NEW c \in Clients, TriggerCount(c) PROVE HookHitsItsRun'
  <2>1. client[c].at # "hook" /\ UNCHANGED <<hookRunning, runSeq>>
    BY <1>4 DEF TriggerCount, runVars
  <2>2. client'[c].at # "hook" /\ \A d \in Clients \ {c} : client'[d] = client[d]
    BY <1>0, <1>4 DEF TriggerCount, Count, Goes, Ends, StateOK, ClientOK, Thread
  <2> QED BY <2>1, <2>2, HookClient
<1>5. ASSUME NEW c \in Clients, CancelSnapshot(c) PROVE HookHitsItsRun'
  <2>1. client[c].at # "hook" /\ UNCHANGED <<hookRunning, runSeq>>
    BY <1>5 DEF CancelSnapshot, runVars
  <2>2. client'[c].at # "hook" /\ \A d \in Clients \ {c} : client'[d] = client[d]
    BY <1>0, <1>5 DEF CancelSnapshot, Ends, StateOK, ClientOK
  <2> QED BY <2>1, <2>2, HookClient
<1>6. ASSUME NEW c \in Clients, CancelApply(c) PROVE HookHitsItsRun'
  <2>1. client[c].at # "hook" /\ UNCHANGED <<hookRunning, runSeq>>
    BY <1>6 DEF CancelApply
  <2>2. client'[c].at # "hook" /\ \A d \in Clients \ {c} : client'[d] = client[d]
    BY <1>0, <1>6 DEF CancelApply, Ends, StateOK, ClientOK
  <2> QED BY <2>1, <2>2, HookClient
<1>7. ASSUME NEW c \in Clients, NEW t \in Tasks, Trigger(c, t) \/ Cancel(c, t)
      PROVE  HookHitsItsRun'
  <2>1. client[c].at # "hook" /\ UNCHANGED <<hookRunning, runSeq>>
    BY <1>7 DEF Trigger, Cancel, MayCall, runVars
  <2>2. client'[c].at # "hook" /\ \A d \in Clients \ {c} : client'[d] = client[d]
    BY <1>7, IdleTyped DEF Trigger, Cancel, StateOK, ClientOK, Thread
  <2> QED BY <2>1, <2>2, HookClient
<1>8. ASSUME NEW c \in Clients, CancelClaim(c) PROVE HookHitsItsRun'
  <2>1. client[c].at = "claim" /\ client[c].t \in Tasks /\ UNCHANGED runSeq
    BY <1>8 DEF CancelClaim, StateOK, ClientOK, Thread
  <2>2. CASE Ends(c) /\ UNCHANGED hookRunning
    <3>1. client'[c].at # "hook" /\ \A d \in Clients \ {c} : client'[d] = client[d]
      BY <1>0, <2>2 DEF Ends, StateOK, ClientOK
    <3> QED BY <2>1, <2>2, <3>1, HookClient
  <2>3. CASE /\ SameRun(c) /\ ~hookRunning[client[c].t] /\ Goes(c, "hook")
             /\ hookRunning' = [hookRunning EXCEPT ![client[c].t] = TRUE]
    <3>1. /\ client'[c].at = "hook" /\ client'[c].t = client[c].t
          /\ client'[c].seq = client[c].seq
          /\ \A d \in Clients \ {c} : client'[d] = client[d]
      BY <2>3 DEF Goes, StateOK, ClientOK, Thread
    <3>2. /\ hookRunning'[client[c].t]
          /\ \A x \in Tasks \ {client[c].t} : hookRunning'[x] = hookRunning[x]
      BY <2>1, <2>3 DEF StateOK, RunOK
    <3>3. runSeq[client[c].t] = client[c].seq
      BY <2>3 DEF SameRun
    <3>4. \A d \in Clients \ {c} :
             client[d].at = "hook" => client[d].t # client[c].t
      BY <2>3 DEF HookHitsItsRun
    <3>5. \A d \in Clients : client[d].t \in Tasks
      BY DEF StateOK, ClientOK, Thread
    <3>6. ASSUME NEW d \in Clients, client'[d].at = "hook"
          PROVE  /\ hookRunning'[client'[d].t]
                 /\ runSeq'[client'[d].t] = client'[d].seq
                 /\ \A e \in Clients \ {d} :
                       client'[e].at = "hook" => client'[e].t # client'[d].t
      <4>1. CASE d = c
        BY <2>1, <3>1, <3>2, <3>3, <3>4, <4>1
      <4>2. CASE d # c
        BY <2>1, <3>1, <3>2, <3>4, <3>5, <3>6, <4>2 DEF HookHitsItsRun
      <4> QED BY <4>1, <4>2
    <3>7. ASSUME NEW x \in Tasks, hookRunning'[x]
          PROVE  \E d \in Clients : client'[d].at = "hook" /\ client'[d].t = x
      <4>1. CASE x = client[c].t
        BY <3>1, <4>1
      <4>2. CASE x # client[c].t
        <5>1. PICK d \in Clients : client[d].at = "hook" /\ client[d].t = x
          BY <3>2, <3>7, <4>2 DEF HookHitsItsRun
        <5> QED BY <2>1, <3>1, <5>1
      <4> QED BY <4>1, <4>2
    <3> QED BY <3>6, <3>7 DEF HookHitsItsRun
  <2> QED BY <1>8, <2>2, <2>3 DEF CancelClaim
<1>9. ASSUME NEW c \in Clients, NEW ok \in BOOLEAN, CancelHook(c, ok)
      PROVE  HookHitsItsRun'
  <2>1. client[c].at = "hook" /\ client[c].t \in Tasks /\ UNCHANGED runSeq
    BY <1>9 DEF CancelHook, StateOK, ClientOK, Thread
  <2>2. client'[c].at # "hook" /\ \A d \in Clients \ {c} : client'[d] = client[d]
    BY <1>0, <1>9 DEF CancelHook, Goes, Ends, StateOK, ClientOK, Thread
  <2>3. /\ ~hookRunning'[client[c].t]
        /\ \A x \in Tasks \ {client[c].t} : hookRunning'[x] = hookRunning[x]
    BY <1>9, <2>1 DEF CancelHook, StateOK, RunOK
  <2>4. \A d \in Clients : client[d].t \in Tasks
    BY DEF StateOK, ClientOK, Thread
  <2>5. ASSUME NEW d \in Clients, client'[d].at = "hook"
        PROVE  /\ hookRunning'[client'[d].t]
               /\ runSeq'[client'[d].t] = client'[d].seq
               /\ \A e \in Clients \ {d} :
                     client'[e].at = "hook" => client'[e].t # client'[d].t
    BY <2>1, <2>2, <2>3, <2>4, <2>5 DEF HookHitsItsRun
  <2>6. ASSUME NEW x \in Tasks, hookRunning'[x]
        PROVE  \E d \in Clients : client'[d].at = "hook" /\ client'[d].t = x
    <3>1. x # client[c].t
      BY <2>3, <2>6
    <3>2. PICK d \in Clients : client[d].at = "hook" /\ client[d].t = x
      BY <2>3, <2>6, <3>1 DEF HookHitsItsRun
    <3> QED BY <2>2, <3>1, <3>2
  <2> QED BY <2>5, <2>6 DEF HookHitsItsRun
<1>10. CASE BootCount \/ BootAwait \/ BootResume \/ TickStart \/ TickJudge \/
    TickCount
  BY <1>1, <1>10 DEF BootCount, BootAwait, BootResume, TickStart, TickJudge,
      TickCount, runVars
<1>11. CASE TickEnd \/ SetRoleCancel \/ SetRoleReturn \/ PauseScheduling \/
    DrainSnapshot \/ DrainCancel
  BY <1>1, <1>11 DEF TickEnd, SetRoleCancel, SetRoleReturn, PauseScheduling,
      DrainSnapshot, DrainCancel, runVars
<1>12. CASE DrainWalked \/ Drained \/ ResumeScheduling \/ Stop
  BY <1>1, <1>12 DEF DrainWalked, Drained, ResumeScheduling, Stop, runVars
<1>13. ASSUME NEW t \in Tasks, RunReturn(t) \/ Release(t) \/ ReleaseCount(t) \/
    BootPick(t) \/ TickVisit(t) \/ SetRoleVisit(t) PROVE HookHitsItsRun'
  BY <1>1, <1>13 DEF RunReturn, Release, ReleaseCount, BootPick, TickVisit,
      SetRoleVisit, runVars
<1>14. ASSUME NEW t \in Tasks, DrainVisit(t) \/ StopVisit(t) PROVE
    HookHitsItsRun'
  BY <1>1, <1>14 DEF DrainVisit, StopVisit, runVars
<1>15. ASSUME NEW c \in Clients, NEW t \in Tasks, StartLoop(c, t) \/ StopLoop(c,
    t) PROVE HookHitsItsRun'
  BY <1>1, <1>15 DEF StartLoop, StopLoop, runVars
<1>16. ASSUME NEW c \in Clients, NEW t \in Tasks, NEW hasWork \in BOOLEAN,
    RearmLoop(c, t, hasWork) PROVE HookHitsItsRun'
  BY <1>1, <1>16 DEF RearmLoop, runVars
<1>17. ASSUME NEW isMaster \in BOOLEAN, SetRole(isMaster) PROVE HookHitsItsRun'
  BY <1>1, <1>17 DEF SetRole, runVars
<1>18. CASE UNCHANGED vars
  BY <1>1, <1>18 DEF vars, runVars
<1> QED BY <1>2, <1>3, <1>4, <1>5, <1>6, <1>7, <1>8, <1>9, <1>10, <1>11,
           <1>12, <1>13, <1>14, <1>15, <1>16, <1>17, <1>18
           DEF Next, RunStep, BootStep, TickStep, ClientStep, SetRoleStep,
               ImportStep, StopStep, Call

(***************************************************************************)
(* HookHitsItsRun holds for any number of tasks and of concurrent Cancel   *)
(* calls.  Its last part makes the flag's holder explicit, which is what   *)
(* makes the property inductive together with the types.                   *)
(***************************************************************************)
THEOREM HookOwnsItsRun == Spec => []HookHitsItsRun
<1>1. Init => StateOK /\ HookHitsItsRun
  <2>1. Idle.at = "idle"
    BY DEF Idle
  <2>2. ASSUME Init PROVE HookHitsItsRun
    <3>1. \A c \in Clients : client[c].at # "hook"
      BY <2>1, <2>2 DEF Init
    <3>2. \A t \in Tasks : ~hookRunning[t]
      BY <2>2 DEF Init
    <3> QED BY <3>1, <3>2 DEF HookHitsItsRun
  <2> QED BY <2>2, InitTyped
<1> QED BY <1>1, NextTyped, HookNext, PTL DEF Spec

-----------------------------------------------------------------------------
(***************************************************************************)
(* A periodic task that the role forbids has no beat.                      *)
(***************************************************************************)
\* Steps that set no beat against the role, and leave the role walk alone.
LEMMA BeatFrame ==
    ASSUME BeatForgotten, UNCHANGED role, setRole'.todo = setRole.todo,
           \A t \in Tasks : beat'[t] => beat[t] \/ RoleAllows(t)
    PROVE  BeatForgotten'
<1>1. \A x \in Tasks : RoleAllows(x)' <=> RoleAllows(x)
  BY DEF RoleAllows
<1> QED BY <1>1 DEF BeatForgotten

\* A reservation sets the beat of a task the role allows, if any.
LEMMA BeatReserve ==
    ASSUME StateOK, NEW t \in Tasks, NEW trigger, Reserve(t, trigger)
    PROVE  \A x \in Tasks : beat'[x] => beat[x] \/ RoleAllows(x)
<1>1. CASE UNCHANGED taskVars
  BY <1>1 DEF taskVars
<1>2. CASE RoleAllows(t) /\ \A x \in Tasks \ {t} : beat'[x] = beat[x]
  BY <1>2
<1> QED BY <1>1, <1>2, ReserveEffect DEF StateOK

\* Every step keeps BeatForgotten.
LEMMA BeatNext == StateOK /\ BeatForgotten /\ [Next]_vars => BeatForgotten'
<1> SUFFICES ASSUME StateOK, BeatForgotten, [Next]_vars PROVE BeatForgotten'
  OBVIOUS
<1>1. ASSUME UNCHANGED <<role, beat, setRole>> PROVE BeatForgotten'
  BY <1>1, BeatFrame
<1>2. CASE BootReserve \/ TickReserve
  <2>1. boot.t \in Tasks /\ tick.t \in Tasks
    BY DEF StateOK, WalkOK, Walker
  <2>2. \A x \in Tasks : beat'[x] => beat[x] \/ RoleAllows(x)
    BY <1>2, <2>1, BeatReserve DEF BootReserve, TickReserve
  <2> QED BY <1>2, <2>2, BeatFrame DEF BootReserve, TickReserve, engVars
<1>3. ASSUME NEW c \in Clients, TriggerReserve(c) PROVE BeatForgotten'
  <2>1. client[c].t \in Tasks
    BY DEF StateOK, ClientOK, Thread
  <2>2. \A x \in Tasks : beat'[x] => beat[x] \/ RoleAllows(x)
    BY <1>3, <2>1, BeatReserve DEF TriggerReserve
  <2> QED BY <1>3, <2>2, BeatFrame DEF TriggerReserve, engVars
<1>4. CASE TickJudge
  <2>1. \A x \in Tasks : beat'[x] => beat[x]
    BY <1>4 DEF TickJudge, StateOK, TaskOK, taskVars
  <2> QED BY <1>4, <2>1, BeatFrame DEF TickJudge, engVars
<1>5. ASSUME NEW c \in Clients, NEW t \in Tasks, NEW hasWork \in BOOLEAN,
             StartLoop(c, t) \/ StopLoop(c, t) \/ RearmLoop(c, t, hasWork)
      PROVE  BeatForgotten'
  <2>1. \A x \in Tasks : beat'[x] => beat[x]
    BY <1>5 DEF StartLoop, StopLoop, RearmLoop, StateOK, TaskOK
  <2> QED BY <1>5, <2>1, BeatFrame DEF StartLoop, StopLoop, RearmLoop, engVars
<1>6. ASSUME NEW isMaster \in BOOLEAN, SetRole(isMaster) PROVE BeatForgotten'
  <2>1. setRole' = [IdleWalk EXCEPT !.at = "walk", !.todo = Tasks,
                                    !.flipped = role # isMaster]
    BY <1>6 DEF SetRole
  <2>2. setRole'.todo = Tasks
    BY <2>1, IdleTyped DEF Walker
  <2> QED BY <2>2 DEF BeatForgotten
<1>7. ASSUME NEW t \in Tasks, SetRoleVisit(t) PROVE BeatForgotten'
  <2>1. role' = role
    BY <1>7 DEF SetRoleVisit, engVars
  <2>2. \A x \in Tasks : RoleAllows(x)' <=> RoleAllows(x)
    BY <2>1 DEF RoleAllows
  <2>3. setRole'.todo = setRole.todo \ {t}
    BY <1>7 DEF SetRoleVisit, StateOK, WalkOK, Walker
  <2>4. /\ Kind[t] = "periodic" /\ ~RoleAllows(t) => ~beat'[t]
        /\ \A x \in Tasks \ {t} : beat'[x] = beat[x]
    BY <1>7 DEF SetRoleVisit, ForgetsBeat, StateOK, TaskOK
  <2> QED BY <2>2, <2>3, <2>4 DEF BeatForgotten
<1>8. CASE SetRoleCancel \/ SetRoleReturn
  <2>1. UNCHANGED <<role, beat>>
    BY <1>8 DEF SetRoleCancel, SetRoleReturn, engVars, taskVars
  <2>2. setRole'.todo = setRole.todo
    <3>1. IdleWalk.todo = {}
      BY DEF IdleWalk
    <3> QED BY <1>8, <3>1 DEF SetRoleCancel, SetRoleReturn, StateOK, WalkOK, Walker
  <2> QED BY <2>1, <2>2, BeatFrame
<1>9. CASE BootCount \/ BootAwait \/ BootResume \/ TickStart \/ TickCount \/
    TickEnd
  BY <1>1, <1>9 DEF BootCount, BootAwait, BootResume, TickStart, TickCount,
      TickEnd, engVars, taskVars
<1>10. CASE PauseScheduling \/ DrainSnapshot \/ DrainCancel \/ DrainWalked \/
    Drained \/ ResumeScheduling
  BY <1>1, <1>10 DEF PauseScheduling, DrainSnapshot, DrainCancel, DrainWalked,
      Drained, ResumeScheduling, engVars, taskVars
<1>11. CASE Stop
  BY <1>1, <1>11 DEF Stop, engVars, taskVars
<1>12. ASSUME NEW t \in Tasks, RunReturn(t) \/ Release(t) \/ ReleaseCount(t) \/
    BootPick(t) \/ TickVisit(t) \/ DrainVisit(t) PROVE BeatForgotten'
  BY <1>1, <1>12 DEF RunReturn, Release, ReleaseCount, BootPick, TickVisit,
      DrainVisit, engVars, taskVars
<1>13. ASSUME NEW t \in Tasks, StopVisit(t) PROVE BeatForgotten'
  BY <1>1, <1>13 DEF StopVisit, engVars, taskVars
<1>14. ASSUME NEW c \in Clients, TriggerCount(c) \/ CancelSnapshot(c) \/
    CancelClaim(c) \/ CancelApply(c) PROVE BeatForgotten'
  BY <1>1, <1>14 DEF TriggerCount, CancelSnapshot, CancelClaim, CancelApply,
      engVars, taskVars
<1>15. ASSUME NEW c \in Clients, NEW t \in Tasks, Trigger(c, t) \/ Cancel(c, t)
    PROVE BeatForgotten'
  BY <1>1, <1>15 DEF Trigger, Cancel, engVars, taskVars
<1>16. ASSUME NEW c \in Clients, NEW ok \in BOOLEAN, CancelHook(c, ok) PROVE
    BeatForgotten'
  BY <1>1, <1>16 DEF CancelHook, engVars, taskVars
<1>17. CASE UNCHANGED vars
  BY <1>1, <1>17 DEF vars, engVars, taskVars
<1> QED BY <1>2, <1>3, <1>4, <1>5, <1>6, <1>7, <1>8, <1>9, <1>10, <1>11,
           <1>12, <1>13, <1>14, <1>15, <1>16, <1>17
           DEF Next, RunStep, BootStep, TickStep, ClientStep, SetRoleStep,
               ImportStep, StopStep, Call

(***************************************************************************)
(* BeatForgotten holds for any set of tasks: a periodic task is due again  *)
(* as soon as the node's role allows it.                                   *)
(***************************************************************************)
THEOREM BeatsForgotten == Spec => []BeatForgotten
<1>1. Init => StateOK /\ BeatForgotten
  BY InitTyped DEF Init, BeatForgotten
<1> QED BY <1>1, NextTyped, BeatNext, PTL DEF Spec

-----------------------------------------------------------------------------
(***************************************************************************)
(* The boot runs are alone.                                                *)
(***************************************************************************)
\* Until the assembly ends scheduling stays paused, so that no thread but the
\* booting one is between the two sections of a reservation; an import holds
\* the pause as well, and begins after the assembly.
PauseHeld ==
    /\ boot.at # "done" => schedPaused /\ import.at = "idle" /\ tick.at = "idle"
    /\ boot.at # "done" => \A c \in Clients : client[c].at # "counted"
    /\ import.at # "idle" => schedPaused /\ boot.at = "done"
BootInv == PauseHeld /\ BootRunsAlone

\* Steps of the clients while the assembly runs.
LEMMA BootClient ==
    ASSUME BootInv, NEW c \in Clients,
           UNCHANGED <<boot, schedPaused, import, tick, pc, runTrigger>>,
           boot.at # "done" => client'[c].at # "counted",
           \A d \in Clients \ {c} : client'[d] = client[d]
    PROVE  BootInv'
BY DEF BootInv, PauseHeld, BootRunsAlone, Running

\* Every step keeps BootInv.
LEMMA BootNext == StateOK /\ BootInv /\ [Next]_vars => BootInv'
<1> SUFFICES ASSUME StateOK, BootInv, [Next]_vars PROVE BootInv'
  OBVIOUS
<1>0. Idle.at = "idle" /\ IdleWalk.at = "idle"
  BY DEF Idle, IdleWalk
<1>1. ASSUME UNCHANGED <<boot, schedPaused, import, tick, client, pc, runTrigger>>
      PROVE  BootInv'
  BY <1>1 DEF BootInv, PauseHeld, BootRunsAlone, Running
<1>2. ASSUME NEW t \in Tasks, RunReturn(t) \/ Release(t) PROVE BootInv'
  <2>1. PauseHeld'
    BY <1>2 DEF RunReturn, Release, BootInv, PauseHeld, engVars
  <2>2. BootRunsAlone'
    BY <1>2 DEF RunReturn, Release, BootInv, BootRunsAlone, Running, StateOK, RunOK
  <2> QED BY <2>1, <2>2 DEF BootInv
<1>3. CASE BootReserve
  <2>1. PauseHeld'
    BY <1>3 DEF BootReserve, BootInv, PauseHeld, engVars, StateOK, WalkOK, Walker
  <2>2. boot.t \in Tasks /\ Reserve(boot.t, "startup") /\ boot.at = "counted"
    BY <1>3 DEF BootReserve, StateOK, WalkOK, Walker
  <2>3. CASE UNCHANGED runVars
    BY <2>1, <2>2, <2>3 DEF BootInv, BootRunsAlone, Running, runVars
  <2>4. CASE /\ pc' = [pc EXCEPT ![boot.t] = "body"]
             /\ runTrigger' = [runTrigger EXCEPT ![boot.t] = "startup"]
    BY <2>1, <2>2, <2>4 DEF BootInv, BootRunsAlone, Running, StateOK, RunOK
  <2> QED BY <2>1, <2>2, <2>3, <2>4, ReserveEffect DEF StateOK, BootInv
<1>4. CASE (\E t \in Tasks : BootPick(t)) \/ BootCount \/ BootAwait \/ BootResume
  <2>1. UNCHANGED <<pc, runTrigger, tick, client, import>> /\ boot.at # "done"
    BY <1>4 DEF BootPick, BootCount, BootAwait, BootResume, runVars
  <2>2. boot'.at = "done" \/ UNCHANGED schedPaused
    BY <1>4 DEF BootPick, BootCount, BootAwait, BootResume, engVars, StateOK, WalkOK,
        Walker
  <2> QED BY <2>1, <2>2 DEF BootInv, PauseHeld, BootRunsAlone, Running
<1>5. CASE \/ TickStart \/ (\E t \in Tasks : TickVisit(t)) \/ TickJudge \/ TickCount
           \/ TickReserve \/ TickEnd
  <2>1. UNCHANGED <<boot, schedPaused, import, client>>
    BY <1>5 DEF TickStart, TickVisit, TickJudge, TickCount, TickReserve, TickEnd,
        engVars
  <2>2. boot.at = "done"
    BY <1>5 DEF TickStart, TickVisit, TickJudge, TickCount, TickReserve, TickEnd,
                BootInv, PauseHeld
  <2> QED BY <2>1, <2>2 DEF BootInv, PauseHeld, BootRunsAlone
<1>6. ASSUME NEW c \in Clients, TriggerReserve(c) PROVE BootInv'
  <2>1. UNCHANGED <<boot, schedPaused, import>> /\ client[c].at = "counted"
    BY <1>6 DEF TriggerReserve, engVars
  <2> QED BY <2>1 DEF BootInv, PauseHeld, BootRunsAlone
<1>7. ASSUME NEW c \in Clients, TriggerCount(c) PROVE BootInv'
  <2>1. UNCHANGED <<boot, schedPaused, import, tick, pc, runTrigger>>
    BY <1>7 DEF TriggerCount, engVars, runVars
  <2>2. \A d \in Clients \ {c} : client'[d] = client[d]
    BY <1>7 DEF TriggerCount, Count, Goes, Ends, StateOK, ClientOK
  <2>3. ASSUME boot.at # "done" PROVE client'[c].at # "counted"
    <3>1. ~MayCount("manual")
      BY <2>3 DEF BootInv, PauseHeld, MayCount
    <3>2. client' = [client EXCEPT ![c] = Idle]
      BY <1>7, <3>1 DEF TriggerCount, Count, Ends
    <3> QED BY <1>0, <3>2 DEF StateOK, ClientOK
  <2> QED BY <2>1, <2>2, <2>3, BootClient
<1>8. ASSUME NEW c \in Clients,
             \/ CancelSnapshot(c) \/ CancelClaim(c) \/ CancelApply(c)
             \/ \E ok \in BOOLEAN : CancelHook(c, ok)
             \/ \E t \in Tasks : Trigger(c, t) \/ Cancel(c, t)
      PROVE  BootInv'
  <2>1. UNCHANGED <<boot, schedPaused, import, tick, pc, runTrigger>>
    BY <1>8 DEF CancelSnapshot, CancelClaim, CancelApply, CancelHook, Trigger, Cancel,
                engVars, runVars
  <2>2. \A d \in Clients \ {c} : client'[d] = client[d]
    BY <1>8 DEF CancelSnapshot, CancelClaim, CancelApply, CancelHook, Trigger, Cancel,
                Goes, Ends, StateOK, ClientOK
  <2>3. client'[c].at # "counted"
    <3>1. CASE CancelSnapshot(c)
      BY <1>0, <3>1 DEF CancelSnapshot, Ends, StateOK, ClientOK
    <3>2. CASE CancelClaim(c) \/ CancelApply(c) \/ \E ok \in BOOLEAN : CancelHook(c, ok)
      BY <1>0, <3>2 DEF CancelClaim, CancelApply, CancelHook, Goes, Ends, StateOK,
                        ClientOK, Thread
    <3>3. CASE \E t \in Tasks : Trigger(c, t) \/ Cancel(c, t)
      BY <3>3, IdleTyped DEF Trigger, Cancel, StateOK, ClientOK, Thread
    <3> QED BY <1>8, <3>1, <3>2, <3>3
  <2> QED BY <2>1, <2>2, <2>3, BootClient
<1>9. CASE \/ PauseScheduling \/ DrainSnapshot \/ (\E t \in Tasks : DrainVisit(t))
           \/ DrainCancel \/ DrainWalked \/ Drained \/ ResumeScheduling
  <2>1. boot.at = "done" /\ UNCHANGED boot
    BY <1>9 DEF PauseScheduling, DrainSnapshot, DrainVisit, DrainCancel, DrainWalked,
                Drained, ResumeScheduling, BootInv, PauseHeld
  <2>2. import'.at # "idle" => schedPaused'
    <3>1. CASE PauseScheduling
      BY <3>1 DEF PauseScheduling
    <3>2. CASE ResumeScheduling
      BY <1>0, <3>2 DEF ResumeScheduling
    <3>3. CASE \/ DrainSnapshot \/ (\E t \in Tasks : DrainVisit(t)) \/ DrainCancel
               \/ DrainWalked \/ Drained
      BY <3>3 DEF DrainSnapshot, DrainVisit, DrainCancel, DrainWalked, Drained, BootInv,
                  PauseHeld, engVars
    <3> QED BY <1>9, <3>1, <3>2, <3>3
  <2> QED BY <2>1, <2>2 DEF BootInv, PauseHeld, BootRunsAlone
<1>10. CASE SetRoleCancel \/ SetRoleReturn \/ Stop
  BY <1>1, <1>10 DEF SetRoleCancel, SetRoleReturn, Stop, engVars, runVars
<1>11. ASSUME NEW t \in Tasks, ReleaseCount(t) \/ SetRoleVisit(t) \/
    StopVisit(t) PROVE BootInv'
  BY <1>1, <1>11 DEF ReleaseCount, SetRoleVisit, StopVisit, engVars, runVars
<1>12. ASSUME NEW c \in Clients, NEW t \in Tasks, StartLoop(c, t) \/ StopLoop(c,
    t) PROVE BootInv'
  BY <1>1, <1>12 DEF StartLoop, StopLoop, engVars, runVars
<1>13. ASSUME NEW c \in Clients, NEW t \in Tasks, NEW hasWork \in BOOLEAN,
    RearmLoop(c, t, hasWork) PROVE BootInv'
  BY <1>1, <1>13 DEF RearmLoop, engVars, runVars
<1>14. ASSUME NEW isMaster \in BOOLEAN, SetRole(isMaster) PROVE BootInv'
  BY <1>1, <1>14 DEF SetRole, engVars, runVars
<1>15. CASE UNCHANGED vars
  BY <1>1, <1>15 DEF vars, engVars, runVars
<1> QED BY <1>2, <1>3, <1>4, <1>5, <1>6, <1>7, <1>8, <1>9, <1>10, <1>11,
           <1>12, <1>13, <1>14, <1>15
           DEF Next, RunStep, BootStep, TickStep, ClientStep, SetRoleStep,
               ImportStep, StopStep, Call

\* The initial states.
LEMMA BootInit == Init => BootInv
<1>1. Idle.at = "idle" /\ IdleWalk.at = "idle"
  BY DEF Idle, IdleWalk
<1>2. ASSUME Init PROVE BootInv
  <2>1. /\ \A c \in Clients : client[c].at = "idle"
        /\ schedPaused /\ import.at = "idle" /\ tick.at = "idle"
        /\ \A t \in Tasks : ~Running(t)
    BY <1>1, <1>2 DEF Init, Running
  <2> QED BY <2>1 DEF BootInv, PauseHeld, BootRunsAlone
<1> QED BY <1>2

(***************************************************************************)
(* BootRunsAlone holds for any set of boot tasks and of callers: no        *)
(* manual, periodic or scheduled run starts before RunBootSyncTasks is     *)
(* over, whoever calls in meanwhile.                                       *)
(***************************************************************************)
THEOREM BootAlone == Spec => []BootRunsAlone
<1>1. BootInv => BootRunsAlone
  BY DEF BootInv
<1> QED BY <1>1, InitTyped, BootInit, NextTyped, BootNext, PTL DEF Spec

-----------------------------------------------------------------------------
(***************************************************************************)
(* The counter is exact.                                                   *)
(***************************************************************************)
\* What inFlight counts: threads between the two sections of a reservation,
\* runs that hold their slot, and (see Leaving) runs that gave it back.
InClients == {c \in Clients : client[c].at = "counted"}
InTick == IF tick.at = "counted" THEN 1 ELSE 0
InBoot == IF boot.at = "counted" THEN 1 ELSE 0
InSlot == {t \in Tasks : Running(t)}

ExactInv == IsFiniteSet(Leaving) /\ InFlightExact

\* The counted sets are finite.
LEMMA CountedFinite ==
    /\ IsFiniteSet(InClients) /\ IsFiniteSet(InSlot)
    /\ Cardinality(InClients) \in Nat /\ Cardinality(InSlot) \in Nat
    /\ InTick \in Nat /\ InBoot \in Nat
<1>1. IsFiniteSet(Tasks) /\ IsFiniteSet(Clients)
  BY RunsAssumption
<1>2. IsFiniteSet(InClients)
  BY <1>1, FS_Subset DEF InClients
<1>3. IsFiniteSet(InSlot)
  BY <1>1, FS_Subset DEF InSlot
<1> QED BY <1>2, <1>3, FS_CardinalityType DEF InTick, InBoot

\* InFlightExact, by its five summands.
LEMMA Summands ==
    InFlightExact <=> inFlight = Cardinality(InClients) + InTick + InBoot
                                 + Cardinality(InSlot) + Cardinality(Leaving)
BY DEF InFlightExact, Counted, InClients, InTick, InBoot, InSlot
LEMMA SummandsNext ==
    InFlightExact' <=> inFlight' = Cardinality(InClients') + InTick' + InBoot'
                                   + Cardinality(InSlot') + Cardinality(Leaving')
BY DEF InFlightExact, Counted, InClients, InTick, InBoot, InSlot

\* Steps that change none of the five.
LEMMA ExactFrame ==
    ASSUME ExactInv, UNCHANGED <<inFlight, InClients, InTick, InBoot, InSlot, Leaving>>
    PROVE  ExactInv'
<1>1. inFlight = Cardinality(InClients) + InTick + InBoot
                 + Cardinality(InSlot) + Cardinality(Leaving)
  BY Summands DEF ExactInv
<1>2. inFlight' = Cardinality(InClients') + InTick' + InBoot'
                  + Cardinality(InSlot') + Cardinality(Leaving')
  BY <1>1
<1>3. InFlightExact'
  BY <1>2, SummandsNext
<1> QED BY <1>3 DEF ExactInv

\* The members of Leaving.
LEMMA LeavingMembers ==
    \A x : x \in Leaving <=> \E t \in Tasks : \E n \in 1..releasing[t] : x = <<t, n>>
BY DEF Leaving
LEMMA LeavingMembersNext ==
    \A x : x \in Leaving' <=> \E t \in Tasks : \E n \in 1..releasing'[t] : x = <<t, n>>
BY DEF Leaving

\* Leaving is a function of releasing, InSlot one of which slots are taken.
LEMMA SameLeaving == UNCHANGED releasing => Leaving' = Leaving
BY DEF Leaving
LEMMA SameSlots ==
    (\A t \in Tasks : pc'[t] = "none" <=> pc[t] = "none") => InSlot' = InSlot
BY DEF InSlot, Running

\* A reservation takes its task's slot, or gives the count back.
LEMMA ReserveExact ==
    ASSUME StateOK, inFlight \in Nat, NEW t \in Tasks, NEW trigger, Reserve(t, trigger)
    PROVE  /\ Leaving' = Leaving
           /\ \E k \in {0, 1} : /\ Cardinality(InSlot') = Cardinality(InSlot) + k
                                /\ inFlight' = inFlight + k - 1
<1>1. CASE UNCHANGED runVars /\ inFlight' = inFlight - 1
  <2>1. Leaving' = Leaving /\ InSlot' = InSlot
    BY <1>1, SameLeaving, SameSlots DEF runVars
  <2>2. Cardinality(InSlot) \in Nat
    BY CountedFinite
  <2>3. Cardinality(InSlot') = Cardinality(InSlot) + 0 /\ inFlight' = inFlight + 0 - 1
    <3>1. inFlight - 1 = inFlight + 0 - 1
      OBVIOUS
    <3> QED BY <1>1, <2>1, <2>2, <3>1
  <2> QED BY <2>1, <2>3
<1>2. CASE /\ ~Running(t) /\ UNCHANGED <<inFlight, releasing>>
           /\ pc' = [pc EXCEPT ![t] = "body"]
  <2>1. InSlot' = InSlot \cup {t} /\ t \notin InSlot
    BY <1>2 DEF InSlot, Running, StateOK, RunOK
  <2>2. Cardinality(InSlot') = Cardinality(InSlot) + 1
    BY <2>1, CountedFinite, FS_AddElement
  <2> QED BY <1>2, <2>2, SameLeaving
<1> QED BY <1>1, <1>2, ReserveEffect DEF StateOK

\* A run that frees its slot joins Leaving; the next step takes it out.
LEMMA LeavingGrows ==
    ASSUME StateOK, NEW t \in Tasks,
           releasing' = [releasing EXCEPT ![t] = releasing[t] + 1]
    PROVE  /\ <<t, releasing[t] + 1>> \notin Leaving
           /\ Leaving' = Leaving \cup {<<t, releasing[t] + 1>>}
<1>1. releasing \in [Tasks -> Nat]
  BY DEF StateOK, RunOK
<1>2. <<t, releasing[t] + 1>> \notin Leaving
  BY <1>1, LeavingMembers
<1>3. ASSUME NEW x \in Leaving' PROVE x \in Leaving \cup {<<t, releasing[t] + 1>>}
  <2>1. PICK s \in Tasks : \E n \in 1..releasing'[s] : x = <<s, n>>
    BY LeavingMembersNext
  <2>2. PICK n \in 1..releasing'[s] : x = <<s, n>>
    BY <2>1
  <2>3. n \in 1..releasing[s] \/ (s = t /\ n = releasing[t] + 1)
    BY <1>1
  <2> QED BY <2>2, <2>3, LeavingMembers
<1>4. ASSUME NEW x \in Leaving PROVE x \in Leaving'
  <2>1. PICK s \in Tasks : \E n \in 1..releasing[s] : x = <<s, n>>
    BY LeavingMembers
  <2>2. PICK n \in 1..releasing[s] : x = <<s, n>>
    BY <2>1
  <2>3. n \in 1..releasing'[s]
    BY <1>1
  <2> QED BY <2>2, <2>3, LeavingMembersNext
<1>5. <<t, releasing[t] + 1>> \in Leaving'
  <2>1. releasing[t] + 1 \in 1..releasing'[t]
    BY <1>1
  <2> QED BY <2>1, LeavingMembersNext
<1> QED BY <1>2, <1>3, <1>4, <1>5

LEMMA LeavingShrinks ==
    ASSUME StateOK, NEW t \in Tasks, releasing[t] > 0,
           releasing' = [releasing EXCEPT ![t] = releasing[t] - 1]
    PROVE  /\ <<t, releasing[t]>> \in Leaving
           /\ Leaving' = Leaving \ {<<t, releasing[t]>>}
<1>1. releasing \in [Tasks -> Nat]
  BY DEF StateOK, RunOK
<1>2. <<t, releasing[t]>> \in Leaving
  <2>1. releasing[t] \in 1..releasing[t]
    BY <1>1
  <2> QED BY <2>1, LeavingMembers
<1>3. ASSUME NEW x \in Leaving' PROVE x \in Leaving /\ x # <<t, releasing[t]>>
  <2>1. PICK s \in Tasks : \E n \in 1..releasing'[s] : x = <<s, n>>
    BY LeavingMembersNext
  <2>2. PICK n \in 1..releasing'[s] : x = <<s, n>>
    BY <2>1
  <2>3. n \in 1..releasing[s] /\ ~(s = t /\ n = releasing[t])
    BY <1>1
  <2> QED BY <2>2, <2>3, LeavingMembers
<1>4. ASSUME NEW x \in Leaving, x # <<t, releasing[t]>> PROVE x \in Leaving'
  <2>1. PICK s \in Tasks : \E n \in 1..releasing[s] : x = <<s, n>>
    BY LeavingMembers
  <2>2. PICK n \in 1..releasing[s] : x = <<s, n>>
    BY <2>1
  <2>3. n \in 1..releasing'[s]
    BY <1>1, <1>4, <2>2
  <2> QED BY <2>2, <2>3, LeavingMembersNext
<1> QED BY <1>2, <1>3, <1>4

\* The threads' summands depend on the threads only.
LEMMA SameThreads ==
    /\ UNCHANGED client => InClients' = InClients
    /\ UNCHANGED tick => InTick' = InTick
    /\ UNCHANGED boot => InBoot' = InBoot
BY DEF InClients, InTick, InBoot

\* A step of one client, by whether it is counted before and after.
LEMMA ClientMoves ==
    ASSUME NEW c \in Clients, \A d \in Clients \ {c} : client'[d] = client[d]
    PROVE  /\ (client[c].at = "counted" <=> client'[c].at = "counted")
                 => InClients' = InClients
           /\ client[c].at # "counted" /\ client'[c].at = "counted"
                 => Cardinality(InClients') = Cardinality(InClients) + 1
           /\ client[c].at = "counted" /\ client'[c].at # "counted"
                 => Cardinality(InClients') = Cardinality(InClients) - 1
<1>1. ASSUME client[c].at = "counted" <=> client'[c].at = "counted"
      PROVE  InClients' = InClients
  BY <1>1 DEF InClients
<1>2. ASSUME client[c].at # "counted", client'[c].at = "counted"
      PROVE  Cardinality(InClients') = Cardinality(InClients) + 1
  <2>1. InClients' = InClients \cup {c} /\ c \notin InClients
    BY <1>2 DEF InClients
  <2> QED BY <2>1, CountedFinite, FS_AddElement
<1>3. ASSUME client[c].at = "counted", client'[c].at # "counted"
      PROVE  Cardinality(InClients') = Cardinality(InClients) - 1
  <2>1. InClients' = InClients \ {c} /\ c \in InClients
    BY <1>3 DEF InClients
  <2> QED BY <2>1, CountedFinite, FS_RemoveElement
<1> QED BY <1>1, <1>2, <1>3

\* Every step keeps the counter exact.
LEMMA ExactNext == StateOK /\ ExactInv /\ [Next]_vars => ExactInv'
<1> SUFFICES ASSUME StateOK, ExactInv, [Next]_vars PROVE ExactInv'
  OBVIOUS
<1> DEFINE nC == Cardinality(InClients)
           nS == Cardinality(InSlot)
           nL == Cardinality(Leaving)
<1>0. /\ inFlight = nC + InTick + InBoot + nS + nL
      /\ nC \in Nat /\ nS \in Nat /\ nL \in Nat /\ InTick \in Nat /\ InBoot \in Nat
      /\ inFlight \in Nat /\ IsFiniteSet(Leaving) /\ IsFiniteSet(InSlot)
  <2>1. nL \in Nat
    BY FS_CardinalityType DEF ExactInv
  <2> QED BY <2>1, Summands, CountedFinite DEF ExactInv
<1>a. Idle.at = "idle" /\ IdleWalk.at = "idle"
  BY DEF Idle, IdleWalk
<1>1. ASSUME UNCHANGED <<inFlight, client, tick, boot, pc, releasing>> PROVE ExactInv'
  <2>1. UNCHANGED <<InClients, InTick, InBoot, InSlot, Leaving>>
    BY <1>1, SameThreads, SameSlots, SameLeaving
  <2> QED BY <1>1, <2>1, ExactFrame
<1>2. ASSUME NEW t \in Tasks, RunReturn(t) PROVE ExactInv'
  <2>1. \A x \in Tasks : pc'[x] = "none" <=> pc[x] = "none"
    BY <1>2 DEF RunReturn, StateOK, RunOK
  <2>2. UNCHANGED <<inFlight, InClients, InTick, InBoot, InSlot, Leaving>>
    BY <1>2, <2>1, SameThreads, SameSlots, SameLeaving DEF RunReturn
  <2> QED BY <2>2, ExactFrame
<1>3. ASSUME NEW t \in Tasks, Release(t) PROVE ExactInv'
  <2>1. InSlot' = InSlot \ {t} /\ t \in InSlot
    BY <1>3 DEF Release, InSlot, Running, StateOK, RunOK
  <2>2. Cardinality(InSlot') = nS - 1
    BY <1>0, <2>1, FS_RemoveElement
  <2>3. releasing' = [releasing EXCEPT ![t] = releasing[t] + 1]
    BY <1>3 DEF Release
  <2>4. /\ Leaving' = Leaving \cup {<<t, releasing[t] + 1>>}
        /\ <<t, releasing[t] + 1>> \notin Leaving
    BY <2>3, LeavingGrows
  <2>5. IsFiniteSet(Leaving') /\ Cardinality(Leaving') = nL + 1
    BY <1>0, <2>4, FS_AddElement
  <2>6. UNCHANGED <<inFlight, InClients, InTick, InBoot>>
    BY <1>3, SameThreads DEF Release
  <2>7. inFlight' = Cardinality(InClients') + InTick' + InBoot'
                    + Cardinality(InSlot') + Cardinality(Leaving')
    BY <1>0, <2>2, <2>5, <2>6
  <2> QED BY <2>5, <2>7, SummandsNext DEF ExactInv
<1>4. ASSUME NEW t \in Tasks, ReleaseCount(t) PROVE ExactInv'
  <2>1. releasing[t] > 0 /\ releasing' = [releasing EXCEPT ![t] = releasing[t] - 1]
    BY <1>4 DEF ReleaseCount
  <2>2. Leaving' = Leaving \ {<<t, releasing[t]>>} /\ <<t, releasing[t]>> \in Leaving
    BY <2>1, LeavingShrinks
  <2>3. IsFiniteSet(Leaving') /\ Cardinality(Leaving') = nL - 1
    BY <1>0, <2>2, FS_RemoveElement
  <2>4. UNCHANGED <<InClients, InTick, InBoot, InSlot>> /\ inFlight' = inFlight - 1
    BY <1>4, SameThreads, SameSlots DEF ReleaseCount
  <2>5. inFlight' = Cardinality(InClients') + InTick' + InBoot'
                    + Cardinality(InSlot') + Cardinality(Leaving')
    BY <1>0, <2>3, <2>4
  <2> QED BY <2>3, <2>5, SummandsNext DEF ExactInv
<1>5. CASE (\E t \in Tasks : BootPick(t)) \/ BootAwait \/ BootResume
  <2>1. UNCHANGED <<inFlight, client, tick, pc, releasing>>
    BY <1>5 DEF BootPick, BootAwait, BootResume, runVars
  <2>2. boot.at # "counted" /\ boot'.at # "counted"
    BY <1>5 DEF BootPick, BootAwait, BootResume, StateOK, WalkOK, Walker
  <2>3. InBoot' = InBoot
    BY <2>2 DEF InBoot
  <2> QED BY <2>1, <2>3, SameThreads, SameSlots, SameLeaving, ExactFrame
<1>6. CASE BootCount
  <2>1. UNCHANGED <<InClients, InTick, InSlot, Leaving>>
    BY <1>6, SameThreads, SameSlots, SameLeaving DEF BootCount, runVars
  <2>2. \/ inFlight' = inFlight + 1 /\ boot.at = "reserve" /\ boot'.at = "counted"
        \/ inFlight' = inFlight /\ boot.at = "reserve" /\ boot'.at = "pick"
    BY <1>6 DEF BootCount, Count, StateOK, WalkOK, Walker
  <2>3. inFlight' - InBoot' = inFlight - InBoot /\ InBoot' \in Nat /\ inFlight' \in Nat
    BY <1>0, <2>2 DEF InBoot
  <2>4. inFlight' = Cardinality(InClients') + InTick' + InBoot'
                    + Cardinality(InSlot') + Cardinality(Leaving')
    BY <1>0, <2>1, <2>3
  <2> QED BY <1>0, <2>1, <2>4, SummandsNext DEF ExactInv
<1>7. CASE BootReserve
  <2>1. boot.t \in Tasks /\ boot.at = "counted" /\ boot'.at = "await"
    BY <1>7 DEF BootReserve, StateOK, WalkOK, Walker
  <2>2. PICK k \in {0, 1} : /\ Cardinality(InSlot') = nS + k
                            /\ inFlight' = inFlight + k - 1 /\ Leaving' = Leaving
    BY <1>0, <1>7, <2>1, ReserveExact DEF BootReserve
  <2>3. InBoot = 1 /\ InBoot' = 0
    BY <2>1 DEF InBoot
  <2>4. UNCHANGED <<InClients, InTick>>
    BY <1>7, SameThreads DEF BootReserve
  <2>5. inFlight' = Cardinality(InClients') + InTick' + InBoot'
                    + Cardinality(InSlot') + Cardinality(Leaving')
    BY <1>0, <2>2, <2>3, <2>4
  <2> QED BY <1>0, <2>2, <2>5, SummandsNext DEF ExactInv
<1>8. CASE TickStart \/ (\E t \in Tasks : TickVisit(t)) \/ TickJudge \/ TickEnd
  <2>1. UNCHANGED <<inFlight, client, boot, pc, releasing>>
    BY <1>8 DEF TickStart, TickVisit, TickJudge, TickEnd, runVars
  <2>2. tick.at # "counted"
    BY <1>8 DEF TickStart, TickVisit, TickJudge, TickEnd
  <2>3. tick'.at # "counted"
    <3>1. CASE TickStart
      BY <3>1, IdleTyped DEF TickStart, Walker
    <3>2. CASE (\E t \in Tasks : TickVisit(t)) \/ TickJudge
      BY <3>2 DEF TickVisit, TickJudge, StateOK, WalkOK, Walker
    <3>3. CASE TickEnd
      BY <1>a, <3>3 DEF TickEnd
    <3> QED BY <1>8, <3>1, <3>2, <3>3
  <2>4. InTick' = InTick
    BY <2>2, <2>3 DEF InTick
  <2> QED BY <2>1, <2>4, SameThreads, SameSlots, SameLeaving, ExactFrame
<1>9. CASE TickCount
  <2>1. UNCHANGED <<InClients, InBoot, InSlot, Leaving>>
    BY <1>9, SameThreads, SameSlots, SameLeaving DEF TickCount, runVars
  <2>2. \/ inFlight' = inFlight + 1 /\ tick.at = "reserve" /\ tick'.at = "counted"
        \/ inFlight' = inFlight /\ tick.at = "reserve" /\ tick'.at = "walk"
    BY <1>9 DEF TickCount, Count, StateOK, WalkOK, Walker
  <2>3. inFlight' - InTick' = inFlight - InTick /\ InTick' \in Nat /\ inFlight' \in Nat
    BY <1>0, <2>2 DEF InTick
  <2>4. inFlight' = Cardinality(InClients') + InTick' + InBoot'
                    + Cardinality(InSlot') + Cardinality(Leaving')
    BY <1>0, <2>1, <2>3
  <2> QED BY <1>0, <2>1, <2>4, SummandsNext DEF ExactInv
<1>10. CASE TickReserve
  <2>1. tick.t \in Tasks /\ tick.at = "counted" /\ tick'.at = "walk"
    BY <1>10 DEF TickReserve, StateOK, WalkOK, Walker
  <2>2. PICK k \in {0, 1} : /\ Cardinality(InSlot') = nS + k
                            /\ inFlight' = inFlight + k - 1 /\ Leaving' = Leaving
    BY <1>0, <1>10, <2>1, ReserveExact DEF TickReserve
  <2>3. InTick = 1 /\ InTick' = 0
    BY <2>1 DEF InTick
  <2>4. UNCHANGED <<InClients, InBoot>>
    BY <1>10, SameThreads DEF TickReserve
  <2>5. inFlight' = Cardinality(InClients') + InTick' + InBoot'
                    + Cardinality(InSlot') + Cardinality(Leaving')
    BY <1>0, <2>2, <2>3, <2>4
  <2> QED BY <1>0, <2>2, <2>5, SummandsNext DEF ExactInv
<1>11. ASSUME NEW c \in Clients,
              \/ CancelSnapshot(c) \/ CancelClaim(c) \/ CancelApply(c)
              \/ \E ok \in BOOLEAN : CancelHook(c, ok)
              \/ \E t \in Tasks : Trigger(c, t) \/ Cancel(c, t)
       PROVE  ExactInv'
  <2>1. UNCHANGED <<inFlight, boot, tick, pc, releasing>>
    BY <1>11 DEF CancelSnapshot, CancelClaim, CancelApply, CancelHook, Trigger, Cancel,
                 runVars
  <2>2. \A d \in Clients \ {c} : client'[d] = client[d]
    BY <1>11 DEF CancelSnapshot, CancelClaim, CancelApply, CancelHook, Trigger, Cancel,
                 Goes, Ends, StateOK, ClientOK
  <2>3. client'[c].at # "counted"
    <3>1. CASE CancelSnapshot(c)
      BY <1>a, <3>1 DEF CancelSnapshot, Ends, StateOK, ClientOK
    <3>2. CASE CancelClaim(c) \/ CancelApply(c) \/ \E ok \in BOOLEAN : CancelHook(c, ok)
      BY <1>a, <3>2 DEF CancelClaim, CancelApply, CancelHook, Goes, Ends, StateOK,
                        ClientOK, Thread
    <3>3. CASE \E t \in Tasks : Trigger(c, t) \/ Cancel(c, t)
      BY <3>3, IdleTyped DEF Trigger, Cancel, StateOK, ClientOK, Thread
    <3> QED BY <1>11, <3>1, <3>2, <3>3
  <2>4. client[c].at # "counted"
    BY <1>11 DEF CancelSnapshot, CancelClaim, CancelApply, CancelHook, Trigger, Cancel,
                 MayCall
  <2>5. InClients' = InClients
    BY <2>2, <2>3, <2>4, ClientMoves
  <2> QED BY <2>1, <2>5, SameThreads, SameSlots, SameLeaving, ExactFrame
<1>12. ASSUME NEW c \in Clients, TriggerCount(c) PROVE ExactInv'
  <2>1. UNCHANGED <<InTick, InBoot, InSlot, Leaving>>
    BY <1>12, SameThreads, SameSlots, SameLeaving DEF TriggerCount, runVars
  <2>2. \A d \in Clients \ {c} : client'[d] = client[d]
    BY <1>12 DEF TriggerCount, Count, Goes, Ends, StateOK, ClientOK
  <2>3. /\ client[c].at = "reserve"
        /\ \/ inFlight' = inFlight + 1 /\ client'[c].at = "counted"
           \/ inFlight' = inFlight /\ client'[c].at # "counted"
    BY <1>12, <1>a DEF TriggerCount, Count, Goes, Ends, StateOK, ClientOK, Thread
  <2>4. \/ inFlight' = inFlight + 1 /\ Cardinality(InClients') = nC + 1
        \/ inFlight' = inFlight /\ Cardinality(InClients') = nC
    BY <2>2, <2>3, ClientMoves
  <2>5. inFlight' = Cardinality(InClients') + InTick' + InBoot'
                    + Cardinality(InSlot') + Cardinality(Leaving')
    BY <1>0, <2>1, <2>4
  <2> QED BY <1>0, <2>1, <2>5, SummandsNext DEF ExactInv
<1>13. ASSUME NEW c \in Clients, TriggerReserve(c) PROVE ExactInv'
  <2>1. /\ client[c].t \in Tasks /\ client[c].at = "counted"
        /\ client' = [client EXCEPT ![c] = Idle]
    BY <1>13 DEF TriggerReserve, Ends, StateOK, ClientOK, Thread
  <2>2. PICK k \in {0, 1} : /\ Cardinality(InSlot') = nS + k
                            /\ inFlight' = inFlight + k - 1 /\ Leaving' = Leaving
    BY <1>0, <1>13, <2>1, ReserveExact DEF TriggerReserve
  <2>3. client'[c].at # "counted" /\ \A d \in Clients \ {c} : client'[d] = client[d]
    BY <1>a, <2>1 DEF StateOK, ClientOK
  <2>4. Cardinality(InClients') = nC - 1
    BY <2>1, <2>3, ClientMoves
  <2>5. UNCHANGED <<InTick, InBoot>>
    BY <1>13, SameThreads DEF TriggerReserve
  <2>6. inFlight' = Cardinality(InClients') + InTick' + InBoot'
                    + Cardinality(InSlot') + Cardinality(Leaving')
    BY <1>0, <2>2, <2>4, <2>5
  <2> QED BY <1>0, <2>2, <2>6, SummandsNext DEF ExactInv
<1>14. CASE SetRoleCancel \/ SetRoleReturn \/ PauseScheduling \/ DrainSnapshot
    \/ DrainCancel \/ DrainWalked
  BY <1>1, <1>14 DEF SetRoleCancel, SetRoleReturn, PauseScheduling,
      DrainSnapshot, DrainCancel, DrainWalked, runVars
<1>15. CASE Drained \/ ResumeScheduling \/ Stop
  BY <1>1, <1>15 DEF Drained, ResumeScheduling, Stop, runVars
<1>16. ASSUME NEW t \in Tasks, SetRoleVisit(t) \/ DrainVisit(t) \/ StopVisit(t)
    PROVE ExactInv'
  BY <1>1, <1>16 DEF SetRoleVisit, DrainVisit, StopVisit, runVars
<1>17. ASSUME NEW c \in Clients, NEW t \in Tasks, StartLoop(c, t) \/ StopLoop(c,
    t) PROVE ExactInv'
  BY <1>1, <1>17 DEF StartLoop, StopLoop, runVars
<1>18. ASSUME NEW c \in Clients, NEW t \in Tasks, NEW hasWork \in BOOLEAN,
    RearmLoop(c, t, hasWork) PROVE ExactInv'
  BY <1>1, <1>18 DEF RearmLoop, runVars
<1>19. ASSUME NEW isMaster \in BOOLEAN, SetRole(isMaster) PROVE ExactInv'
  BY <1>1, <1>19 DEF SetRole, runVars
<1>20. CASE UNCHANGED vars
  BY <1>1, <1>20 DEF vars, runVars
<1> QED BY <1>2, <1>3, <1>4, <1>5, <1>6, <1>7, <1>8, <1>9, <1>10, <1>11,
           <1>12, <1>13, <1>14, <1>15, <1>16, <1>17, <1>18, <1>19, <1>20
           DEF Next, RunStep, BootStep, TickStep, ClientStep, SetRoleStep,
               ImportStep, StopStep, Call

\* The initial states.
LEMMA ExactInit == Init => ExactInv
<1> SUFFICES ASSUME Init PROVE ExactInv
  OBVIOUS
<1>1. Idle.at = "idle" /\ IdleWalk.at = "idle"
  BY DEF Idle, IdleWalk
<1>2. InClients = {}
  BY <1>1 DEF Init, InClients
<1>3. InSlot = {}
  BY DEF Init, InSlot, Running
<1>4. Leaving = {}
  <2>1. \A t \in Tasks : releasing[t] = 0
    BY DEF Init
  <2>2. \A t \in Tasks : \A n \in 1..releasing[t] : FALSE
    BY <2>1
  <2> QED BY <2>2, LeavingMembers
<1>5. InTick = 0
  BY <1>1 DEF Init, InTick
<1>6. InBoot = 0
  <2>1. boot = [at |-> "pick", todo |-> BootSync, flipped |-> FALSE,
                t |-> AnyTask, seq |-> 0]
    BY Zenon DEF Init, IdleWalk
  <2> QED BY <2>1 DEF InBoot
<1>7. inFlight = 0
  BY DEF Init
<1>8. IsFiniteSet({}) /\ Cardinality({}) = 0
  BY FS_EmptySet
<1>9. inFlight = Cardinality(InClients) + InTick + InBoot
                 + Cardinality(InSlot) + Cardinality(Leaving)
  BY <1>2, <1>3, <1>4, <1>5, <1>6, <1>7, <1>8
<1> QED BY <1>4, <1>8, <1>9, Summands DEF ExactInv

(***************************************************************************)
(* inFlight is exact for any number of tasks and callers, on every path of *)
(* reserveRunInternal and release.                                         *)
(***************************************************************************)
THEOREM CounterExact == Spec => []InFlightExact
<1>1. ExactInv => InFlightExact
  BY DEF ExactInv
<1> QED BY <1>1, InitTyped, ExactInit, NextTyped, ExactNext, PTL DEF Spec

\* What the counter says about the runs.
LEMMA ExactSays ==
    ASSUME StateOK, ExactInv
    PROVE  /\ inFlight \in Nat
           /\ inFlight = 0 => \A t \in Tasks : ~Running(t) /\ releasing[t] = 0
<1>1. /\ inFlight = Cardinality(InClients) + InTick + InBoot
                    + Cardinality(InSlot) + Cardinality(Leaving)
      /\ Cardinality(Leaving) \in Nat /\ IsFiniteSet(Leaving)
  BY Summands, FS_CardinalityType DEF ExactInv
<1>2. inFlight \in Nat
  BY <1>1, CountedFinite
<1>3. ASSUME inFlight = 0 PROVE \A t \in Tasks : ~Running(t) /\ releasing[t] = 0
  <2>1. Cardinality(InSlot) = 0 /\ Cardinality(Leaving) = 0
    BY <1>1, <1>3, CountedFinite
  <2>2. InSlot = {} /\ Leaving = {}
    BY <1>1, <2>1, CountedFinite, FS_EmptySet
  <2>3. ASSUME NEW t \in Tasks PROVE releasing[t] = 0
    <3>1. releasing[t] \in Nat
      BY DEF StateOK, RunOK
    <3>2. ASSUME releasing[t] # 0 PROVE FALSE
      <4>1. releasing[t] \in 1..releasing[t]
        BY <3>1, <3>2
      <4> QED BY <2>2, <4>1, LeavingMembers
    <3> QED BY <3>2
  <2> QED BY <2>2, <2>3 DEF InSlot
<1> QED BY <1>2, <1>3

(***************************************************************************)
(* The types, the counter's included: inFlight never goes below zero.      *)
(***************************************************************************)
THEOREM RunTypes == Spec => []TypeOK
<1>1. StateOK /\ ExactInv => TypeOK
  BY ExactSays DEF TypeOK, StateOK
<1> QED BY <1>1, InitTyped, ExactInit, NextTyped, ExactNext, PTL DEF Spec

-----------------------------------------------------------------------------
(***************************************************************************)
(* The import window is quiet.                                             *)
(***************************************************************************)
\* The counter stays at zero from the end of the drain to the resume.
WindowEmpty == import.at = "window" => inFlight = 0

\* Every step keeps it: the pause of the import refuses every count but that
\* of the boot runs, which are over.
LEMMA WindowNext ==
    StateOK /\ BootInv /\ ExactInv /\ WindowEmpty /\ [Next]_vars => WindowEmpty'
<1> SUFFICES ASSUME StateOK, BootInv, ExactInv, WindowEmpty, [Next]_vars
             PROVE  WindowEmpty'
  OBVIOUS
<1>0. inFlight \in Nat /\ (inFlight = 0 => \A t \in Tasks : releasing[t] = 0)
  BY ExactSays
<1>a. /\ InClients # {} => Cardinality(InClients) # 0
      /\ inFlight = Cardinality(InClients) + InTick + InBoot
                    + Cardinality(InSlot) + Cardinality(Leaving)
      /\ Cardinality(Leaving) \in Nat
  BY Summands, CountedFinite, FS_EmptySet, FS_CardinalityType DEF ExactInv
<1>b. ASSUME inFlight = 0
      PROVE  InClients = {} /\ InTick = 0 /\ InBoot = 0
  BY <1>a, <1>b, CountedFinite
<1>1. ASSUME UNCHANGED <<import, inFlight>> PROVE WindowEmpty'
  BY <1>1 DEF WindowEmpty
<1>2. ASSUME NEW t \in Tasks, ReleaseCount(t) PROVE WindowEmpty'
  BY <1>0, <1>2 DEF ReleaseCount, WindowEmpty
<1>3. CASE BootCount \/ BootReserve
  <2>1. import.at = "idle" /\ UNCHANGED import
    BY <1>3 DEF BootCount, BootReserve, BootInv, PauseHeld
  <2> QED BY <2>1 DEF WindowEmpty
<1>4. CASE TickCount
  <2>1. UNCHANGED import
    BY <1>4 DEF TickCount
  <2>2. ASSUME import.at = "window" PROVE inFlight' = inFlight
    <3>1. ~MayCount("auto")
      BY <2>2 DEF MayCount, BootInv, PauseHeld
    <3> QED BY <1>4, <3>1 DEF TickCount, Count
  <2> QED BY <2>1, <2>2 DEF WindowEmpty
<1>5. ASSUME NEW c \in Clients, TriggerCount(c) PROVE WindowEmpty'
  <2>1. UNCHANGED import
    BY <1>5 DEF TriggerCount
  <2>2. ASSUME import.at = "window" PROVE inFlight' = inFlight
    <3>1. ~MayCount("manual")
      BY <2>2 DEF MayCount, BootInv, PauseHeld
    <3> QED BY <1>5, <3>1 DEF TriggerCount, Count
  <2> QED BY <2>1, <2>2 DEF WindowEmpty
<1>6. ASSUME TickReserve \/ \E c \in Clients : TriggerReserve(c) PROVE WindowEmpty'
  <2>1. UNCHANGED import
    BY <1>6 DEF TickReserve, TriggerReserve
  <2>2. InTick = 1 \/ InClients # {}
    BY <1>6 DEF TickReserve, TriggerReserve, InTick, InClients
  <2>3. inFlight # 0
    BY <1>b, <2>2
  <2> QED BY <2>1, <2>3 DEF WindowEmpty
<1>7. CASE \/ PauseScheduling \/ DrainSnapshot \/ (\E t \in Tasks : DrainVisit(t))
           \/ DrainCancel \/ DrainWalked \/ Drained \/ ResumeScheduling
  <2>1. CASE Drained
    BY <2>1 DEF Drained, WindowEmpty
  <2>2. CASE PauseScheduling
    BY <2>2, IdleTyped DEF PauseScheduling, Walker, WindowEmpty
  <2>3. CASE ResumeScheduling
    BY <2>3 DEF ResumeScheduling, IdleWalk, WindowEmpty
  <2>4. CASE \/ DrainSnapshot \/ (\E t \in Tasks : DrainVisit(t)) \/ DrainCancel
             \/ DrainWalked
    BY <2>4 DEF DrainSnapshot, DrainVisit, DrainCancel, DrainWalked, StateOK, WalkOK,
                Walker, WindowEmpty
  <2> QED BY <1>7, <2>1, <2>2, <2>3, <2>4
<1>8. CASE BootAwait \/ BootResume \/ TickStart \/ TickJudge \/ TickEnd \/
    SetRoleCancel
  BY <1>1, <1>8 DEF BootAwait, BootResume, TickStart, TickJudge, TickEnd,
      SetRoleCancel
<1>9. CASE SetRoleReturn \/ Stop
  BY <1>1, <1>9 DEF SetRoleReturn, Stop
<1>10. ASSUME NEW t \in Tasks, RunReturn(t) \/ Release(t) \/ BootPick(t) \/
    TickVisit(t) \/ SetRoleVisit(t) \/ StopVisit(t) PROVE WindowEmpty'
  BY <1>1, <1>10 DEF RunReturn, Release, BootPick, TickVisit, SetRoleVisit,
      StopVisit
<1>11. ASSUME NEW c \in Clients, CancelSnapshot(c) \/ CancelClaim(c) \/
    CancelApply(c) PROVE WindowEmpty'
  BY <1>1, <1>11 DEF CancelSnapshot, CancelClaim, CancelApply
<1>12. ASSUME NEW c \in Clients, NEW t \in Tasks, Trigger(c, t) \/ Cancel(c, t)
    \/ StartLoop(c, t) \/ StopLoop(c, t) PROVE WindowEmpty'
  BY <1>1, <1>12 DEF Trigger, Cancel, StartLoop, StopLoop
<1>13. ASSUME NEW c \in Clients, NEW ok \in BOOLEAN, CancelHook(c, ok) PROVE
    WindowEmpty'
  BY <1>1, <1>13 DEF CancelHook
<1>14. ASSUME NEW c \in Clients, NEW t \in Tasks, NEW hasWork \in BOOLEAN,
    RearmLoop(c, t, hasWork) PROVE WindowEmpty'
  BY <1>1, <1>14 DEF RearmLoop
<1>15. ASSUME NEW isMaster \in BOOLEAN, SetRole(isMaster) PROVE WindowEmpty'
  BY <1>1, <1>15 DEF SetRole
<1>16. CASE UNCHANGED vars
  BY <1>1, <1>16 DEF vars
<1> QED BY <1>2, <1>3, <1>4, <1>5, <1>6, <1>7, <1>8, <1>9, <1>10, <1>11,
           <1>12, <1>13, <1>14, <1>15, <1>16
           DEF Next, RunStep, BootStep, TickStep, ClientStep, SetRoleStep,
               ImportStep, StopStep, Call

(***************************************************************************)
(* The import window is quiet for any number of tasks, callers and role    *)
(* flips: once WaitInFlightRuns has succeeded nothing runs, is being       *)
(* admitted or still writes until the session resumes scheduling.          *)
(***************************************************************************)
THEOREM WindowQuiet == Spec => []ImportWindowQuiet
<1>1. Init => WindowEmpty
  BY DEF Init, WindowEmpty
<1>2. StateOK /\ ExactInv /\ WindowEmpty => ImportWindowQuiet
  BY ExactSays DEF WindowEmpty, ImportWindowQuiet
<1> QED BY <1>1, <1>2, InitTyped, BootInit, ExactInit, NextTyped, BootNext,
           ExactNext, WindowNext, PTL DEF Spec

=============================================================================
