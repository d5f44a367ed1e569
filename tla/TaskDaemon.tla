----------------------------- MODULE TaskDaemon -----------------------------
(***************************************************************************)
(* The daemon half of the task engine (src/internal/taskengine/engine.go): *)
(* long-running tasks that the engine starts, cancels, restarts and heals  *)
(* while the cluster role flips, an operator starts and stops the loop, a  *)
(* Run body crashes and the whole engine stops.                            *)
(*                                                                         *)
(* Atomicity follows the locks.  A step is one critical section of r.mu    *)
(* (or e.mu + roleMu + r.mu in tryStartDaemon), one unlocked read of the   *)
(* role, or one call of a cancel function taken out of a critical section. *)
(*                                                                         *)
(* The context of the generation runSeq[d] is cancelled iff ctxDone[d]; a  *)
(* cancel function is the pair (task, generation) and does nothing once    *)
(* its generation is gone.                                                 *)
(*                                                                         *)
(* A definition whose name has an underscore is a defective variant of the *)
(* definition that follows it; the mutation runs put it in its place.      *)
(***************************************************************************)
EXTENDS Naturals

CONSTANTS
    Daemons,            \* the registered tasks of KindDaemon
    RunsOn,             \* Descriptor.RunsOn: any, master or slave
    RestartOnRoleFlip,  \* Descriptor.RestartOnRoleFlip
    MaxRestarts,        \* len(e.daemonRestartDelays): 3 in production
    Callers,            \* goroutines that may call StartLoop or StopLoop
    MaxCalls,           \* bound: calls of SetRole, StartLoop and StopLoop
    MaxFaults           \* bound: returns of Run without a cancelled context

ASSUME DaemonAssumption ==
    /\ Daemons # {}
    /\ RunsOn \in [Daemons -> {"any", "master", "slave"}]
    /\ RestartOnRoleFlip \in [Daemons -> BOOLEAN]
    /\ MaxRestarts \in Nat
    /\ MaxCalls \in Nat
    /\ MaxFaults \in Nat

VARIABLES
    role,             \* Engine.role: TRUE is master
    stopped,          \* Engine.stopped
    loopEnabled,      \* registration.loopEnabled
    pendingRestart,   \* registration.pendingRestart
    abnormalRestarts, \* registration.abnormalRestarts
    relaunchPending,  \* registration.relaunchPending
    restartExhausted, \* registration.restartExhausted
    runSeq,           \* registration.runSeq: the generation
    ctxDone,          \* the context of that generation is cancelled
    pc,               \* where that generation is
    branch,           \* the role its Run body read when it began
    exit,             \* what its exit path has computed so far
    tail,             \* goroutines past their cleanup, per kind
    setRole,          \* the thread inside SetRole
    caller,           \* the threads inside StartLoop or StopLoop
    calls, faults     \* how much of each bound is used

regVars == <<loopEnabled, pendingRestart, abnormalRestarts,
             relaunchPending, restartExhausted>>
genVars == <<runSeq, ctxDone, pc, branch, exit>>
bounds  == <<calls, faults>>
vars    == <<role, stopped, regVars, genVars, tail, setRole, caller, bounds>>

(***************************************************************************)
(* A generation: claimed by tryStartDaemon (starting), given up because    *)
(* the engine stopped (aborting), its goroutine spawned, its Run body      *)
(* running, Run returned, the role and stop flag snapshotted.  A tail is a *)
(* goroutine that has released the registration: about to restart the      *)
(* task (relaunch), about to arm the back-off timer (schedule), waiting    *)
(* for it (timer), or woken by it (fired).                                 *)
(***************************************************************************)
Phases    == {"none", "starting", "aborting", "spawned", "running",
              "returned", "snapped"}
TailKinds == {"relaunch", "schedule", "timer", "fired"}
NoExit    == [err |-> FALSE, abnormal |-> FALSE,
              allows |-> FALSE, stopped |-> FALSE]
AnyDaemon == CHOOSE d \in Daemons : TRUE
IdleSetRole == [at |-> "idle", todo |-> {}, flipped |-> FALSE,
                d |-> AnyDaemon, seq |-> 0]
IdleCaller  == [at |-> "idle", d |-> AnyDaemon, seq |-> 0, intent |-> FALSE]

\* Every variable has its type; the restart counter never exceeds its budget
\* (scheduleDaemonRelaunch, abnormalRestarts).
TypeOK ==
    /\ role \in BOOLEAN /\ stopped \in BOOLEAN
    /\ loopEnabled \in [Daemons -> BOOLEAN]
    /\ pendingRestart \in [Daemons -> BOOLEAN]
    /\ abnormalRestarts \in [Daemons -> 0..MaxRestarts]
    /\ relaunchPending \in [Daemons -> BOOLEAN]
    /\ restartExhausted \in [Daemons -> BOOLEAN]
    /\ runSeq \in [Daemons -> Nat]
    /\ ctxDone \in [Daemons -> BOOLEAN]
    /\ pc \in [Daemons -> Phases]
    /\ branch \in [Daemons -> BOOLEAN]
    /\ exit \in [Daemons -> [err : BOOLEAN, abnormal : BOOLEAN,
                             allows : BOOLEAN, stopped : BOOLEAN]]
    /\ tail \in [Daemons -> [TailKinds -> Nat]]
    /\ setRole \in [at : {"idle", "walk", "try", "cancel"},
                    todo : SUBSET Daemons, flipped : BOOLEAN,
                    d : Daemons, seq : Nat]
    /\ caller \in [Callers -> [at : {"idle", "start", "check", "try", "cancel"},
                               d : Daemons, seq : Nat, intent : BOOLEAN]]
    /\ calls \in 0..MaxCalls /\ faults \in 0..MaxFaults

Init ==
    /\ role = TRUE /\ stopped = FALSE
    /\ loopEnabled = [d \in Daemons |-> FALSE]
    /\ pendingRestart = [d \in Daemons |-> FALSE]
    /\ abnormalRestarts = [d \in Daemons |-> 0]
    /\ relaunchPending = [d \in Daemons |-> FALSE]
    /\ restartExhausted = [d \in Daemons |-> FALSE]
    /\ runSeq = [d \in Daemons |-> 0]
    /\ ctxDone = [d \in Daemons |-> FALSE]
    /\ pc = [d \in Daemons |-> "none"]
    /\ branch = [d \in Daemons |-> FALSE]
    /\ exit = [d \in Daemons |-> NoExit]
    /\ tail = [d \in Daemons |-> [k \in TailKinds |-> 0]]
    /\ setRole = IdleSetRole
    /\ caller = [c \in Callers |-> IdleCaller]
    /\ calls = 0 /\ faults = 0

-----------------------------------------------------------------------------
\* r.running: a generation holds the registration.
Running(d) == pc[d] # "none"

\* r.cancel # nil: registered in the critical section that sets running.
HasCancel_RegisteredLate(d) == pc[d] \notin {"none", "starting"}
HasCancel(d) == Running(d)

\* roleAllowsLocked
RoleAllows(d) ==
    CASE RunsOn[d] = "master" -> role
      [] RunsOn[d] = "slave"  -> ~role
      [] OTHER                -> TRUE

\* A generation gives the registration back; its locals die with it.
Release(d) ==
    /\ pc' = [pc EXCEPT ![d] = "none"]
    /\ ctxDone' = [ctxDone EXCEPT ![d] = FALSE]
    /\ branch' = [branch EXCEPT ![d] = FALSE]
    /\ exit' = [exit EXCEPT ![d] = NoExit]
    /\ UNCHANGED runSeq

\* Calling the cancel function that was registered for a generation.
CancelGen(d, seq) ==
    ctxDone' = [ctxDone EXCEPT ![d] = @ \/ (Running(d) /\ runSeq[d] = seq)]

\* The number of tails of kind k of d becomes n.
Tails(d, k, n) == [tail[d] EXCEPT ![k] = n]
AddTail(d, k) == tail' = [tail EXCEPT ![d] = Tails(d, k, tail[d][k] + 1)]
EndTail(d, k) == tail' = [tail EXCEPT ![d] = Tails(d, k, tail[d][k] - 1)]
MoveTail(d, from, to) ==
    tail' = [tail EXCEPT ![d] = [tail[d] EXCEPT ![from] = tail[d][from] - 1,
                                                ![to] = tail[d][to] + 1]]

(***************************************************************************)
(* tryStartDaemon up to the call of startDaemon: one critical section of   *)
(* e.mu, roleMu and r.mu.                                                  *)
(***************************************************************************)
MayStart_RoleNotRechecked(d) == ~stopped /\ loopEnabled[d]
MayStart(d) == ~stopped /\ RoleAllows(d) /\ loopEnabled[d]

Claim(d) ==
    /\ pc' = [pc EXCEPT ![d] = "starting"]
    /\ runSeq' = [runSeq EXCEPT ![d] = @ + 1]
    /\ ctxDone' = [ctxDone EXCEPT ![d] = FALSE]
    /\ UNCHANGED <<pendingRestart, branch, exit>>

\* A restart intent is kept for the generation that is on its way out.
KeepIntent_Dropped(d, restartIntent) == FALSE
KeepIntent(d, restartIntent) == restartIntent /\ HasCancel(d)

TryStartDaemon(d, restartIntent) ==
    \/ /\ MayStart(d) /\ ~Running(d)
       /\ Claim(d)
    \/ /\ MayStart(d) /\ Running(d)
       /\ pendingRestart' = [pendingRestart EXCEPT ![d] = @ \/ KeepIntent(d, restartIntent)]
       /\ UNCHANGED genVars
    \/ /\ ~MayStart(d)
       /\ UNCHANGED <<pendingRestart, genVars>>

(***************************************************************************)
(* startDaemon: the stop flag is read again before the goroutine is        *)
(* spawned; when the engine has stopped the claim is given back.           *)
(***************************************************************************)
StartDaemon_NoStopCheck(d) ==
    /\ pc[d] = "starting"
    /\ pc' = [pc EXCEPT ![d] = "spawned"]
    /\ UNCHANGED <<role, stopped, regVars, runSeq, ctxDone, branch, exit, tail,
                   setRole, caller, bounds>>
StartDaemon(d) ==
    /\ pc[d] = "starting"
    /\ \/ /\ ~stopped
          /\ pc' = [pc EXCEPT ![d] = "spawned"]
          /\ UNCHANGED ctxDone
       \/ /\ stopped
          /\ pc' = [pc EXCEPT ![d] = "aborting"]
          /\ ctxDone' = [ctxDone EXCEPT ![d] = TRUE]
    /\ UNCHANGED <<role, stopped, regVars, runSeq, branch, exit, tail,
                   setRole, caller, bounds>>

AbortStart(d) ==
    /\ pc[d] = "aborting"
    /\ Release(d)
    /\ UNCHANGED <<role, stopped, regVars, tail, setRole, caller, bounds>>

\* The Run body begins and picks its branch by IsMaster (clusterSyncDaemonRun).
RunBegin(d) ==
    /\ pc[d] = "spawned"
    /\ pc' = [pc EXCEPT ![d] = "running"]
    /\ branch' = [branch EXCEPT ![d] = role]
    /\ UNCHANGED <<role, stopped, regVars, runSeq, ctxDone, exit, tail,
                   setRole, caller, bounds>>

\* Run returns: because its context is cancelled, or by a fault (an error, a
\* panic caught by runGuarded, or a nil return nobody asked for).
RunReturn(d, err) ==
    /\ pc[d] = "running"
    /\ \/ ctxDone[d] /\ UNCHANGED faults
       \/ ~ctxDone[d] /\ faults < MaxFaults /\ faults' = faults + 1
    /\ pc' = [pc EXCEPT ![d] = "returned"]
    /\ exit' = [exit EXCEPT ![d] = [err |-> err, abnormal |-> err /\ ~ctxDone[d],
                                    allows |-> FALSE, stopped |-> FALSE]]
    /\ UNCHANGED <<role, stopped, regVars, runSeq, ctxDone, branch, tail,
                   setRole, caller, calls>>

\* The role and the stop flag are read before r.mu is taken: roleMu may not be
\* acquired inside it.
ExitSnapshot(d) ==
    /\ pc[d] = "returned"
    /\ pc' = [pc EXCEPT ![d] = "snapped"]
    /\ exit' = [exit EXCEPT ![d].allows = RoleAllows(d), ![d].stopped = stopped]
    /\ UNCHANGED <<role, stopped, regVars, runSeq, ctxDone, branch, tail,
                   setRole, caller, bounds>>

\* A further automatic restart is allowed after used consecutive ones.
BudgetLeft(used) == used < MaxRestarts

\* The r.mu section of the exit path.  longRun: the generation lived at least
\* daemonAbnormalResetAfter, which resets the restart budget.
ExitCleanup(d, longRun) ==
    LET x         == exit[d]
        on        == loopEnabled[d] /\ ~x.stopped /\ x.allows
        abnormal  == x.abnormal \/ (~x.err /\ ~ctxDone[d] /\ on)
        relaunch  == pendingRestart[d] /\ on /\ ~abnormal
        used      == IF longRun THEN 0 ELSE abnormalRestarts[d]
        mayHeal   == abnormal /\ on /\ ~relaunchPending[d]
        heal      == mayHeal /\ BudgetLeft(used)
        exhausted == mayHeal /\ ~BudgetLeft(used)
    IN  /\ pc[d] = "snapped"
        /\ longRun => abnormal
        /\ Release(d)
        /\ pendingRestart' = [pendingRestart EXCEPT ![d] = FALSE]
        /\ abnormalRestarts' = [abnormalRestarts EXCEPT
                                    ![d] = IF heal THEN used + 1 ELSE used]
        /\ relaunchPending' = [relaunchPending EXCEPT ![d] = @ \/ heal]
        /\ loopEnabled' = [loopEnabled EXCEPT ![d] = @ /\ ~exhausted]
        /\ restartExhausted' = [restartExhausted EXCEPT ![d] = @ \/ exhausted]
        /\ \/ relaunch /\ AddTail(d, "relaunch")
           \/ heal /\ AddTail(d, "schedule")
           \/ ~relaunch /\ ~heal /\ UNCHANGED tail
        /\ UNCHANGED <<role, stopped, setRole, caller, bounds>>

(***************************************************************************)
(* What a goroutine still does after it released the registration.         *)
(***************************************************************************)
\* The tryStartDaemon(r, false) of a consumed restart intent or of a timer.
Relaunch(d) ==
    /\ tail[d]["relaunch"] > 0
    /\ TryStartDaemon(d, FALSE)
    /\ EndTail(d, "relaunch")
    /\ UNCHANGED <<role, stopped, loopEnabled, abnormalRestarts,
                   relaunchPending, restartExhausted, setRole, caller, bounds>>

\* scheduleDaemonRelaunch up to the start of its timer goroutine.
ScheduleRelaunch(d) ==
    /\ tail[d]["schedule"] > 0
    /\ \/ /\ stopped
          /\ relaunchPending' = [relaunchPending EXCEPT ![d] = FALSE]
          /\ EndTail(d, "schedule")
       \/ /\ ~stopped
          /\ MoveTail(d, "schedule", "timer")
          /\ UNCHANGED relaunchPending
    /\ UNCHANGED <<role, stopped, loopEnabled, pendingRestart, abnormalRestarts,
                   restartExhausted, genVars, setRole, caller, bounds>>

\* The select of the timer goroutine: the timer, or schedStop once closed.
RelaunchTimer_FlagKept(d) ==
    /\ tail[d]["timer"] > 0
    /\ \/ MoveTail(d, "timer", "fired")
       \/ stopped /\ EndTail(d, "timer")
    /\ UNCHANGED <<role, stopped, regVars, genVars, setRole, caller, bounds>>
RelaunchTimer(d) ==
    /\ tail[d]["timer"] > 0
    /\ relaunchPending' = [relaunchPending EXCEPT ![d] = FALSE]
    /\ \/ MoveTail(d, "timer", "fired")
       \/ stopped /\ EndTail(d, "timer")
    /\ UNCHANGED <<role, stopped, loopEnabled, pendingRestart, abnormalRestarts,
                   restartExhausted, genVars, setRole, caller, bounds>>

\* The role check of the timer goroutine, outside any other lock.
RelaunchRoleCheck(d) ==
    /\ tail[d]["fired"] > 0
    /\ \/ RoleAllows(d) /\ MoveTail(d, "fired", "relaunch")
       \/ ~RoleAllows(d) /\ EndTail(d, "fired")
    /\ UNCHANGED <<role, stopped, regVars, genVars, setRole, caller, bounds>>

-----------------------------------------------------------------------------
(***************************************************************************)
(* SetRole.  Its callers (Promote, BecomeSlave, the role reconciler) hold  *)
(* ClusterService.roleMu, so one thread is inside at a time; the walk over *)
(* the registrations interleaves with everything else.                     *)
(***************************************************************************)
SetRole(isMaster) ==
    /\ setRole.at = "idle" /\ calls < MaxCalls
    /\ calls' = calls + 1
    /\ role' = isMaster
    /\ setRole' = [at |-> "walk", todo |-> Daemons,
                   flipped |-> role # isMaster, d |-> AnyDaemon, seq |-> 0]
    /\ UNCHANGED <<stopped, regVars, genVars, tail, caller, faults>>

\* The old generation of a task that branches on the role is replaced.
Renew_OnlyOnPromote(d) ==
    role /\ setRole.flipped /\ RestartOnRoleFlip[d] /\ HasCancel(d)
Renew(d) == setRole.flipped /\ RestartOnRoleFlip[d] /\ HasCancel(d)

\* One registration of the walk, up to the cancel or the tryStartDaemon call.
SetRoleVisit(d) ==
    /\ setRole.at = "walk" /\ d \in setRole.todo
    /\ LET goto(where) == setRole' = [at |-> where, todo |-> setRole.todo \ {d},
                                      flipped |-> setRole.flipped, d |-> d,
                                      seq |-> IF where = "cancel"
                                              THEN runSeq[d] ELSE 0]
       IN  \/ /\ RoleAllows(d) /\ Renew(d)
              /\ pendingRestart' = [pendingRestart EXCEPT ![d] = TRUE]
              /\ goto("cancel")
           \/ /\ RoleAllows(d) /\ ~Renew(d)
              /\ goto("try")
              /\ UNCHANGED pendingRestart
           \/ /\ ~RoleAllows(d)
              /\ goto(IF HasCancel(d) THEN "cancel" ELSE "walk")
              /\ UNCHANGED pendingRestart
    /\ UNCHANGED <<role, stopped, loopEnabled, abnormalRestarts, relaunchPending,
                   restartExhausted, genVars, tail, caller, bounds>>

SetRoleCancel ==
    /\ setRole.at = "cancel"
    /\ CancelGen(setRole.d, setRole.seq)
    /\ setRole' = [setRole EXCEPT !.at = "walk", !.seq = 0]
    /\ UNCHANGED <<role, stopped, regVars, runSeq, pc, branch, exit, tail,
                   caller, bounds>>

SetRoleTry ==
    /\ setRole.at = "try"
    /\ LET d == setRole.d
       IN  TryStartDaemon(d, setRole.flipped /\
                             (RestartOnRoleFlip[d] \/ RunsOn[d] # "any"))
    /\ setRole' = [setRole EXCEPT !.at = "walk"]
    /\ UNCHANGED <<role, stopped, loopEnabled, abnormalRestarts, relaunchPending,
                   restartExhausted, tail, caller, bounds>>

SetRoleReturn ==
    /\ setRole.at = "walk" /\ setRole.todo = {}
    /\ setRole' = IdleSetRole
    /\ UNCHANGED <<role, stopped, regVars, genVars, tail, caller, bounds>>

-----------------------------------------------------------------------------
\* Where a thread inside StartLoop or StopLoop is, and what it holds.
CallerGoes(c, where, d, seq, intent) ==
    caller' = [caller EXCEPT ![c] = [at |-> where, d |-> d, seq |-> seq,
                                     intent |-> intent]]

(***************************************************************************)
(* StartLoop: the stop check, the r.mu section, the unlocked role check    *)
(* and tryStartDaemon.                                                     *)
(***************************************************************************)
StartLoop(c, d) ==
    /\ caller[c].at = "idle" /\ calls < MaxCalls /\ ~stopped
    /\ calls' = calls + 1
    /\ CallerGoes(c, "start", d, 0, FALSE)
    /\ UNCHANGED <<role, stopped, regVars, genVars, tail, setRole, faults>>

StartLoopEnable(c) ==
    LET d     == caller[c].d
        wasOn == loopEnabled[d]
    IN  /\ caller[c].at = "start"
        /\ loopEnabled' = [loopEnabled EXCEPT ![d] = TRUE]
        /\ abnormalRestarts' = [abnormalRestarts EXCEPT
                                    ![d] = IF wasOn THEN @ ELSE 0]
        /\ relaunchPending' = [relaunchPending EXCEPT ![d] = @ /\ wasOn]
        /\ restartExhausted' = [restartExhausted EXCEPT ![d] = @ /\ wasOn]
        /\ CallerGoes(c, "check", d, 0, ~wasOn)
        /\ UNCHANGED <<role, stopped, pendingRestart, genVars, tail, setRole,
                       bounds>>

StartLoopRoleCheck(c) ==
    /\ caller[c].at = "check"
    /\ \/ /\ RoleAllows(caller[c].d)
          /\ CallerGoes(c, "try", caller[c].d, 0, caller[c].intent)
       \/ /\ ~RoleAllows(caller[c].d)
          /\ caller' = [caller EXCEPT ![c] = IdleCaller]
    /\ UNCHANGED <<role, stopped, regVars, genVars, tail, setRole, bounds>>

StartLoopTry(c) ==
    /\ caller[c].at = "try"
    /\ TryStartDaemon(caller[c].d, caller[c].intent)
    /\ caller' = [caller EXCEPT ![c] = IdleCaller]
    /\ UNCHANGED <<role, stopped, loopEnabled, abnormalRestarts, relaunchPending,
                   restartExhausted, tail, setRole, bounds>>

\* StopLoop: the r.mu section, then the cancel call outside it.
StopLoop(c, d) ==
    /\ caller[c].at = "idle" /\ calls < MaxCalls
    /\ calls' = calls + 1
    /\ loopEnabled' = [loopEnabled EXCEPT ![d] = FALSE]
    /\ restartExhausted' = [restartExhausted EXCEPT ![d] = FALSE]
    /\ \/ /\ HasCancel(d)
          /\ CallerGoes(c, "cancel", d, runSeq[d], FALSE)
       \/ ~HasCancel(d) /\ UNCHANGED caller
    /\ UNCHANGED <<role, stopped, pendingRestart, abnormalRestarts,
                   relaunchPending, genVars, tail, setRole, faults>>

StopLoopCancel(c) ==
    /\ caller[c].at = "cancel"
    /\ CancelGen(caller[c].d, caller[c].seq)
    /\ caller' = [caller EXCEPT ![c] = IdleCaller]
    /\ UNCHANGED <<role, stopped, regVars, runSeq, pc, branch, exit, tail,
                   setRole, bounds>>

\* The e.mu section of StopWithTimeout; it excludes every tryStartDaemon.
Stop_NobodyCancelled ==
    /\ ~stopped
    /\ stopped' = TRUE
    /\ UNCHANGED <<role, regVars, genVars, tail, setRole, caller, bounds>>
Stop ==
    /\ ~stopped
    /\ stopped' = TRUE
    /\ ctxDone' = [d \in Daemons |-> ctxDone[d] \/ HasCancel(d)]
    /\ UNCHANGED <<role, regVars, runSeq, pc, branch, exit, tail, setRole,
                   caller, bounds>>

-----------------------------------------------------------------------------
GoroutineStep(d) ==
    \/ StartDaemon(d) \/ AbortStart(d) \/ RunBegin(d)
    \/ ExitSnapshot(d) \/ \E longRun \in BOOLEAN : ExitCleanup(d, longRun)
TailStep(d) ==
    \/ Relaunch(d) \/ ScheduleRelaunch(d)
    \/ RelaunchTimer(d) \/ RelaunchRoleCheck(d)
SetRoleStep ==
    \/ \E d \in Daemons : SetRoleVisit(d)
    \/ SetRoleCancel \/ SetRoleTry \/ SetRoleReturn
CallerStep(c) ==
    \/ StartLoopEnable(c) \/ StartLoopRoleCheck(c) \/ StartLoopTry(c)
    \/ StopLoopCancel(c)

Next ==
    \/ \E d \in Daemons : GoroutineStep(d) \/ TailStep(d)
    \/ \E d \in Daemons, err \in BOOLEAN : RunReturn(d, err)
    \/ \E isMaster \in BOOLEAN : SetRole(isMaster)
    \/ SetRoleStep
    \/ \E c \in Callers : CallerStep(c)
    \/ \E c \in Callers, d \in Daemons : StartLoop(c, d) \/ StopLoop(c, d)
    \/ Stop

Spec == Init /\ [][Next]_vars

\* A goroutine that can run does run, a timer fires, and a Run body whose
\* context is cancelled returns.  Calls and faults are never forced.
Fairness ==
    /\ \A d \in Daemons :
          /\ WF_vars(GoroutineStep(d))
          /\ WF_vars(ctxDone[d] /\ \E err \in BOOLEAN : RunReturn(d, err))
          /\ WF_vars(Relaunch(d)) /\ WF_vars(ScheduleRelaunch(d))
          /\ WF_vars(RelaunchTimer(d)) /\ WF_vars(RelaunchRoleCheck(d))
    /\ WF_vars(SetRoleStep)
    /\ \A c \in Callers : WF_vars(CallerStep(c))

FairSpec == Spec /\ Fairness

-----------------------------------------------------------------------------
\* The generation may still be executing its Run body, now or later.
Live(d) == pc[d] \in {"starting", "spawned", "running"}

\* The thread inside SetRole will still cancel the current generation of d.
SetRoleCancels(d) ==
    \/ d \in setRole.todo
    \/ setRole.at = "cancel" /\ setRole.d = d /\ setRole.seq = runSeq[d]

\* A StopLoop holds the cancel function of the current generation of d.
StopLoopCancels(c, d) ==
    caller[c].at = "cancel" /\ caller[c].d = d /\ caller[c].seq = runSeq[d]

\* A StartLoop has set loopEnabled and is on its way into tryStartDaemon.
StartLoopArrives(c, d) ==
    caller[c].at \in {"check", "try"} /\ caller[c].d = d

(***************************************************************************)
(* A daemon never survives on a node whose role forbids it: whenever one   *)
(* is live there, its context is cancelled or the SetRole in progress is   *)
(* still going to cancel it.  This is what the role check inside the       *)
(* critical section of tryStartDaemon is for.                              *)
(***************************************************************************)
NoForbiddenDaemon ==
    \A d \in Daemons :
        Live(d) /\ ~RoleAllows(d) => ctxDone[d] \/ SetRoleCancels(d)

(***************************************************************************)
(* StopLoop is never lost: a live daemon whose loop is off is cancelled,   *)
(* or the StopLoop that turned it off holds the cancel function of exactly *)
(* this generation.  This is what registering running and cancel in the    *)
(* same critical section is for.                                           *)
(***************************************************************************)
StopLoopNotLost ==
    \A d \in Daemons :
        Live(d) /\ ~loopEnabled[d] =>
            ctxDone[d] \/ \E c \in Callers : StopLoopCancels(c, d)

(***************************************************************************)
(* A task that branches on the role (RestartOnRoleFlip, cluster-sync)      *)
(* never keeps working for the previous role: its Run body is on the       *)
(* branch of the current role, or it is being replaced.                    *)
(***************************************************************************)
BranchFollowsRole ==
    \A d \in Daemons :
        RestartOnRoleFlip[d] /\ pc[d] = "running" /\ branch[d] # role =>
            ctxDone[d] \/ SetRoleCancels(d)

\* What will bring d up again, or keep it up, with no further call.
WillRun(d) ==
    \/ Running(d) /\ ~ctxDone[d]
    \/ Running(d) /\ pendingRestart[d]
    \/ \E c \in Callers : StartLoopArrives(c, d)
    \/ \E k \in TailKinds : tail[d][k] > 0

(***************************************************************************)
(* A daemon that may run on either role is never forgotten: while its loop *)
(* is on and the engine has not stopped, it is up, or a restart intent, a  *)
(* back-off timer or a StartLoop on its way will start it.  Covers the     *)
(* pendingRestart, relaunchPending and RestartOnRoleFlip hand-overs.       *)
(***************************************************************************)
NoLostDaemon ==
    \A d \in Daemons :
        RunsOn[d] = "any" /\ loopEnabled[d] /\ ~stopped => WillRun(d)

(***************************************************************************)
(* The state the monitor shows as "self-healing exhausted" is final: the   *)
(* loop is off, nothing is running, and a back-off timer left over from    *)
(* before cannot bring the task back.  relaunchPending blocks a second     *)
(* timer only while a first one exists.                                    *)
(***************************************************************************)
ExhaustedIsFinal ==
    \A d \in Daemons :
        /\ restartExhausted[d] => ~loopEnabled[d] /\ ~Running(d)
        /\ relaunchPending[d] =>
              tail[d]["schedule"] > 0 \/ tail[d]["timer"] > 0

\* Goroutines the engine's daemonWG counts for d, apart from the tails.
Spawned(d) == pc[d] \in {"spawned", "running", "returned", "snapped"}

(***************************************************************************)
(* Once the engine has stopped no daemon goroutine is spawned, so the      *)
(* daemonWG.Wait of StopWithTimeout waits for everything there will be.    *)
(***************************************************************************)
StopSpawnsNothing ==
    [][stopped => \A d \in Daemons : Spawned(d)' => Spawned(d)]_vars

(***************************************************************************)
(* A daemon for any role whose loop is on ends up with an uncancelled Run  *)
(* body, unless the loop is turned off or the engine stops.                *)
(***************************************************************************)
EnabledDaemonRuns ==
    \A d \in Daemons : RunsOn[d] = "any" =>
        (loopEnabled[d] /\ ~stopped ~>
            \/ ~loopEnabled[d] \/ stopped
            \/ pc[d] = "running" /\ ~ctxDone[d])

(***************************************************************************)
(* Stopping the engine drains it: every generation ends and every pending  *)
(* relaunch gives up, so StopWithTimeout returns without its timeout.      *)
(***************************************************************************)
StopSettles ==
    stopped ~> \A d \in Daemons :
        ~Running(d) /\ \A k \in TailKinds : tail[d][k] = 0

-----------------------------------------------------------------------------
(***************************************************************************)
(* Strengthenings that make the invariants above inductive; the proofs of  *)
(* TaskDaemonProofs rest on them.                                          *)
(***************************************************************************)
\* Only a walk that flips the role replaces a generation, and the walk of a
\* finished SetRole leaves nothing to do.
BranchInv ==
    /\ setRole.at = "idle" => setRole.todo = {}
    /\ \A d \in Daemons :
          RestartOnRoleFlip[d] /\ pc[d] = "running" /\ branch[d] # role =>
              \/ ctxDone[d]
              \/ d \in setRole.todo /\ setRole.flipped
              \/ setRole.at = "cancel" /\ setRole.d = d
                                      /\ setRole.seq = runSeq[d]

\* A StartLoop that turned the loop on is on its way into tryStartDaemon.
IntentArrives(d) ==
    \E c \in Callers : StartLoopArrives(c, d) /\ caller[c].intent

\* A cancel function belongs to a generation that exists or existed.
SeqBound ==
    /\ setRole.seq <= runSeq[setRole.d]
    /\ \A c \in Callers : caller[c].seq <= runSeq[caller[c].d]

\* Whoever cancels a daemon of either role whose loop is on has left, or is
\* about to leave, a restart intent; and what the exit path has read still
\* tells a fault from a cancellation.
RestartCovered(d) ==
    /\ /\ Running(d) /\ loopEnabled[d] /\ ~stopped
       /\ ctxDone[d] \/ \E c \in Callers : StopLoopCancels(c, d)
       => pendingRestart[d] \/ IntentArrives(d)
    /\ Running(d) /\ setRole.at = "cancel" /\ setRole.d = d
                  /\ setRole.seq = runSeq[d] => pendingRestart[d]
    /\ pc[d] = "snapped" => exit[d].allows /\ (exit[d].stopped => stopped)
    /\ pc[d] \in {"returned", "snapped"} /\ exit[d].err /\ ~exit[d].abnormal =>
          ctxDone[d]
    /\ pc[d] = "aborting" => stopped

LostInv ==
    /\ SeqBound
    /\ \A d \in Daemons : RunsOn[d] = "any" => RestartCovered(d)

=============================================================================
