------------------------------ MODULE TaskRuns ------------------------------
(***************************************************************************)
(* The run half of the task engine (src/internal/taskengine/engine.go):    *)
(* tasks of kind Scheduled, Periodic and Oneshot, whose Run body is one    *)
(* bounded execution.  The module covers admission (reserveRunInternal),   *)
(* the single-flight slot, user cancellation with its hook, the drain a    *)
(* configuration import performs before it replaces the database, the      *)
(* boot-time runs, the role flip and the stop of the engine.               *)
(*                                                                         *)
(* When a scheduled task is due is the subject of TaskSlots; here a tick   *)
(* finds a task due or not at random.                                      *)
(*                                                                         *)
(* A step is one critical section of e.mu or r.mu, one unlocked read, or   *)
(* one call of a cancel function taken out of a critical section.  A       *)
(* cancel function is the pair (task, generation) and does nothing once    *)
(* its generation is gone.  Underscored names are defective variants.      *)
(***************************************************************************)
EXTENDS Naturals, FiniteSets

CONSTANTS
    Tasks,       \* registered tasks that are not daemons
    Kind,        \* Descriptor.Kind: scheduled, periodic or oneshot
    RunsOn,      \* Descriptor.RunsOn: any, master or slave
    BootSync,    \* the Oneshot tasks run before the panel listens
    Cancelable,  \* the tasks with Descriptor.Cancelable
    HasHook,     \* the tasks with a CancelHook
    Clients,     \* goroutines of the panel and of services that call in
    MaxCalls,    \* bound: calls of the clients, SetRole and imports
    MaxTicks     \* bound: ticks of the scheduling loop

ASSUME RunsAssumption ==
    /\ Tasks # {} /\ IsFiniteSet(Tasks) /\ IsFiniteSet(Clients)
    /\ Kind \in [Tasks -> {"scheduled", "periodic", "oneshot"}]
    /\ RunsOn \in [Tasks -> {"any", "master", "slave"}]
    /\ BootSync \subseteq {t \in Tasks : Kind[t] = "oneshot" /\ RunsOn[t] = "any"}
    /\ Cancelable \subseteq Tasks /\ HasHook \subseteq Cancelable
    /\ MaxCalls \in Nat /\ MaxTicks \in Nat

VARIABLES
    role,        \* Engine.role: TRUE is master
    stopped,     \* Engine.stopped
    stopTodo,    \* registrations StopWithTimeout has not visited yet
    schedPaused, \* Engine.schedPaused
    inFlight,    \* Engine.inFlight (runWG moves with it)
    loopEnabled, \* registration.loopEnabled
    beat,        \* registration.lastCheck is not zero
    runSeq,      \* registration.runSeq
    runTrigger,  \* registration.runTrigger
    hookRunning, \* registration.cancelHookRunning
    pc,          \* where the current generation is
    ctx,         \* its context: live, or cancelled and by whom
    releasing,   \* generations that freed the slot but are still counted
    boot,        \* the thread inside RunBootSyncTasks
    tick,        \* the scheduling goroutine
    client,      \* the goroutines of Clients
    setRole,     \* the thread inside SetRole
    import,      \* the thread that prepares a configuration import
    calls, ticks \* how much of each bound is used

engVars  == <<role, stopped, stopTodo, schedPaused>>
taskVars == <<loopEnabled, beat>>
runVars  == <<runSeq, runTrigger, hookRunning, pc, ctx, releasing>>
bounds   == <<calls, ticks>>
vars     == <<engVars, inFlight, taskVars, runVars, boot, tick, client,
              setRole, import, bounds>>

AnyTask == CHOOSE t \in Tasks : TRUE
Triggers == {"", "auto", "manual", "startup"}
Thread(places) == [at : places, t : Tasks, seq : Nat, trig : Triggers]
Walker(places) == [at : places, todo : SUBSET Tasks, flipped : BOOLEAN,
                   t : Tasks, seq : Nat]
Idle == [at |-> "idle", t |-> AnyTask, seq |-> 0, trig |-> ""]
IdleWalk == [at |-> "idle", todo |-> {}, flipped |-> FALSE,
             t |-> AnyTask, seq |-> 0]

EngOK == role \in BOOLEAN /\ stopped \in BOOLEAN /\ schedPaused \in BOOLEAN
         /\ stopTodo \subseteq Tasks
TaskOK == loopEnabled \in [Tasks -> BOOLEAN] /\ beat \in [Tasks -> BOOLEAN]
RunOK ==
    /\ runSeq \in [Tasks -> Nat] /\ runTrigger \in [Tasks -> Triggers]
    /\ hookRunning \in [Tasks -> BOOLEAN]
    /\ pc \in [Tasks -> {"none", "body", "returned"}]
    /\ ctx \in [Tasks -> {"live", "system", "user"}]
    /\ releasing \in [Tasks -> Nat]
ClientOK ==
    client \in [Clients -> Thread({"idle", "reserve", "counted", "snap",
                                   "claim", "hook", "apply"})]
WalkOK ==
    /\ boot \in Walker({"pick", "reserve", "counted", "await", "done"})
    /\ tick \in Walker({"idle", "walk", "checked", "reserve", "counted"})
    /\ setRole \in Walker({"idle", "walk", "cancel"})
    /\ import \in Walker({"idle", "walk", "cancel", "wait", "window"})
BoundOK == calls \in 0..MaxCalls /\ ticks \in 0..MaxTicks

\* Every variable has its type; the in-flight counter never goes below zero
\* (runReservation.release).
TypeOK ==
    EngOK /\ TaskOK /\ RunOK /\ ClientOK /\ WalkOK /\ BoundOK /\ inFlight \in Nat

\* InitTaskEngine: NewEngine with StartPaused, then RunBootSyncTasks.
Init ==
    /\ role = TRUE /\ stopped = FALSE /\ stopTodo = {} /\ schedPaused = TRUE
    /\ inFlight = 0
    /\ loopEnabled = [t \in Tasks |-> Kind[t] # "oneshot"]
    /\ beat = [t \in Tasks |-> FALSE]
    /\ runSeq = [t \in Tasks |-> 0] /\ runTrigger = [t \in Tasks |-> ""]
    /\ hookRunning = [t \in Tasks |-> FALSE]
    /\ pc = [t \in Tasks |-> "none"] /\ ctx = [t \in Tasks |-> "live"]
    /\ releasing = [t \in Tasks |-> 0]
    /\ boot = [IdleWalk EXCEPT !.at = "pick", !.todo = BootSync]
    /\ tick = IdleWalk /\ client = [c \in Clients |-> Idle]
    /\ setRole = IdleWalk /\ import = IdleWalk
    /\ calls = 0 /\ ticks = 0

-----------------------------------------------------------------------------
\* r.running, which is also r.cancel # nil.
Running(t) == pc[t] # "none"

RoleAllows(t) ==
    CASE RunsOn[t] = "master" -> role
      [] RunsOn[t] = "slave"  -> ~role
      [] OTHER                -> TRUE

\* The cancel function of generation seq of t, called with cause why.
CancelGen(t, seq, why) ==
    ctx' = [ctx EXCEPT ![t] = IF Running(t) /\ runSeq[t] = seq /\ @ = "live"
                              THEN why ELSE @]

\* The first section of reserveRunInternal lets a request in: the stop and
\* pause flags are read under the e.mu that PauseScheduling also takes.
MayCount_PauseReadEarlier(trigger) == ~stopped
MayCount(trigger) == ~stopped /\ (schedPaused => trigger = "startup")

\* Its second section: the role, the single-flight slot, the cancel hook and
\* (for the tick) the loop switch, all under roleMu and r.mu.
MayAdmit_RoleReadEarlier(t, trigger) ==
    ~Running(t) /\ ~hookRunning[t] /\ (trigger = "auto" => loopEnabled[t])
MayAdmit_HookIgnored(t, trigger) ==
    RoleAllows(t) /\ ~Running(t) /\ (trigger = "auto" => loopEnabled[t])
MayAdmit(t, trigger) ==
    /\ RoleAllows(t) /\ ~Running(t) /\ ~hookRunning[t]
    /\ trigger = "auto" => loopEnabled[t]

\* stopAfterRegister: a run registered behind the stop walk is born cancelled.
FirstContext_StopNotReread == "live"
FirstContext == IF stopped THEN "system" ELSE "live"

Admit(t, trigger) ==
    /\ pc' = [pc EXCEPT ![t] = "body"]
    /\ runSeq' = [runSeq EXCEPT ![t] = @ + 1]
    /\ runTrigger' = [runTrigger EXCEPT ![t] = trigger]
    /\ ctx' = [ctx EXCEPT ![t] = FirstContext]
    /\ beat' = [beat EXCEPT ![t] = @ \/ (trigger = "auto" /\ Kind[t] = "periodic")]
    /\ UNCHANGED <<inFlight, hookRunning, releasing, loopEnabled>>

\* Both sections of reserveRunInternal for a thread that then goes to one of
\* two places; a rejected request gives its count back.
Count(trigger, in, out) ==
    \/ MayCount(trigger) /\ inFlight' = inFlight + 1 /\ in
    \/ ~MayCount(trigger) /\ UNCHANGED inFlight /\ out
Reserve_CountKeptOnReject(t, trigger) ==
    \/ MayAdmit(t, trigger) /\ Admit(t, trigger)
    \/ /\ ~MayAdmit(t, trigger)
       /\ UNCHANGED <<inFlight, runVars, taskVars>>
Reserve(t, trigger) ==
    \/ MayAdmit(t, trigger) /\ Admit(t, trigger)
    \/ /\ ~MayAdmit(t, trigger)
       /\ inFlight' = inFlight - 1
       /\ UNCHANGED <<runVars, taskVars>>

(***************************************************************************)
(* A run: the body returns (on its own, or because its context is          *)
(* cancelled), release frees the slot, and only then drops the count.      *)
(***************************************************************************)
RunReturn(t) ==
    /\ pc[t] = "body"
    /\ pc' = [pc EXCEPT ![t] = "returned"]
    /\ UNCHANGED <<engVars, inFlight, taskVars, runSeq, runTrigger, hookRunning,
                   ctx, releasing, boot, tick, client, setRole, import, bounds>>

Release(t) ==
    /\ pc[t] = "returned"
    /\ pc' = [pc EXCEPT ![t] = "none"]
    /\ runTrigger' = [runTrigger EXCEPT ![t] = ""]
    /\ ctx' = [ctx EXCEPT ![t] = "live"]
    /\ releasing' = [releasing EXCEPT ![t] = @ + 1]
    /\ UNCHANGED <<engVars, inFlight, taskVars, runSeq, hookRunning, boot, tick,
                   client, setRole, import, bounds>>

ReleaseCount(t) ==
    /\ releasing[t] > 0
    /\ releasing' = [releasing EXCEPT ![t] = @ - 1]
    /\ inFlight' = inFlight - 1
    /\ UNCHANGED <<engVars, taskVars, runSeq, runTrigger, hookRunning, pc, ctx,
                   boot, tick, client, setRole, import, bounds>>

(***************************************************************************)
(* RunBootSyncTasks, one task after the other through runNow, and the      *)
(* ResumeScheduling that ends the assembly.                                *)
(***************************************************************************)
BootPick(t) ==
    /\ boot.at = "pick" /\ t \in boot.todo
    /\ boot' = [boot EXCEPT !.at = "reserve", !.todo = @ \ {t}, !.t = t]
    /\ UNCHANGED <<engVars, inFlight, taskVars, runVars, tick, client, setRole,
                   import, bounds>>
BootCount ==
    /\ boot.at = "reserve"
    /\ Count("startup", boot' = [boot EXCEPT !.at = "counted"],
                        boot' = [boot EXCEPT !.at = "pick"])
    /\ UNCHANGED <<engVars, taskVars, runVars, tick, client, setRole, import,
                   bounds>>
BootReserve ==
    /\ boot.at = "counted"
    /\ Reserve(boot.t, "startup")
    /\ boot' = [boot EXCEPT !.at = "await"]
    /\ UNCHANGED <<engVars, tick, client, setRole, import, bounds>>
BootAwait ==
    /\ boot.at = "await" /\ ~Running(boot.t) /\ releasing[boot.t] = 0
    /\ boot' = [boot EXCEPT !.at = "pick"]
    /\ UNCHANGED <<engVars, inFlight, taskVars, runVars, tick, client, setRole,
                   import, bounds>>
BootResume ==
    /\ boot.at = "pick" /\ boot.todo = {}
    /\ boot' = [boot EXCEPT !.at = "done"]
    /\ schedPaused' = FALSE
    /\ UNCHANGED <<role, stopped, stopTodo, inFlight, taskVars, runVars, tick,
                   client, setRole, import, bounds>>

(***************************************************************************)
(* tick.  The pause flag is read once for the whole walk; a task's checks  *)
(* are repeated by its reservation.                                        *)
(***************************************************************************)
TickStart ==
    /\ tick.at = "idle" /\ ~stopped /\ ~schedPaused /\ ticks < MaxTicks
    /\ ticks' = ticks + 1
    /\ tick' = [IdleWalk EXCEPT !.at = "walk",
                                !.todo = {t \in Tasks : Kind[t] # "oneshot"}]
    /\ UNCHANGED <<engVars, inFlight, taskVars, runVars, boot, client, setRole,
                   import, calls>>

TickVisit(t) ==
    /\ tick.at = "walk" /\ t \in tick.todo
    /\ tick' = [tick EXCEPT !.todo = @ \ {t}, !.t = t,
                            !.at = IF loopEnabled[t] /\ ~Running(t) /\ RoleAllows(t)
                                   THEN "checked" ELSE "walk"]
    /\ UNCHANGED <<engVars, inFlight, taskVars, runVars, boot, client, setRole,
                   import, bounds>>

\* EnabledFn is false (the periodic beat is forgotten), IntervalFn is not
\* positive (the loop is turned off), the task is not due, or it is.
TickJudge ==
    LET t == tick.t
        skip == tick' = [tick EXCEPT !.at = "walk"]
        periodic == Kind[t] = "periodic"
    IN  /\ tick.at = "checked"
        /\ \/ /\ beat' = [beat EXCEPT ![t] = @ /\ ~periodic]
              /\ UNCHANGED loopEnabled /\ skip
           \/ /\ periodic
              /\ loopEnabled' = [loopEnabled EXCEPT ![t] = FALSE]
              /\ beat' = [beat EXCEPT ![t] = FALSE]
              /\ skip
           \/ UNCHANGED taskVars /\ skip
           \/ /\ loopEnabled[t] /\ ~Running(t)
              /\ tick' = [tick EXCEPT !.at = "reserve"]
              /\ UNCHANGED taskVars
        /\ UNCHANGED <<engVars, inFlight, runVars, boot, client, setRole,
                       import, bounds>>

TickCount ==
    /\ tick.at = "reserve"
    /\ Count("auto", tick' = [tick EXCEPT !.at = "counted"],
                     tick' = [tick EXCEPT !.at = "walk"])
    /\ UNCHANGED <<engVars, taskVars, runVars, boot, client, setRole, import,
                   bounds>>
TickReserve ==
    /\ tick.at = "counted"
    /\ Reserve(tick.t, "auto")
    /\ tick' = [tick EXCEPT !.at = "walk"]
    /\ UNCHANGED <<engVars, boot, client, setRole, import, bounds>>
TickEnd ==
    /\ tick.at = "walk" /\ tick.todo = {}
    /\ tick' = IdleWalk
    /\ UNCHANGED <<engVars, inFlight, taskVars, runVars, boot, client, setRole,
                   import, bounds>>

-----------------------------------------------------------------------------
\* A call from the panel or from a background service; services may call
\* while the assembly still runs.
MayCall(c) == client[c].at = "idle" /\ calls < MaxCalls

Goes(c, where) == client' = [client EXCEPT ![c].at = where]
Ends(c) == client' = [client EXCEPT ![c] = Idle]

\* RunAsyncResult; RunSync adds early reads of the pause flag and the role.
Trigger(c, t) ==
    /\ MayCall(c) /\ calls' = calls + 1
    /\ client' = [client EXCEPT ![c] = [Idle EXCEPT !.at = "reserve", !.t = t]]
    /\ UNCHANGED <<engVars, inFlight, taskVars, runVars, boot, tick, setRole,
                   import, ticks>>
TriggerCount(c) ==
    /\ client[c].at = "reserve"
    /\ Count("manual", Goes(c, "counted"), Ends(c))
    /\ UNCHANGED <<engVars, taskVars, runVars, boot, tick, setRole, import,
                   bounds>>
TriggerReserve(c) ==
    /\ client[c].at = "counted"
    /\ Reserve(client[c].t, "manual")
    /\ Ends(c)
    /\ UNCHANGED <<engVars, boot, tick, setRole, import, bounds>>

(***************************************************************************)
(* Cancel: the snapshot of the generation, the claim of the hook, the hook *)
(* itself (which may take long, and may refuse), and the cancellation      *)
(* under a re-check of the generation.                                     *)
(***************************************************************************)
Cancel(c, t) ==
    /\ MayCall(c) /\ t \in Cancelable /\ RoleAllows(t)
    /\ calls' = calls + 1
    /\ client' = [client EXCEPT ![c] = [Idle EXCEPT !.at = "snap", !.t = t]]
    /\ UNCHANGED <<engVars, inFlight, taskVars, runVars, boot, tick, setRole,
                   import, ticks>>

CancelSnapshot(c) ==
    LET t == client[c].t
    IN  /\ client[c].at = "snap"
        /\ \/ /\ t \in HasHook \/ Running(t)
              /\ client' = [client EXCEPT ![c] =
                    [at |-> IF t \in HasHook THEN "claim" ELSE "apply",
                     t |-> t, seq |-> runSeq[t], trig |-> runTrigger[t]]]
           \/ t \notin HasHook /\ ~Running(t) /\ Ends(c)
        /\ UNCHANGED <<engVars, inFlight, taskVars, runVars, boot, tick, setRole,
                       import, bounds>>

\* The generation the client saw is still the one that runs.
SameRun(c) ==
    /\ Running(client[c].t) /\ runSeq[client[c].t] = client[c].seq
    /\ client[c].t \in HasHook => runTrigger[client[c].t] = client[c].trig

CancelClaim(c) ==
    LET t == client[c].t
    IN  /\ client[c].at = "claim"
        /\ \/ /\ SameRun(c) /\ ~hookRunning[t]
              /\ hookRunning' = [hookRunning EXCEPT ![t] = TRUE]
              /\ Goes(c, "hook")
           \/ ~(SameRun(c) /\ ~hookRunning[t]) /\ Ends(c) /\ UNCHANGED hookRunning
        /\ UNCHANGED <<engVars, inFlight, taskVars, runSeq, runTrigger, pc, ctx,
                       releasing, boot, tick, setRole, import, bounds>>

\* The hook returns ok, or refuses or panics; either way the flag is reset.
CancelHook(c, ok) ==
    /\ client[c].at = "hook"
    /\ hookRunning' = [hookRunning EXCEPT ![client[c].t] = FALSE]
    /\ \/ ok /\ Goes(c, "apply")
       \/ ~ok /\ Ends(c)
    /\ UNCHANGED <<engVars, inFlight, taskVars, runSeq, runTrigger, pc, ctx,
                   releasing, boot, tick, setRole, import, bounds>>

CancelApply(c) ==
    /\ client[c].at = "apply"
    /\ \/ SameRun(c) /\ CancelGen(client[c].t, client[c].seq, "user")
       \/ ~SameRun(c) /\ UNCHANGED ctx
    /\ Ends(c)
    /\ UNCHANGED <<engVars, inFlight, taskVars, runSeq, runTrigger, hookRunning,
                   pc, releasing, boot, tick, setRole, import, bounds>>

\* StartLoop, StopLoop and RearmLoop of a task that is not a daemon.
StartLoop(c, t) ==
    /\ MayCall(c) /\ calls' = calls + 1
    /\ ~stopped /\ Kind[t] # "oneshot"
    /\ loopEnabled' = [loopEnabled EXCEPT ![t] = TRUE]
    /\ beat' = [beat EXCEPT ![t] = @ /\ loopEnabled[t]]
    /\ UNCHANGED <<engVars, inFlight, runVars, boot, tick, client, setRole,
                   import, ticks>>
StopLoop(c, t) ==
    /\ MayCall(c) /\ calls' = calls + 1
    /\ loopEnabled' = [loopEnabled EXCEPT ![t] = FALSE]
    /\ beat' = [beat EXCEPT ![t] = FALSE]
    /\ UNCHANGED <<engVars, inFlight, runVars, boot, tick, client, setRole,
                   import, ticks>>
RearmLoop(c, t, hasWork) ==
    /\ MayCall(c) /\ calls' = calls + 1
    /\ ~stopped /\ Kind[t] # "oneshot" /\ (hasWork \/ loopEnabled[t])
    /\ loopEnabled' = [loopEnabled EXCEPT ![t] = @ \/ hasWork]
    /\ beat' = [beat EXCEPT ![t] = FALSE]
    /\ UNCHANGED <<engVars, inFlight, runVars, boot, tick, client, setRole,
                   import, ticks>>

-----------------------------------------------------------------------------
(***************************************************************************)
(* SetRole.  Its callers hold ClusterService.roleMu, so one thread is      *)
(* inside at a time and the role does not change under its walk.           *)
(***************************************************************************)
SetRole(isMaster) ==
    /\ setRole.at = "idle" /\ calls < MaxCalls
    /\ calls' = calls + 1
    /\ role' = isMaster
    /\ setRole' = [IdleWalk EXCEPT !.at = "walk", !.todo = Tasks,
                                   !.flipped = role # isMaster]
    /\ UNCHANGED <<stopped, stopTodo, schedPaused, inFlight, taskVars, runVars,
                   boot, tick, client, import, ticks>>

\* A periodic task that loses its role, or gains it in a flip, is due at once.
ForgetsBeat_OnlyOnPromote(t) ==
    Kind[t] = "periodic" /\ RoleAllows(t) /\ setRole.flipped /\ RunsOn[t] # "any"
ForgetsBeat(t) ==
    /\ Kind[t] = "periodic"
    /\ ~RoleAllows(t) \/ (setRole.flipped /\ RunsOn[t] # "any")

SetRoleVisit(t) ==
    /\ setRole.at = "walk" /\ t \in setRole.todo
    /\ beat' = [beat EXCEPT ![t] = @ /\ ~ForgetsBeat(t)]
    /\ LET cancels == ~RoleAllows(t) /\ Running(t)
       IN  setRole' = [setRole EXCEPT !.todo = @ \ {t}, !.t = t,
                            !.at = IF cancels THEN "cancel" ELSE "walk",
                            !.seq = IF cancels THEN runSeq[t] ELSE 0]
    /\ UNCHANGED <<engVars, inFlight, loopEnabled, runVars, boot, tick, client,
                   import, bounds>>
SetRoleCancel ==
    /\ setRole.at = "cancel"
    /\ CancelGen(setRole.t, setRole.seq, "system")
    /\ setRole' = [setRole EXCEPT !.at = "walk", !.seq = 0]
    /\ UNCHANGED <<engVars, inFlight, taskVars, runSeq, runTrigger, hookRunning,
                   pc, releasing, boot, tick, client, import, bounds>>
SetRoleReturn ==
    /\ setRole.at = "walk" /\ setRole.todo = {}
    /\ setRole' = IdleWalk
    /\ UNCHANGED <<engVars, inFlight, taskVars, runVars, boot, tick, client,
                   import, bounds>>

(***************************************************************************)
(* The drain of a configuration import (beginConfigImport): pause, cancel  *)
(* what is in flight, wait.  When the wait times out, scheduling resumes   *)
(* and the import is refused; otherwise the import owns the window until   *)
(* its session closes.  configImportBeginMu admits one import at a time.   *)
(***************************************************************************)
PauseScheduling ==
    /\ import.at = "idle" /\ boot.at = "done" /\ calls < MaxCalls
    /\ calls' = calls + 1
    /\ schedPaused' = TRUE
    /\ import' = [IdleWalk EXCEPT !.at = "walk"]
    /\ UNCHANGED <<role, stopped, stopTodo, inFlight, taskVars, runVars, boot,
                   tick, client, setRole, ticks>>

\* CancelInFlightRuns: the snapshot of the registrations of the node's role
\* (flipped: taken), then one r.mu section and one cancel call per task.
DrainSnapshot ==
    /\ import.at = "walk" /\ ~import.flipped
    /\ import' = [import EXCEPT !.todo = {t \in Tasks : RoleAllows(t)},
                                !.flipped = TRUE]
    /\ UNCHANGED <<engVars, inFlight, taskVars, runVars, boot, tick, client,
                   setRole, bounds>>
DrainVisit(t) ==
    /\ import.at = "walk" /\ t \in import.todo
    /\ import' = [import EXCEPT !.todo = @ \ {t}, !.t = t,
                        !.at = IF Running(t) THEN "cancel" ELSE "walk",
                        !.seq = IF Running(t) THEN runSeq[t] ELSE 0]
    /\ UNCHANGED <<engVars, inFlight, taskVars, runVars, boot, tick, client,
                   setRole, bounds>>
DrainCancel ==
    /\ import.at = "cancel"
    /\ CancelGen(import.t, import.seq, "system")
    /\ import' = [import EXCEPT !.at = "walk", !.seq = 0]
    /\ UNCHANGED <<engVars, inFlight, taskVars, runSeq, runTrigger, hookRunning,
                   pc, releasing, boot, tick, client, setRole, bounds>>
DrainWalked ==
    /\ import.at = "walk" /\ import.flipped /\ import.todo = {}
    /\ import' = [import EXCEPT !.at = "wait"]
    /\ UNCHANGED <<engVars, inFlight, taskVars, runVars, boot, tick, client,
                   setRole, bounds>>

\* WaitInFlightRuns sees the counter at zero, or its deadline passes.
Drained ==
    /\ import.at = "wait" /\ inFlight = 0
    /\ import' = [import EXCEPT !.at = "window"]
    /\ UNCHANGED <<engVars, inFlight, taskVars, runVars, boot, tick, client,
                   setRole, bounds>>
ResumeScheduling ==
    /\ import.at \in {"wait", "window"}
    /\ import' = IdleWalk
    /\ schedPaused' = FALSE
    /\ UNCHANGED <<role, stopped, stopTodo, inFlight, taskVars, runVars, boot,
                   tick, client, setRole, bounds>>

\* StopWithTimeout: the flag first, then the registrations one by one.
Stop ==
    /\ ~stopped /\ boot.at = "done"
    /\ stopped' = TRUE /\ stopTodo' = Tasks
    /\ UNCHANGED <<role, schedPaused, inFlight, taskVars, runVars, boot, tick,
                   client, setRole, import, bounds>>
StopVisit_Skips(t) ==
    /\ t \in stopTodo
    /\ stopTodo' = stopTodo \ {t}
    /\ UNCHANGED <<role, stopped, schedPaused, inFlight, taskVars, runVars, boot,
                   tick, client, setRole, import, bounds>>
StopVisit(t) ==
    /\ t \in stopTodo
    /\ stopTodo' = stopTodo \ {t}
    /\ CancelGen(t, runSeq[t], "system")
    /\ UNCHANGED <<role, stopped, schedPaused, inFlight, taskVars, runSeq,
                   runTrigger, hookRunning, pc, releasing, boot, tick, client,
                   setRole, import, bounds>>

-----------------------------------------------------------------------------
RunStep(t) == Release(t) \/ ReleaseCount(t)
BootStep ==
    \/ \E t \in Tasks : BootPick(t)
    \/ BootCount \/ BootReserve \/ BootAwait \/ BootResume
TickStep ==
    \/ \E t \in Tasks : TickVisit(t)
    \/ TickJudge \/ TickCount \/ TickReserve \/ TickEnd
ClientStep(c) ==
    \/ TriggerCount(c) \/ TriggerReserve(c)
    \/ CancelSnapshot(c) \/ CancelClaim(c)
    \/ \E ok \in BOOLEAN : CancelHook(c, ok)
    \/ CancelApply(c)
SetRoleStep ==
    (\E t \in Tasks : SetRoleVisit(t)) \/ SetRoleCancel \/ SetRoleReturn
ImportStep ==
    \/ DrainSnapshot \/ (\E t \in Tasks : DrainVisit(t))
    \/ DrainCancel \/ DrainWalked \/ Drained \/ ResumeScheduling
StopStep == \E t \in Tasks : StopVisit(t)
Call ==
    \/ TickStart \/ PauseScheduling \/ Stop
    \/ \E isMaster \in BOOLEAN : SetRole(isMaster)
    \/ \E c \in Clients, t \in Tasks :
          \/ Trigger(c, t) \/ Cancel(c, t) \/ StartLoop(c, t) \/ StopLoop(c, t)
          \/ \E hasWork \in BOOLEAN : RearmLoop(c, t, hasWork)

Next ==
    \/ \E t \in Tasks : RunReturn(t) \/ RunStep(t)
    \/ BootStep \/ TickStep \/ SetRoleStep \/ ImportStep \/ StopStep
    \/ \E c \in Clients : ClientStep(c)
    \/ Call

Spec == Init /\ [][Next]_vars

\* A thread inside the engine keeps going, and a body whose context is
\* cancelled returns.  Calls, and bodies left alone, are never forced.
Fairness ==
    /\ \A t \in Tasks : WF_vars(RunStep(t))
    /\ \A t \in Tasks : WF_vars(ctx[t] # "live" /\ RunReturn(t))
    /\ WF_vars(TickStep) /\ WF_vars(SetRoleStep) /\ WF_vars(StopStep)
    /\ \A c \in Clients : WF_vars(ClientStep(c))

FairSpec == Spec /\ Fairness

-----------------------------------------------------------------------------
(***************************************************************************)
(* The import window is quiet: between the successful drain and the        *)
(* ResumeScheduling of the session no run exists, none is being admitted   *)
(* and none is still writing, so nothing of the old database is written    *)
(* into the new one.  Rests on the pause flag and the counter sharing e.mu *)
(* and on release dropping the count last.                                 *)
(***************************************************************************)
ImportWindowQuiet ==
    import.at = "window" =>
        /\ inFlight = 0
        /\ \A t \in Tasks : ~Running(t) /\ releasing[t] = 0

\* The threads between the two sections of reserveRunInternal.
Counted ==
    Cardinality({c \in Clients : client[c].at = "counted"})
    + (IF tick.at = "counted" THEN 1 ELSE 0)
    + (IF boot.at = "counted" THEN 1 ELSE 0)

\* The runs that freed their slot and are still counted, one by one.
Leaving == UNION {{t} \X (1..releasing[t]) : t \in Tasks}

(***************************************************************************)
(* inFlight is exact on every path of reserveRunInternal and release: the  *)
(* requests let in, the runs that hold a slot and those still leaving.  A  *)
(* lost decrement would block every later import, a second one would open  *)
(* the window early.  Each task contributes at most its run and the tails  *)
(* of earlier ones.                                                        *)
(***************************************************************************)
InFlightExact ==
    inFlight = Counted + Cardinality({t \in Tasks : Running(t)})
                       + Cardinality(Leaving)

(***************************************************************************)
(* A run never survives a demotion: a body that runs against the node's    *)
(* role is cancelled, or the SetRole in progress is about to cancel it     *)
(* (the slave must not write the database it replicates).                  *)
(***************************************************************************)
NoForbiddenRun ==
    \A t \in Tasks :
        pc[t] = "body" /\ ~RoleAllows(t) /\ ctx[t] = "live" =>
            \/ t \in setRole.todo
            \/ setRole.at = "cancel" /\ setRole.t = t /\ setRole.seq = runSeq[t]

(***************************************************************************)
(* A stop reaches every run, the one that registers while the stop walks   *)
(* over the registrations included.                                        *)
(***************************************************************************)
StopReachesRun ==
    stopped => \A t \in Tasks :
                  pc[t] = "body" /\ ctx[t] = "live" => t \in stopTodo

(***************************************************************************)
(* A CancelHook acts on the run it was asked to cancel: while it executes  *)
(* no later generation of the task exists, and one hook at a time executes *)
(* per task.  The flag that ensures it is held by somebody, so that it can *)
(* never lock the task out for good.                                       *)
(***************************************************************************)
HookHitsItsRun ==
    /\ \A c \in Clients :
          client[c].at = "hook" =>
             /\ hookRunning[client[c].t]
             /\ runSeq[client[c].t] = client[c].seq
             /\ \A d \in Clients \ {c} :
                   client[d].at = "hook" => client[d].t # client[c].t
    /\ \A t \in Tasks :
          hookRunning[t] => \E c \in Clients : client[c].at = "hook" /\ client[c].t = t

(***************************************************************************)
(* A periodic task that regains its role is due at the next tick: while    *)
(* the role forbids it its beat stays forgotten (SetRole has visited it).  *)
(***************************************************************************)
BeatForgotten ==
    \A t \in Tasks :
        Kind[t] = "periodic" /\ ~RoleAllows(t) /\ t \notin setRole.todo => ~beat[t]

(***************************************************************************)
(* Until the boot runs are over, nothing but a startup run executes: the   *)
(* configuration is loaded before any scheduled task can see it.           *)
(***************************************************************************)
BootRunsAlone ==
    boot.at # "done" => \A t \in Tasks : Running(t) => runTrigger[t] = "startup"

(***************************************************************************)
(* A stop drains the runs: the wait of StopWithTimeout ends by itself.     *)
(***************************************************************************)
StopDrains == stopped ~> inFlight = 0

=============================================================================
