----------------------------- MODULE TaskSlots ------------------------------
(***************************************************************************)
(* One Scheduled task of the engine (src/internal/taskengine/engine.go)    *)
(* together with the slot its business side keeps in the database, as the  *)
(* rule-library updates do (src/internal/services/schedule.go and          *)
(* crsupdate.go).  The engine caches the slot, runs it once it is past,    *)
(* remembers in schedDoneSlot what it has consumed, backs off on failures  *)
(* and gives up after a streak; the Run body moves the slot on.            *)
(*                                                                         *)
(* Time is a discrete clock from 1 on; the time 0 is Go's zero time.       *)
(* Admission against pause, stop and other tasks is the subject of         *)
(* TaskRuns.  A step is one critical section of r.mu or one database       *)
(* statement.  Underscored names are defective variants.                   *)
(***************************************************************************)
EXTENDS Naturals

CONSTANTS
    Period,       \* scheduled slots are the multiples of Period
    Lead,         \* schedSlotEvalLead
    Floor,        \* schedSlotEvalFloor
    Delays,       \* scheduledFailBackoff: the three delays
    StopLimit,    \* scheduledFailStreakStopLimit: 4 in production
    SlowTail,     \* may the clock move while a finished run is recorded?
    MaxTime,      \* bound: the clock
    MaxCalls,     \* bound: calls of the user and of the import
    MaxFlips,     \* bound: role flips and import drains
    MaxFaults     \* bound: failed reads and writes of the database

ASSUME SlotsAssumption ==
    /\ Period \in Nat \ {0} /\ Lead \in Nat /\ Floor \in Nat
    /\ Delays \in [1..3 -> Nat] /\ StopLimit \in Nat \ {0}
    /\ SlowTail \in BOOLEAN
    /\ MaxTime \in Nat \ {0} /\ MaxCalls \in Nat /\ MaxFlips \in Nat
    /\ MaxFaults \in Nat

VARIABLES
    now,         \* time.Now
    master,      \* the node's role; the task is master only
    dbSlot,      \* next_update of the version row
    autoUpdate,  \* auto_update of the version row
    loopEnabled, \* registration.loopEnabled
    slot,        \* registration.nextScheduledTime: the cached slot
    doneSlot,    \* registration.schedDoneSlot
    evalAt,      \* registration.schedSlotEvalAt
    failStreak,  \* registration.schedFailStreak
    retryAfter,  \* registration.schedRetryAfter
    stopReason,  \* registration.schedStopReason is fail-streak
    run,         \* the run in flight, its contexts and its locals
    hookRunning, \* registration.cancelHookRunning
    tick,        \* the scheduling goroutine
    cancel,      \* a user's Cancel
    save,        \* the panel between a write of the row and its effect
    spent,       \* history: slots a run succeeded on or the user gave up
    calls, flips, faults

schedVars == <<slot, doneSlot, evalAt, failStreak, retryAfter, stopReason>>
bizVars   == <<dbSlot, autoUpdate>>
bounds    == <<calls, flips, faults>>
vars      == <<now, master, bizVars, loopEnabled, schedVars, run, hookRunning,
               tick, cancel, save, spent, bounds>>

Triggers == {"auto", "manual"}
Causes   == {"live", "system", "user"}
Results  == {"", "success", "failed", "notAdvanced", "cancelled", "skipped"}

\* The run: reserved, its body at work (the manager has a context of its own,
\* derived from the engine's), settled in the database, returned, recorded.
NoRun  == [at |-> "none", seq |-> 0, trigger |-> "auto", ctx |-> "live",
           mgr |-> "live", on |-> 0, base |-> 0, err |-> "", next |-> 0]
NoTick == [at |-> "idle", now |-> 0, prev |-> 0, next |-> 0]

Runs == [at : {"none", "reserved", "body", "settled", "returned", "recorded"},
         seq : Nat, trigger : Triggers, ctx : Causes, mgr : Causes,
         on : Nat, base : Nat, err : Results, next : Nat]
Ticks == [at : {"idle", "begun", "snapped", "evaluated", "due"},
          now : 0..MaxTime, prev : Nat, next : Nat]
Cancels == [at : {"idle", "hook", "apply"}, seq : Nat, trigger : Triggers]

\* Every variable has its type; the fail streak stays below the limit at which
\* the schedule is given up (executeRun, schedFailStreak).
TypeOK ==
    /\ now \in 1..MaxTime /\ master \in BOOLEAN
    /\ dbSlot \in Nat /\ autoUpdate \in BOOLEAN /\ loopEnabled \in BOOLEAN
    /\ slot \in Nat /\ doneSlot \in Nat /\ evalAt \in 0..MaxTime
    /\ failStreak \in 0..StopLimit - 1 /\ retryAfter \in Nat
    /\ stopReason \in BOOLEAN /\ hookRunning \in BOOLEAN
    /\ run \in Runs /\ tick \in Ticks /\ cancel \in Cancels
    /\ save \in {"none", "save", "rearm"} /\ spent \subseteq Nat
    /\ calls \in 0..MaxCalls /\ flips \in 0..MaxFlips /\ faults \in 0..MaxFaults

Init ==
    /\ now = 1 /\ master = TRUE
    /\ autoUpdate = TRUE /\ dbSlot = Period /\ loopEnabled = TRUE
    /\ slot = 0 /\ doneSlot = 0 /\ evalAt = 0
    /\ failStreak = 0 /\ retryAfter = 0 /\ stopReason = FALSE
    /\ run = NoRun /\ hookRunning = FALSE /\ tick = NoTick
    /\ cancel = [at |-> "idle", seq |-> 0, trigger |-> "auto"]
    /\ save = "none" /\ spent = {}
    /\ calls = 0 /\ flips = 0 /\ faults = 0

-----------------------------------------------------------------------------
Running == run.at # "none"

\* NextScheduledSlot: the first slot after time t.
SlotAfter(t) == ((t \div Period) + 1) * Period

\* NextSlotFn: zero when the switch is off.
NextSlotFn == IF autoUpdate THEN dbSlot ELSE 0

\* A database statement fails.
Fault == faults < MaxFaults /\ faults' = faults + 1

\* NextSlotFn, or its fail-closed zero when the database cannot be read.
ReadSlot(s) == \/ s = NextSlotFn /\ UNCHANGED faults
               \/ s = 0 /\ Fault

Clock ==
    /\ now < MaxTime
    /\ SlowTail \/ run.at \notin {"settled", "returned", "recorded"}
    /\ now' = now + 1
    /\ UNCHANGED <<master, bizVars, loopEnabled, schedVars, run, hookRunning,
                   tick, cancel, save, spent, bounds>>

(***************************************************************************)
(* tick, the Scheduled branch: the snapshot under r.mu, the gates and the  *)
(* unlocked evaluation of the slot, the write-back under r.mu, the second  *)
(* gates with the reservation.                                             *)
(***************************************************************************)
NeedEval(t) ==
    \/ t >= evalAt + Floor \/ evalAt = 0
    \/ slot > doneSlot /\ t + Lead >= slot

\* A tick reads the clock once, before it walks over the tasks.
TickStart ==
    /\ tick.at = "idle"
    /\ tick' = [NoTick EXCEPT !.at = "begun", !.now = now]
    /\ UNCHANGED <<now, master, bizVars, loopEnabled, schedVars, run, hookRunning,
                   cancel, save, spent, bounds>>

TickSnapshot ==
    LET wanted == loopEnabled /\ ~Running /\ tick.now >= retryAfter
                  /\ NeedEval(tick.now)
    IN  /\ tick.at = "begun"
        /\ \/ wanted /\ tick' = [tick EXCEPT !.at = "snapped", !.prev = slot]
           \/ ~wanted /\ tick' = NoTick
        /\ UNCHANGED <<now, master, bizVars, loopEnabled, schedVars, run,
                       hookRunning, cancel, save, spent, bounds>>

TickEvaluate ==
    /\ tick.at = "snapped"
    /\ \/ /\ master /\ autoUpdate
          /\ evalAt' = tick.now
          /\ \E s \in {NextSlotFn, 0} :
                ReadSlot(s) /\ tick' = [tick EXCEPT !.at = "evaluated", !.next = s]
       \/ /\ ~(master /\ autoUpdate)
          /\ tick' = NoTick
          /\ UNCHANGED <<evalAt, faults>>
    /\ UNCHANGED <<now, master, bizVars, loopEnabled, slot, doneSlot, failStreak,
                   retryAfter, stopReason, run, hookRunning, cancel, save, spent,
                   calls, flips>>

\* The slot an unlocked evaluation may overwrite: the one it started from.
Fresh(prev, next) == IF slot = prev THEN next ELSE slot

TickStore ==
    LET s == Fresh(tick.prev, tick.next)
    IN  /\ tick.at = "evaluated"
        /\ slot' = s
        /\ \/ /\ s # 0 /\ tick.now > s /\ s > doneSlot /\ loopEnabled /\ ~Running
              /\ tick' = [tick EXCEPT !.at = "due"]
           \/ /\ ~(s # 0 /\ tick.now > s /\ s > doneSlot /\ loopEnabled /\ ~Running)
              /\ tick' = NoTick
        /\ UNCHANGED <<now, master, bizVars, loopEnabled, doneSlot, evalAt,
                       failStreak, retryAfter, stopReason, run, hookRunning,
                       cancel, save, spent, bounds>>

\* The slot checks inside the reservation: still past, still unconsumed.
StillDue_NotRechecked(t) == TRUE
StillDue(t) == slot # 0 /\ t > slot /\ slot > doneSlot

Reserved(trigger) ==
    [NoRun EXCEPT !.at = "reserved", !.seq = run.seq + 1, !.trigger = trigger,
                  !.on = slot]

TickDispatch ==
    /\ tick.at = "due"
    /\ \/ /\ master /\ autoUpdate /\ ~Running /\ ~hookRunning /\ loopEnabled
          /\ StillDue(tick.now)
          /\ run' = Reserved("auto")
       \/ UNCHANGED run /\ ~(/\ master /\ autoUpdate /\ ~Running /\ ~hookRunning
                             /\ loopEnabled /\ StillDue(tick.now))
    /\ tick' = NoTick
    /\ UNCHANGED <<now, master, bizVars, loopEnabled, schedVars, hookRunning,
                   cancel, save, spent, bounds>>

\* A manual run: role, single flight and hook only.
Trigger ==
    /\ calls < MaxCalls /\ calls' = calls + 1
    /\ master /\ ~Running /\ ~hookRunning
    /\ run' = Reserved("manual")
    /\ UNCHANGED <<now, master, bizVars, loopEnabled, schedVars, hookRunning,
                   tick, cancel, save, spent, flips, faults>>

(***************************************************************************)
(* executeRun and the Run body of crs.                                     *)
(***************************************************************************)
\* The baseline of the slot cache, then the body.
RunBegin ==
    /\ run.at = "reserved"
    /\ run' = [run EXCEPT !.at = "body", !.base = slot]
    /\ UNCHANGED <<now, master, bizVars, loopEnabled, schedVars, hookRunning,
                   tick, cancel, save, spent, bounds>>

Expired == dbSlot # 0 /\ dbSlot <= now

\* The gates of the UPDATE of next_update: a success moves an expired slot
\* (an auto one an empty slot too), a failure or a user cancellation only
\* the slot of an auto run.
MovesOnSuccess_AutoOnly ==
    autoUpdate /\ run.trigger = "auto" /\ (Expired \/ dbSlot = 0)
MovesOnSuccess == autoUpdate /\ (Expired \/ (run.trigger = "auto" /\ dbSlot = 0))
MovesOnFailure == autoUpdate /\ run.trigger = "auto" /\ (Expired \/ dbSlot = 0)
Move(moves) == dbSlot' = IF moves THEN SlotAfter(now) ELSE dbSlot

\* How the body settles in the database, and the error it will return.  An
\* update whose slot could not be moved reports it; a failed update does not.
\* A cancellation behind the last look at the context goes unnoticed.
Settle ==
    LET settled(err) == run' = [run EXCEPT !.at = "settled", !.err = err]
    IN  /\ run.at = "body"
        /\ \/ Move(MovesOnSuccess) /\ settled("success") /\ UNCHANGED faults
           \/ Fault /\ settled("notAdvanced") /\ UNCHANGED dbSlot
           \/ Move(MovesOnFailure) /\ settled("failed") /\ UNCHANGED faults
           \/ Fault /\ settled("failed") /\ UNCHANGED dbSlot
           \/ /\ run.mgr = "user" /\ master
              /\ \/ Move(MovesOnFailure) /\ settled("cancelled") /\ UNCHANGED faults
                 \/ /\ run.trigger = "auto" /\ Fault
                    /\ settled("notAdvanced") /\ UNCHANGED dbSlot
           \/ /\ run.mgr = "system" /\ master
              /\ settled("cancelled") /\ UNCHANGED <<dbSlot, faults>>
           \/ /\ ~master
              /\ settled("skipped") /\ UNCHANGED <<dbSlot, faults>>
        /\ UNCHANGED <<now, master, autoUpdate, loopEnabled, schedVars,
                       hookRunning, tick, cancel, save, spent, calls, flips>>

\* terminalStatus, from the error and the engine's context.
TerminalStatus ==
    CASE run.err = "skipped"     -> "skipped"
      [] run.err = "notAdvanced" -> "notAdvanced"
      [] run.ctx # "live" \/ run.err = "cancelled" -> "cancelled"
      [] OTHER -> run.err

RunReturn ==
    /\ run.at = "settled"
    /\ run' = [run EXCEPT !.at = "returned", !.err = TerminalStatus]
    /\ UNCHANGED <<now, master, bizVars, loopEnabled, schedVars, hookRunning,
                   tick, cancel, save, spent, bounds>>

\* runTerminalStatus is set, then NextSlotFn is evaluated outside the lock.
RunRecord ==
    /\ run.at = "returned"
    /\ \E s \in {NextSlotFn, 0} :
          ReadSlot(s) /\ run' = [run EXCEPT !.at = "recorded", !.next = s]
    /\ UNCHANGED <<now, master, bizVars, loopEnabled, schedVars, hookRunning,
                   tick, cancel, save, spent, calls, flips>>

Backoff(streak) == IF streak <= 1 THEN Delays[1] ELSE IF streak = 2
                   THEN Delays[2] ELSE Delays[3]

\* slotDueForBackoff
DueForBackoff(next) == next # 0 /\ next <= now /\ next <= run.base

StopsSchedule(streak) == streak >= StopLimit

\* A success consumes the slot that is still past when it is recorded.
Spends(next, done) ==
    run.err = "success" /\ next # 0 /\ next <= now /\ next > done

\* The r.mu section at the end of executeRun, and release.  A run whose slot
\* was not moved throws the watermark away, so that the slot is tried again:
\* the history of spent slots starts again with it.
RunFinish ==
    LET stuck  == run.err = "notAdvanced"
        failed == run.err \in {"failed", "notAdvanced", "skipped"}
        next   == IF stuck /\ run.next = 0 THEN run.base ELSE run.next
        done   == IF stuck THEN 0 ELSE doneSlot
        auto   == run.trigger = "auto"
        streak == IF auto THEN failStreak + 1 ELSE failStreak
    IN  /\ run.at = "recorded"
        /\ slot' = Fresh(run.base, run.next)
        /\ evalAt' = IF stuck THEN 0 ELSE evalAt
        /\ \/ /\ failed /\ DueForBackoff(next)
              /\ doneSlot' = done
              /\ \/ /\ auto /\ StopsSchedule(streak)
                    /\ loopEnabled' = FALSE /\ stopReason' = TRUE
                    /\ failStreak' = 0 /\ retryAfter' = 0
                 \/ /\ ~(auto /\ StopsSchedule(streak))
                    /\ failStreak' = streak
                    /\ retryAfter' = now + Backoff(streak)
                    /\ UNCHANGED <<loopEnabled, stopReason>>
           \/ /\ ~(failed /\ DueForBackoff(next))
              /\ failStreak' = 0 /\ retryAfter' = 0
              /\ doneSlot' = IF Spends(next, done) THEN next ELSE done
              /\ UNCHANGED <<loopEnabled, stopReason>>
        /\ run' = [NoRun EXCEPT !.seq = run.seq]
        /\ spent' = IF stuck THEN {}
                    ELSE spent \cup {s \in {run.on} : auto /\ run.err = "success"}
        /\ UNCHANGED <<now, master, bizVars, hookRunning, tick, cancel, save, bounds>>

(***************************************************************************)
(* Cancel: the claim of the hook, the hook (CancelRunning of the manager)  *)
(* and the cancellation of the engine's context with the consumption of    *)
(* the slot.                                                               *)
(***************************************************************************)
CancelClaim ==
    /\ cancel.at = "idle" /\ calls < MaxCalls /\ calls' = calls + 1
    /\ master /\ Running /\ ~hookRunning
    /\ hookRunning' = TRUE
    /\ cancel' = [at |-> "hook", seq |-> run.seq, trigger |-> run.trigger]
    /\ UNCHANGED <<now, master, bizVars, loopEnabled, schedVars, run, tick, save,
                   spent, flips, faults>>

Sooner(cause, new) == IF cause = "live" THEN new ELSE cause

\* The manager counts as running until its goroutine has settled and ended.
CancelHook ==
    LET hits == run.at \in {"body", "settled"}
    IN  /\ cancel.at = "hook"
        /\ hookRunning' = FALSE
        /\ cancel' = [cancel EXCEPT !.at = IF hits THEN "apply" ELSE "idle"]
        /\ run' = IF hits THEN [run EXCEPT !.mgr = Sooner(@, "user")] ELSE run
        /\ UNCHANGED <<now, master, bizVars, loopEnabled, schedVars, tick, save,
                       spent, bounds>>

\* The run the user saw is still the one in flight.
SameRun_TriggerOnly == Running /\ run.trigger = cancel.trigger
SameRun == Running /\ run.seq = cancel.seq /\ run.trigger = cancel.trigger

\* consumeCancelledSlotLocked
Consumable(s) ==
    /\ run.trigger = "auto" /\ run.at \notin {"none", "recorded"}
    /\ s # 0 /\ s <= now /\ s > doneSlot

CancelApply ==
    /\ cancel.at = "apply"
    /\ \/ /\ SameRun
          /\ run' = [run EXCEPT !.ctx = Sooner(@, "user"), !.mgr = Sooner(@, "user")]
          /\ doneSlot' = IF Consumable(slot) THEN slot ELSE doneSlot
          /\ spent' = spent \cup {s \in {slot} : Consumable(s)}
       \/ ~SameRun /\ UNCHANGED <<run, doneSlot, spent>>
    /\ cancel' = [cancel EXCEPT !.at = "idle"]
    /\ UNCHANGED <<now, master, bizVars, loopEnabled, slot, evalAt, failStreak,
                   retryAfter, stopReason, hookRunning, tick, save, bounds>>

-----------------------------------------------------------------------------
\* Both contexts of the run in flight, cancelled without a user's cause.
SystemCancelled ==
    IF Running THEN [run EXCEPT !.ctx = Sooner(@, "system"),
                                !.mgr = Sooner(@, "system")] ELSE run

\* SetRole: a demotion cancels the run in flight.
SetRole(isMaster) ==
    /\ flips < MaxFlips /\ flips' = flips + 1
    /\ master' = isMaster
    /\ run' = IF isMaster THEN run ELSE SystemCancelled
    /\ UNCHANGED <<now, bizVars, loopEnabled, schedVars, hookRunning, tick,
                   cancel, save, spent, calls, faults>>

\* CancelInFlightRuns of a configuration import.
Drain ==
    /\ flips < MaxFlips /\ flips' = flips + 1
    /\ Running /\ run' = SystemCancelled
    /\ UNCHANGED <<now, master, bizVars, loopEnabled, schedVars, hookRunning,
                   tick, cancel, save, spent, calls, faults>>

\* resetScheduleProgressLocked; the history of spent slots starts again.
Reset ==
    /\ slot' = 0 /\ doneSlot' = 0 /\ evalAt' = 0
    /\ failStreak' = 0 /\ retryAfter' = 0 /\ stopReason' = FALSE
    /\ spent' = {}

\* setVersionTableAutoUpdate: the row, then the loop (applyBusinessTaskLoop).
SaveAutoUpdate(enabled) ==
    /\ save = "none" /\ calls < MaxCalls /\ calls' = calls + 1
    /\ autoUpdate' = enabled
    /\ dbSlot' = IF enabled THEN SlotAfter(now) ELSE 0
    /\ save' = "save"
    /\ UNCHANGED <<now, master, loopEnabled, schedVars, run, hookRunning, tick,
                   cancel, spent, flips, faults>>
SaveApply ==
    /\ save = "save" /\ save' = "none"
    /\ \/ /\ autoUpdate /\ loopEnabled' = TRUE
          /\ IF loopEnabled THEN UNCHANGED <<schedVars, spent>> ELSE Reset
       \/ /\ ~autoUpdate /\ loopEnabled' = FALSE /\ stopReason' = FALSE
          /\ UNCHANGED <<slot, doneSlot, evalAt, failStreak, retryAfter, spent>>
    /\ UNCHANGED <<now, master, bizVars, run, hookRunning, tick, cancel, bounds>>

\* RearmSecurityLibrarySlots after an import: arm an empty slot, then reset.
Rearm ==
    /\ save = "none" /\ calls < MaxCalls /\ calls' = calls + 1
    /\ dbSlot' = IF autoUpdate /\ dbSlot = 0 THEN SlotAfter(now) ELSE dbSlot
    /\ save' = "rearm"
    /\ UNCHANGED <<now, master, autoUpdate, loopEnabled, schedVars, run,
                   hookRunning, tick, cancel, spent, flips, faults>>
RearmReset ==
    /\ save = "rearm" /\ save' = "none"
    /\ Reset
    /\ UNCHANGED <<now, master, bizVars, loopEnabled, run, hookRunning, tick,
                   cancel, bounds>>

Next ==
    \/ Clock
    \/ TickStart \/ TickSnapshot \/ TickEvaluate \/ TickStore \/ TickDispatch
    \/ Trigger \/ RunBegin \/ Settle \/ RunReturn \/ RunRecord \/ RunFinish
    \/ CancelClaim \/ CancelHook \/ CancelApply
    \/ \E isMaster \in BOOLEAN : SetRole(isMaster)
    \/ Drain
    \/ \E enabled \in BOOLEAN : SaveAutoUpdate(enabled)
    \/ SaveApply \/ Rearm \/ RearmReset

Spec == Init /\ [][Next]_vars

-----------------------------------------------------------------------------
(***************************************************************************)
(* A slot runs once: no automatic run is in flight on a slot that an       *)
(* automatic run already succeeded on, or that the user gave up by         *)
(* cancelling it (unless it is the cancelled run itself).  Covers the      *)
(* unlocked evaluation of the slot against the write-backs of other runs.  *)
(***************************************************************************)
SlotRunsOnce ==
    run.at \in {"reserved", "body"} /\ run.trigger = "auto" /\ run.ctx = "live" =>
        run.on \notin spent

(***************************************************************************)
(* Only a slot that is past is ever consumed: a consumed slot of the       *)
(* future could never run, and nothing else would move it on.              *)
(***************************************************************************)
FutureNeverConsumed == doneSlot <= now

(***************************************************************************)
(* A late cancellation never consumes the slot of a newer run: what        *)
(* CancelApply consumes belongs to the run the user saw.                   *)
(***************************************************************************)
CancelConsumesItsOwn ==
    [][cancel.at = "apply" /\ cancel'.at = "idle" /\ doneSlot' # doneSlot =>
          cancel.seq = run.seq /\ cancel.trigger = "auto"]_vars

\* Nothing is under way that could still move or release the slot.
AtRest == ~Running /\ cancel.at = "idle" /\ save = "none"

(***************************************************************************)
(* No silent stall: at rest, with the switch and the loop on, the slot in  *)
(* the database is not one the engine has consumed (schedDoneSlot would    *)
(* suppress it for ever while the task looks scheduled). Stated for        *)
(* histories without a failed statement and without a role flip.           *)
(***************************************************************************)
NoSilentStall ==
    faults = 0 /\ flips = 0 /\ AtRest /\ loopEnabled /\ autoUpdate /\ dbSlot # 0 =>
        dbSlot > doneSlot

=============================================================================
