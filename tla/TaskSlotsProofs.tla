--------------------------- MODULE TaskSlotsProofs --------------------------
(***************************************************************************)
(* Proofs about TaskSlots: its types with the bound on the fail streak,    *)
(* that no slot of the future is consumed, that a late cancellation        *)
(* consumes only what belongs to its own run, that a slot runs once, and   *)
(* that a task at rest never waits for a slot its watermark suppresses.    *)
(***************************************************************************)
EXTENDS TaskSlots, TLAPS

\* The slot computed from a time is a time.
LEMMA SlotAfterNat ==
    ASSUME NEW t \in Nat
    PROVE  SlotAfter(t) \in Nat
<1>1. t \div Period \in Nat
  BY SlotsAssumption
<1>2. \A q \in Nat : (q + 1) * Period \in Nat
  BY SlotsAssumption
<1> QED BY <1>1, <1>2 DEF SlotAfter

\* The back-off is one of the three configured delays.
LEMMA BackoffNat ==
    ASSUME NEW n \in Nat
    PROVE  Backoff(n) \in Nat
BY SlotsAssumption DEF Backoff

\* No run, and no tick under way, are values of their types.
LEMMA NoRunTypes == NoRun \in Runs /\ NoTick \in Ticks
BY SlotsAssumption DEF NoRun, NoTick, Runs, Ticks, Triggers, Causes, Results

\* The record a reservation writes.
LEMMA ReservedTypes ==
    ASSUME TypeOK, NEW trigger \in Triggers
    PROVE  Reserved(trigger) \in Runs
<1>1. run.seq + 1 \in Nat /\ slot \in Nat
  BY DEF TypeOK, Runs
<1> QED BY <1>1, NoRunTypes DEF Reserved, Runs

\* Every initial state is well typed.
LEMMA InitTypes == Init => TypeOK
<1> SUFFICES ASSUME Init PROVE TypeOK
  OBVIOUS
<1>1. /\ now \in 1..MaxTime /\ dbSlot \in Nat /\ slot \in Nat /\ doneSlot \in Nat
      /\ evalAt \in 0..MaxTime /\ failStreak \in 0..StopLimit - 1
      /\ retryAfter \in Nat
  BY SlotsAssumption DEF Init
<1>2. calls \in 0..MaxCalls /\ flips \in 0..MaxFlips /\ faults \in 0..MaxFaults
  BY SlotsAssumption DEF Init
<1>3. cancel \in Cancels
  BY DEF Init, Cancels, Triggers
<1>4. /\ master \in BOOLEAN /\ autoUpdate \in BOOLEAN /\ loopEnabled \in BOOLEAN
      /\ stopReason \in BOOLEAN /\ hookRunning \in BOOLEAN /\ spent \subseteq Nat
      /\ save \in {"none", "save", "rearm"}
  BY DEF Init
<1> QED BY <1>1, <1>2, <1>3, <1>4, NoRunTypes DEF Init, TypeOK

\* What a read of the slot returns is a time.
LEMMA ReadSlotNat ==
    ASSUME TypeOK, NEW s \in {NextSlotFn, 0}
    PROVE  s \in Nat
BY DEF TypeOK, NextSlotFn

\* A database fault stays within its bound, whether it happens or not.
LEMMA FaultTypes ==
    ASSUME TypeOK, Fault \/ UNCHANGED faults
    PROVE  faults' \in 0..MaxFaults
BY SlotsAssumption DEF TypeOK, Fault

\* A cancellation leaves the record of the run a record of a run.
LEMMA SystemCancelledTypes ==
    ASSUME TypeOK
    PROVE  SystemCancelled \in Runs
BY DEF TypeOK, SystemCancelled, Sooner, Causes, Runs

\* Every step keeps the types.
LEMMA NextTypes == TypeOK /\ [Next]_vars => TypeOK'
<1> SUFFICES ASSUME TypeOK, [Next]_vars PROVE TypeOK'
  OBVIOUS
<1> USE SlotsAssumption
<1>1. CASE Clock
  BY <1>1 DEF Clock, TypeOK, bizVars, schedVars, bounds
<1>2. CASE TickStart
  <2>1. tick' \in Ticks
    <3>1. tick' = [at |-> "begun", now |-> now, prev |-> 0, next |-> 0]
      BY <1>2 DEF TickStart, NoTick
    <3> QED BY <3>1 DEF Ticks, TypeOK
  <2> QED BY <1>2, <2>1 DEF TickStart, TypeOK, bizVars, schedVars, bounds
<1>3. CASE TickSnapshot
  <2>1. tick' \in Ticks
    BY <1>3, NoRunTypes DEF TickSnapshot, Ticks, TypeOK
  <2> QED BY <1>3, <2>1 DEF TickSnapshot, TypeOK, bizVars, schedVars, bounds
<1>4. CASE TickEvaluate
  <2>1. faults' \in 0..MaxFaults
    BY <1>4, FaultTypes DEF TickEvaluate, ReadSlot
  <2>2. tick' \in Ticks
    <3>1. \A s \in {NextSlotFn, 0} : [tick EXCEPT !.at = "evaluated", !.next = s] \in Ticks
      BY ReadSlotNat DEF TypeOK, Ticks
    <3> QED BY <1>4, <3>1, NoRunTypes DEF TickEvaluate
  <2>3. evalAt' \in 0..MaxTime
    BY <1>4 DEF TickEvaluate, TypeOK, Ticks
  <2> QED BY <1>4, <2>1, <2>2, <2>3 DEF TickEvaluate, TypeOK, bizVars
<1>5. CASE TickStore
  <2>1. tick' \in Ticks /\ slot' \in Nat
    BY <1>5, NoRunTypes DEF TickStore, Fresh, Ticks, TypeOK
  <2> QED BY <1>5, <2>1 DEF TickStore, TypeOK, bizVars, bounds
<1>6. CASE TickDispatch
  <2>1. Reserved("auto") \in Runs
    BY ReservedTypes DEF Triggers
  <2>2. run' \in Runs /\ tick' \in Ticks
    BY <1>6, <2>1, NoRunTypes DEF TickDispatch, TypeOK
  <2> QED BY <1>6, <2>2 DEF TickDispatch, TypeOK, bizVars, schedVars, bounds
<1>7. CASE Trigger
  <2>1. Reserved("manual") \in Runs
    BY ReservedTypes DEF Triggers
  <2> QED BY <1>7, <2>1 DEF Trigger, TypeOK, bizVars, schedVars
<1>8. CASE RunBegin
  BY <1>8 DEF RunBegin, TypeOK, Runs, bizVars, schedVars, bounds
<1>9. CASE Settle
  <2>1. faults' \in 0..MaxFaults
    BY <1>9, FaultTypes DEF Settle
  <2>2. SlotAfter(now) \in Nat
    BY SlotAfterNat DEF TypeOK
  <2>3. dbSlot' \in Nat
    BY <1>9, <2>2 DEF Settle, Move, TypeOK
  <2>4. run' \in Runs
    <3>1. \A e \in Results : [run EXCEPT !.at = "settled", !.err = e] \in Runs
      BY DEF TypeOK, Runs
    <3>2. /\ "success" \in Results /\ "failed" \in Results
          /\ "notAdvanced" \in Results /\ "cancelled" \in Results
          /\ "skipped" \in Results
      BY DEF Results
    <3>3. \E e \in Results : run' = [run EXCEPT !.at = "settled", !.err = e]
      BY <1>9, <3>2, Zenon DEF Settle
    <3> QED BY <3>1, <3>3
  <2> QED BY <1>9, <2>1, <2>3, <2>4 DEF Settle, TypeOK, schedVars
<1>10. CASE RunReturn
  <2>1. TerminalStatus \in Results
    BY DEF TerminalStatus, TypeOK, Runs, Results
  <2> QED BY <1>10, <2>1 DEF RunReturn, Runs, TypeOK, bizVars, schedVars, bounds
<1>11. CASE RunRecord
  <2>1. faults' \in 0..MaxFaults
    BY <1>11, FaultTypes DEF RunRecord, ReadSlot
  <2>2. run' \in Runs
    <3>1. \A s \in {NextSlotFn, 0} : [run EXCEPT !.at = "recorded", !.next = s] \in Runs
      BY ReadSlotNat DEF TypeOK, Runs
    <3> QED BY <1>11, <3>1 DEF RunRecord
  <2> QED BY <1>11, <2>1, <2>2 DEF RunRecord, TypeOK, bizVars, schedVars
<1>12. CASE RunFinish
  <2>1. slot' \in Nat /\ doneSlot' \in Nat /\ evalAt' \in 0..MaxTime
    BY <1>12 DEF RunFinish, Fresh, TypeOK, Runs
  <2>6. loopEnabled' \in BOOLEAN /\ stopReason' \in BOOLEAN
    BY <1>12 DEF RunFinish, TypeOK
  <2>2. failStreak' \in 0..StopLimit - 1
    BY <1>12 DEF RunFinish, StopsSchedule, TypeOK
  <2>3. retryAfter' \in Nat
    <3>1. \A n \in Nat : Backoff(n) \in Nat
      BY BackoffNat
    <3>2. now \in Nat /\ failStreak \in Nat
      BY DEF TypeOK
    <3> QED BY <1>12, <3>1, <3>2 DEF RunFinish
  <2>4. run' \in Runs
    BY <1>12 DEF RunFinish, NoRun, TypeOK, Runs, Triggers, Causes, Results
  <2>5. spent' \subseteq Nat
    BY <1>12 DEF RunFinish, TypeOK, Runs
  <2> QED BY <1>12, <2>1, <2>2, <2>3, <2>4, <2>5, <2>6
          DEF RunFinish, TypeOK, bizVars, bounds
<1>13. CASE CancelClaim
  BY <1>13 DEF CancelClaim, TypeOK, Runs, Cancels, bizVars, schedVars
<1>14. CASE CancelHook
  <2>1. run' \in Runs /\ cancel' \in Cancels
    BY <1>14 DEF CancelHook, Sooner, TypeOK, Causes, Runs, Cancels
  <2> QED BY <1>14, <2>1 DEF CancelHook, TypeOK, bizVars, schedVars, bounds
<1>15. CASE CancelApply
  <2>1. run' \in Runs /\ cancel' \in Cancels
    BY <1>15 DEF CancelApply, Sooner, TypeOK, Causes, Runs, Cancels
  <2>2. doneSlot' \in Nat /\ spent' \subseteq Nat
    BY <1>15 DEF CancelApply, TypeOK
  <2> QED BY <1>15, <2>1, <2>2 DEF CancelApply, TypeOK, bizVars, bounds
<1>16. ASSUME NEW isMaster \in BOOLEAN, SetRole(isMaster) PROVE TypeOK'
  BY <1>16, SystemCancelledTypes DEF SetRole, TypeOK, bizVars, schedVars
<1>17. CASE Drain
  BY <1>17, SystemCancelledTypes DEF Drain, TypeOK, bizVars, schedVars
<1>18. ASSUME NEW enabled \in BOOLEAN, SaveAutoUpdate(enabled) PROVE TypeOK'
  <2>1. SlotAfter(now) \in Nat
    BY SlotAfterNat DEF TypeOK
  <2> QED BY <1>18, <2>1 DEF SaveAutoUpdate, TypeOK, schedVars
<1>19. CASE SaveApply
  <2>1. /\ slot' \in Nat /\ doneSlot' \in Nat /\ evalAt' \in 0..MaxTime
        /\ failStreak' \in 0..StopLimit - 1 /\ retryAfter' \in Nat
    BY <1>19 DEF SaveApply, Reset, TypeOK, schedVars
  <2>3. spent' \subseteq Nat
    BY <1>19 DEF SaveApply, Reset, TypeOK, schedVars
  <2>2. loopEnabled' \in BOOLEAN /\ stopReason' \in BOOLEAN
    BY <1>19 DEF SaveApply, Reset, TypeOK, schedVars
  <2> QED BY <1>19, <2>1, <2>2, <2>3 DEF SaveApply, TypeOK, bizVars, bounds
<1>20. CASE Rearm
  <2>1. SlotAfter(now) \in Nat
    BY SlotAfterNat DEF TypeOK
  <2> QED BY <1>20, <2>1 DEF Rearm, TypeOK, schedVars
<1>21. CASE RearmReset
  <2>1. /\ slot' \in Nat /\ doneSlot' \in Nat /\ evalAt' \in 0..MaxTime
        /\ failStreak' \in 0..StopLimit - 1 /\ retryAfter' \in Nat
    BY <1>21 DEF RearmReset, Reset, TypeOK
  <2>2. spent' \subseteq Nat /\ stopReason' \in BOOLEAN
    BY <1>21 DEF RearmReset, Reset
  <2> QED BY <1>21, <2>1, <2>2 DEF RearmReset, TypeOK, bizVars, bounds
<1>22. CASE UNCHANGED vars
  BY <1>22 DEF vars, TypeOK, bizVars, schedVars, bounds
<1> QED BY <1>1, <1>2, <1>3, <1>4, <1>5, <1>6, <1>7, <1>8, <1>9, <1>10, <1>11,
           <1>12, <1>13, <1>14, <1>15, <1>16, <1>17, <1>18, <1>19, <1>20,
           <1>21, <1>22 DEF Next

(***************************************************************************)
(* The variables of TaskSlots keep their types for every period, lead,     *)
(* floor, set of delays and bound; in particular the fail streak of        *)
(* executeRun stays below the limit at which it stops the schedule.        *)
(***************************************************************************)
THEOREM SlotTypes == Spec => []TypeOK
BY InitTypes, NextTypes, PTL DEF Spec

-----------------------------------------------------------------------------
(***************************************************************************)
(* The watermark.                                                          *)
(***************************************************************************)
\* A step consumes no slot that is not past.
LEMMA NextFuture == TypeOK /\ FutureNeverConsumed /\ [Next]_vars => FutureNeverConsumed'
<1> SUFFICES ASSUME TypeOK, FutureNeverConsumed, [Next]_vars
             PROVE  FutureNeverConsumed'
  OBVIOUS
<1> USE DEF FutureNeverConsumed
<1>1. now \in Nat /\ doneSlot \in Nat /\ doneSlot <= now
  BY DEF TypeOK
<1>2. CASE Clock
  BY <1>1, <1>2 DEF Clock, schedVars
<1>3. CASE RunFinish
  <2>1. now' = now
    BY <1>3 DEF RunFinish
  <2>2. doneSlot' \in {0, doneSlot} \/ doneSlot' <= now
    BY <1>3 DEF RunFinish, Spends
  <2> QED BY <1>1, <2>1, <2>2
<1>4. CASE CancelApply
  BY <1>1, <1>4 DEF CancelApply, Consumable
<1>5. CASE SaveApply
  BY <1>1, <1>5 DEF SaveApply, Reset, schedVars
<1>6. CASE RearmReset
  BY <1>1, <1>6 DEF RearmReset, Reset
<1>7. ASSUME UNCHANGED <<now, doneSlot>> PROVE FutureNeverConsumed'
  BY <1>1, <1>7
<1>8. CASE TickStart \/ TickSnapshot \/ TickEvaluate \/ TickStore \/ TickDispatch
  BY <1>7, <1>8 DEF TickStart, TickSnapshot, TickEvaluate, TickStore, TickDispatch,
                    schedVars
<1>9. CASE Trigger \/ RunBegin \/ Settle \/ RunReturn \/ RunRecord
  BY <1>7, <1>9 DEF Trigger, RunBegin, Settle, RunReturn, RunRecord, schedVars
<1>10. CASE CancelClaim \/ CancelHook \/ Drain \/ Rearm
  BY <1>7, <1>10 DEF CancelClaim, CancelHook, Drain, Rearm, schedVars
<1>11. ASSUME NEW b \in BOOLEAN, SetRole(b) \/ SaveAutoUpdate(b)
       PROVE  FutureNeverConsumed'
  BY <1>7, <1>11 DEF SetRole, SaveAutoUpdate, schedVars
<1>12. CASE UNCHANGED vars
  BY <1>7, <1>12 DEF vars, schedVars
<1> QED BY <1>2, <1>3, <1>4, <1>5, <1>6, <1>8, <1>9, <1>10, <1>11, <1>12 DEF Next

(***************************************************************************)
(* No slot of the future is ever consumed, whatever the period and         *)
(* whenever success, cancellation and clock meet: schedDoneSlot is at most *)
(* the present time.                                                       *)
(***************************************************************************)
THEOREM WatermarkIsPast == Spec => []FutureNeverConsumed
<1>1. Init => FutureNeverConsumed
  BY DEF Init, FutureNeverConsumed
<1> QED BY <1>1, SlotTypes, NextFuture, PTL DEF Spec

(***************************************************************************)
(* A late Cancel never consumes the slot of a newer run: the step that     *)
(* ends it moves the watermark only for the automatic run whose generation *)
(* the user saw.                                                           *)
(***************************************************************************)
THEOREM CancelIsOwn == Spec => CancelConsumesItsOwn
<1> DEFINE Own == cancel.at = "apply" /\ cancel'.at = "idle" /\ doneSlot' # doneSlot =>
                     cancel.seq = run.seq /\ cancel.trigger = "auto"
<1>1. TypeOK /\ [Next]_vars => [Own]_vars
  <2> SUFFICES ASSUME TypeOK, Next PROVE Own
    OBVIOUS
  <2>1. CASE CancelApply
    BY <2>1 DEF CancelApply, SameRun, Consumable
  <2>2. ASSUME cancel' = cancel PROVE Own
    BY <2>2
  <2>3. CASE CancelClaim \/ CancelHook
    BY <2>3 DEF CancelClaim, CancelHook
  <2>4. CASE Clock \/ TickStart \/ TickSnapshot \/ TickEvaluate \/ TickStore \/ TickDispatch
    BY <2>2, <2>4 DEF Clock, TickStart, TickSnapshot, TickEvaluate, TickStore, TickDispatch
  <2>5. CASE Trigger \/ RunBegin \/ Settle \/ RunReturn \/ RunRecord \/ RunFinish
    BY <2>2, <2>5 DEF Trigger, RunBegin, Settle, RunReturn, RunRecord, RunFinish
  <2>6. CASE Drain \/ SaveApply \/ Rearm \/ RearmReset
    BY <2>2, <2>6 DEF Drain, SaveApply, Rearm, RearmReset
  <2>7. ASSUME NEW b \in BOOLEAN, SetRole(b) \/ SaveAutoUpdate(b) PROVE Own
    BY <2>2, <2>7 DEF SetRole, SaveAutoUpdate
  <2> QED BY <2>1, <2>3, <2>4, <2>5, <2>6, <2>7 DEF Next
<1> QED BY <1>1, SlotTypes, PTL DEF Spec, CancelConsumesItsOwn

-----------------------------------------------------------------------------
(***************************************************************************)
(* A slot runs once.  The strengthening says where a spent slot can still  *)
(* be found: nowhere, unless the watermark covers it.                      *)
(***************************************************************************)
AutoRun == Running /\ run.trigger = "auto"

\* The row holds no slot while the switch is off.
SwitchOff == ~autoUpdate => dbSlot = 0

\* A tick never works with a time of the future, and an automatic run and a
\* tick past its snapshot exclude each other: only the tick starts such a
\* run, and it snapshots only while none is in flight.
TickApart == tick.now <= now /\ (AutoRun => tick.at \in {"idle", "begun"})

\* During an automatic run the cache holds the slot of the run, or nothing.
CacheOfRun ==
    AutoRun =>
        /\ 0 < run.on /\ run.on <= now /\ slot \in {run.on, 0}
        /\ run.at # "reserved" => run.base \in {run.on, 0}
        /\ run.at # "reserved" /\ run.base = 0 => slot = 0

\* Once an automatic run has succeeded, the row holds another slot.
MovedOn ==
    /\ run.at \in {"none", "reserved", "body"} => run.err = ""
    /\ AutoRun /\ run.err = "success" =>
          /\ dbSlot # run.on
          /\ run.at = "recorded" => run.next # run.on

\* A spent slot is past, and wherever it is still found it is consumed.
SpentCovered ==
    \A s \in spent :
        /\ s <= now
        /\ dbSlot = s => s <= doneSlot
        /\ slot = s => s <= doneSlot
        /\ tick.at = "evaluated" /\ tick.next = s => s <= doneSlot
        /\ run.at = "recorded" /\ run.next = s => s <= doneSlot

OnceInv ==
    /\ TypeOK /\ SwitchOff /\ TickApart /\ CacheOfRun /\ MovedOn
    /\ SpentCovered /\ SlotRunsOnce

\* The first slot after a time lies after it.
LEMMA SlotAfterLater ==
    ASSUME NEW t \in Nat
    PROVE  SlotAfter(t) \in Nat /\ SlotAfter(t) > t
<1> DEFINE q == t \div Period
<1>1. q \in Nat /\ t < (q + 1) * Period
  BY SlotsAssumption
<1> QED BY <1>1, SlotAfterNat DEF SlotAfter

\* What the strengthening reads of the state, with its types.
LEMMA OnceTypes ==
    ASSUME TypeOK
    PROVE  /\ now \in Nat /\ dbSlot \in Nat /\ slot \in Nat /\ doneSlot \in Nat
           /\ tick.now \in Nat /\ tick.next \in Nat /\ tick.prev \in Nat
           /\ run.on \in Nat /\ run.base \in Nat /\ run.next \in Nat
           /\ spent \subseteq Nat
BY SlotsAssumption DEF TypeOK, Runs, Ticks

\* The initial states satisfy the strengthening.
LEMMA OnceInit == Init => OnceInv
<1> SUFFICES ASSUME Init PROVE OnceInv
  OBVIOUS
<1>1. TypeOK
  BY InitTypes
<1>2. run.at = "none" /\ run.err = "" /\ tick.at = "idle" /\ tick.now = 0
  BY DEF Init, NoRun, NoTick
<1>3. autoUpdate /\ now = 1 /\ spent = {}
  BY DEF Init
<1>4. SwitchOff /\ CacheOfRun /\ MovedOn
  BY <1>2, <1>3 DEF SwitchOff, CacheOfRun, MovedOn, AutoRun, Running
<1>6. TickApart
  <2>1. tick.now <= now
    BY DEF Init, NoTick
  <2>2. tick.at \in {"idle", "begun"}
    BY <1>2
  <2> QED BY <2>1, <2>2 DEF TickApart
<1>5. SpentCovered /\ SlotRunsOnce
  BY <1>2, <1>3 DEF SpentCovered, SlotRunsOnce
<1> QED BY <1>1, <1>4, <1>5, <1>6 DEF OnceInv

\* A step that only moves the clock, the tick and what lies outside.
LEMMA OnceFrame ==
    ASSUME OnceInv, TypeOK', now' >= now, tick'.now <= now',
           AutoRun => tick'.at \in {"idle", "begun"},
           tick'.at = "evaluated" => tick.at = "evaluated" /\ tick'.next = tick.next,
           UNCHANGED <<autoUpdate, dbSlot, slot, doneSlot, run, spent>>
    PROVE  OnceInv'
<1>1. now' \in Nat
  BY OnceTypes DEF TypeOK
<1>2. SwitchOff' /\ TickApart' /\ MovedOn' /\ SlotRunsOnce'
  BY DEF OnceInv, SwitchOff, TickApart, MovedOn, SlotRunsOnce, AutoRun, Running
<1>3. CacheOfRun'
  BY <1>1, OnceTypes DEF OnceInv, CacheOfRun, AutoRun, Running
<1>4. SpentCovered'
  BY <1>1, OnceTypes DEF OnceInv, SpentCovered
<1> QED BY <1>2, <1>3, <1>4 DEF OnceInv

\* The steps of the run and of the user that leave slot, row, history and
\* watermark alone, and keep what the strengthening says of the run.
LEMMA OnceRunFrame ==
    ASSUME OnceInv, TypeOK', CacheOfRun', MovedOn', SlotRunsOnce',
           AutoRun' => tick.at \in {"idle", "begun"},
           \A s \in spent : run'.at = "recorded" /\ run'.next = s => s <= doneSlot,
           UNCHANGED <<now, autoUpdate, dbSlot, slot, doneSlot, spent, tick>>
    PROVE  OnceInv'
<1>1. SwitchOff' /\ TickApart'
  BY DEF OnceInv, SwitchOff, TickApart, AutoRun, Running
<1>2. SpentCovered'
  BY DEF OnceInv, SpentCovered
<1> QED BY <1>1, <1>2 DEF OnceInv

\* The row moves to an empty slot or to one of the future.
LEMMA OnceRowFrame ==
    ASSUME OnceInv, TypeOK', SwitchOff', dbSlot' \in {dbSlot, 0} \/ dbSlot' > now,
           UNCHANGED <<now, slot, doneSlot, run, spent, tick>>
    PROVE  OnceInv'
<1> USE OnceTypes
<1>1. dbSlot' \in Nat
  BY DEF TypeOK
<1>2. TickApart' /\ CacheOfRun' /\ SlotRunsOnce'
  BY DEF OnceInv, TickApart, CacheOfRun, SlotRunsOnce, AutoRun, Running
<1>3. MovedOn'
  <2>1. AutoRun /\ run.err = "success" => dbSlot' # run.on
    <3> SUFFICES ASSUME AutoRun, run.err = "success" PROVE dbSlot' # run.on
      OBVIOUS
    <3>1. 0 < run.on /\ run.on <= now /\ dbSlot # run.on
      BY DEF OnceInv, CacheOfRun, MovedOn
    <3>2. now \in Nat /\ run.on \in Nat
      BY DEF OnceInv
    <3> QED BY <1>1, <3>1, <3>2
  <2> QED BY <2>1 DEF OnceInv, MovedOn, AutoRun, Running
<1>4. SpentCovered'
  BY <1>1 DEF OnceInv, SpentCovered
<1> QED BY <1>2, <1>3, <1>4 DEF OnceInv

\* The engine forgets the slot, and the history with it.
LEMMA OnceReset ==
    ASSUME OnceInv, TypeOK', Reset,
           UNCHANGED <<now, autoUpdate, dbSlot, run, tick>>
    PROVE  OnceInv'
<1>1. SwitchOff' /\ TickApart' /\ MovedOn' /\ SlotRunsOnce' /\ SpentCovered'
  BY DEF OnceInv, Reset, SwitchOff, TickApart, MovedOn, SlotRunsOnce, SpentCovered,
         AutoRun, Running
<1>2. CacheOfRun'
  BY DEF OnceInv, Reset, CacheOfRun, AutoRun, Running
<1> QED BY <1>1, <1>2 DEF OnceInv

\* Cancelling contexts changes nothing the strengthening reads, but can only
\* end the liveness of a run.
LEMMA OnceCancelFrame ==
    ASSUME OnceInv, TypeOK',
           run'.at = run.at, run'.trigger = run.trigger, run'.on = run.on,
           run'.base = run.base, run'.err = run.err, run'.next = run.next,
           run'.ctx = "live" => run.ctx = "live",
           UNCHANGED <<now, autoUpdate, dbSlot, slot, doneSlot, spent, tick>>
    PROVE  OnceInv'
<1>1. CacheOfRun' /\ MovedOn' /\ SlotRunsOnce'
  BY DEF OnceInv, CacheOfRun, MovedOn, SlotRunsOnce, AutoRun, Running
<1>2. AutoRun' => tick.at \in {"idle", "begun"}
  BY DEF OnceInv, TickApart, AutoRun, Running
<1>3. \A s \in spent : run'.at = "recorded" /\ run'.next = s => s <= doneSlot
  BY DEF OnceInv, SpentCovered
<1> QED BY <1>1, <1>2, <1>3, OnceRunFrame

\* A tick stores the slot it evaluated.
LEMMA OnceTickStore == OnceInv /\ TypeOK' /\ TickStore => OnceInv'
<1> SUFFICES ASSUME OnceInv, TypeOK', TickStore PROVE OnceInv'
  OBVIOUS
<1> USE OnceTypes
<1>1. ~AutoRun /\ TypeOK /\ tick.at = "evaluated"
  BY DEF OnceInv, TickApart, TickStore
<1>2. UNCHANGED <<now, autoUpdate, dbSlot, doneSlot, run, spent>>
  BY DEF TickStore, bizVars
<1>3. slot' \in {slot, tick.next} /\ tick'.at # "evaluated" /\ tick'.now \in {0, tick.now}
  BY <1>1 DEF TickStore, Fresh, NoTick, TypeOK, Ticks
<1>4. SwitchOff' /\ CacheOfRun' /\ MovedOn' /\ SlotRunsOnce'
  BY <1>1, <1>2 DEF OnceInv, SwitchOff, CacheOfRun, MovedOn, SlotRunsOnce, AutoRun,
                    Running
<1>5. TickApart'
  BY <1>1, <1>2, <1>3 DEF OnceInv, TickApart, AutoRun, Running
<1>6. SpentCovered'
  BY <1>1, <1>2, <1>3 DEF OnceInv, SpentCovered
<1> QED BY <1>4, <1>5, <1>6 DEF OnceInv

\* A tick evaluates the slot: it finds what the row holds, or nothing.
LEMMA OnceTickEvaluate == OnceInv /\ TypeOK' /\ TickEvaluate => OnceInv'
<1> SUFFICES ASSUME OnceInv, TypeOK', TickEvaluate PROVE OnceInv'
  OBVIOUS
<1> USE OnceTypes
<1>1. ~AutoRun /\ TypeOK /\ tick.at = "snapped"
  BY DEF OnceInv, TickApart, TickEvaluate
<1>2. UNCHANGED <<now, autoUpdate, dbSlot, slot, doneSlot, run, spent>>
  BY DEF TickEvaluate, bizVars
<1>3. /\ tick'.at = "evaluated" => tick'.next \in {dbSlot, 0}
      /\ tick'.now \in {0, tick.now}
  <2>1. CASE tick' = NoTick
    BY <2>1 DEF NoTick
  <2>2. ASSUME NEW s \in {NextSlotFn, 0},
               tick' = [tick EXCEPT !.at = "evaluated", !.next = s]
        PROVE  tick'.next \in {dbSlot, 0} /\ tick'.now = tick.now
    BY <1>1, <2>2 DEF NextSlotFn, TypeOK, Ticks
  <2> QED BY <2>1, <2>2 DEF TickEvaluate
<1>4. SwitchOff' /\ CacheOfRun' /\ MovedOn' /\ SlotRunsOnce'
  BY <1>1, <1>2 DEF OnceInv, SwitchOff, CacheOfRun, MovedOn, SlotRunsOnce, AutoRun,
                    Running
<1>5. TickApart'
  BY <1>1, <1>2, <1>3 DEF OnceInv, TickApart, AutoRun, Running
<1>6. SpentCovered'
  BY <1>1, <1>2, <1>3 DEF OnceInv, SpentCovered
<1> QED BY <1>4, <1>5, <1>6 DEF OnceInv

\* A tick starts a run on a slot above the watermark: not a spent one.
LEMMA OnceTickDispatch == OnceInv /\ TypeOK' /\ TickDispatch => OnceInv'
<1> SUFFICES ASSUME OnceInv, TypeOK', TickDispatch PROVE OnceInv'
  OBVIOUS
<1> USE OnceTypes
<1>1. ~AutoRun /\ TypeOK /\ tick.now <= now
  BY DEF OnceInv, TickApart, TickDispatch
<1>2. UNCHANGED <<now, autoUpdate, dbSlot, slot, doneSlot, spent>>
  BY DEF TickDispatch, bizVars, schedVars
<1>3. tick'.at = "idle" /\ tick'.now = 0
  BY DEF TickDispatch, NoTick
<1>4. SwitchOff' /\ TickApart'
  BY <1>1, <1>2, <1>3 DEF OnceInv, SwitchOff, TickApart
<1>5. CASE run' = run
  <2>1. CacheOfRun' /\ MovedOn' /\ SlotRunsOnce' /\ SpentCovered'
    BY <1>1, <1>2, <1>3, <1>5 DEF OnceInv, CacheOfRun, MovedOn, SlotRunsOnce,
                                  SpentCovered, AutoRun, Running
  <2> QED BY <1>4, <2>1 DEF OnceInv
<1>6. CASE run' = Reserved("auto") /\ StillDue(tick.now)
  <2>1. /\ run'.at = "reserved" /\ run'.err = "" /\ run'.on = slot
        /\ run'.trigger = "auto"
    BY <1>6 DEF Reserved, NoRun
  <2>2. slot # 0 /\ slot < tick.now /\ slot > doneSlot
    BY <1>1, <1>6 DEF StillDue
  <2>3. slot \notin spent
    BY <1>1, <2>2 DEF OnceInv, SpentCovered
  <2>4. CacheOfRun'
    <3>1. 0 < slot /\ slot <= now
      BY <1>1, <2>2
    <3> QED BY <1>2, <2>1, <3>1 DEF CacheOfRun
  <2>7. MovedOn'
    BY <2>1 DEF MovedOn
  <2>5. SlotRunsOnce'
    BY <1>2, <2>1, <2>3 DEF SlotRunsOnce
  <2>6. SpentCovered'
    BY <1>2, <1>3, <2>1 DEF OnceInv, SpentCovered
  <2> QED BY <1>4, <2>4, <2>5, <2>6, <2>7 DEF OnceInv
<1> QED BY <1>5, <1>6 DEF TickDispatch

\* The body settles: an automatic success leaves another slot in the row.
LEMMA OnceSettle == OnceInv /\ TypeOK' /\ Settle => OnceInv'
<1> SUFFICES ASSUME OnceInv, TypeOK', Settle PROVE OnceInv'
  OBVIOUS
<1>1. TypeOK /\ run.at = "body" /\ run.err = ""
  BY DEF OnceInv, Settle, MovedOn
<1>0. /\ now \in Nat /\ slot \in Nat /\ doneSlot \in Nat /\ dbSlot \in Nat
      /\ run.on \in Nat /\ spent \subseteq Nat /\ dbSlot' \in Nat
  BY <1>1, OnceTypes DEF TypeOK
<1>2. UNCHANGED <<now, autoUpdate, slot, doneSlot, spent, tick>>
  BY DEF Settle, schedVars
<1>3. /\ run'.at = "settled" /\ run'.trigger = run.trigger /\ run'.ctx = run.ctx
      /\ run'.on = run.on /\ run'.base = run.base
  <2>1. \E e : run' = [run EXCEPT !.at = "settled", !.err = e]
    BY Zenon DEF Settle
  <2>2. PICK e : run' = [run EXCEPT !.at = "settled", !.err = e]
    BY <2>1
  <2> QED BY <1>1, <2>2 DEF TypeOK, Runs
<1>4. SlotAfter(now) \in Nat /\ SlotAfter(now) > now
  BY <1>0, SlotAfterLater
<1>5. dbSlot' = dbSlot \/ (autoUpdate /\ dbSlot' = SlotAfter(now))
  BY DEF Settle, Move, MovesOnSuccess, MovesOnFailure
<1>6. SwitchOff'
  BY <1>2, <1>5 DEF OnceInv, SwitchOff
<1>7. TickApart'
  BY <1>1, <1>2, <1>3 DEF OnceInv, TickApart, AutoRun, Running
<1>8. CacheOfRun'
  BY <1>1, <1>2, <1>3 DEF OnceInv, CacheOfRun, AutoRun, Running
<1>9. SlotRunsOnce'
  BY <1>3 DEF SlotRunsOnce
<1>10. SpentCovered'
  <2> SUFFICES ASSUME NEW s \in spent
               PROVE  /\ s <= now /\ (dbSlot' = s => s <= doneSlot)
                      /\ (slot = s => s <= doneSlot)
                      /\ (tick.at = "evaluated" /\ tick.next = s => s <= doneSlot)
    BY <1>2, <1>3 DEF SpentCovered
  <2>1. /\ s <= now /\ (dbSlot = s => s <= doneSlot)
        /\ (slot = s => s <= doneSlot)
        /\ (tick.at = "evaluated" /\ tick.next = s => s <= doneSlot)
    BY DEF OnceInv, SpentCovered
  <2>2. s \in Nat
    BY <1>0
  <2>3. dbSlot' = SlotAfter(now) => dbSlot' # s
    BY <1>0, <1>4, <2>1, <2>2
  <2> QED BY <1>5, <2>1, <2>3
<1>11. MovedOn'
  <2> SUFFICES ASSUME run.trigger = "auto", run'.err = "success"
               PROVE  dbSlot' # run.on
    BY <1>3 DEF MovedOn, AutoRun, Running
  <2>1. 0 < run.on /\ run.on <= now
    BY <1>1 DEF OnceInv, CacheOfRun, AutoRun, Running
  <2>2. Move(MovesOnSuccess)
    BY <1>1 DEF Settle, TypeOK, Runs
  <2>3. CASE MovesOnSuccess
    <3>1. dbSlot' = SlotAfter(now)
      BY <2>2, <2>3 DEF Move
    <3> QED BY <1>0, <1>4, <2>1, <3>1
  <2>4. CASE ~MovesOnSuccess
    <3>1. dbSlot' = dbSlot
      BY <2>2, <2>4 DEF Move
    <3>2. autoUpdate => ~Expired
      BY <2>4 DEF MovesOnSuccess
    <3>4. ~Expired => dbSlot = 0 \/ dbSlot > now
      BY <1>0 DEF Expired
    <3>5. ~autoUpdate => dbSlot = 0
      BY DEF OnceInv, SwitchOff
    <3>6. dbSlot = 0 \/ dbSlot > now
      BY <3>2, <3>4, <3>5
    <3> QED BY <1>0, <2>1, <3>1, <3>6
  <2> QED BY <2>3, <2>4
<1> QED BY <1>6, <1>7, <1>8, <1>9, <1>10, <1>11 DEF OnceInv

\* The other steps of a run that leave the schedule alone.
LEMMA OnceRunSteps ==
    OnceInv /\ TypeOK' /\ (Trigger \/ RunBegin \/ RunReturn \/ RunRecord) => OnceInv'
<1> SUFFICES ASSUME OnceInv, TypeOK', Trigger \/ RunBegin \/ RunReturn \/ RunRecord
             PROVE  OnceInv'
  OBVIOUS
<1>1. TypeOK
  BY DEF OnceInv
<1> USE OnceTypes, <1>1
<1>2. UNCHANGED <<now, autoUpdate, dbSlot, slot, doneSlot, spent, tick>>
  BY DEF Trigger, RunBegin, RunReturn, RunRecord, bizVars, schedVars
<1>3. CASE Trigger
  <2>1. run'.at = "reserved" /\ run'.err = "" /\ run'.trigger = "manual"
    BY <1>3 DEF Trigger, Reserved, NoRun
  <2>2. CacheOfRun' /\ MovedOn' /\ SlotRunsOnce' /\ ~AutoRun'
    BY <2>1 DEF CacheOfRun, MovedOn, SlotRunsOnce, AutoRun
  <2> QED BY <1>2, <2>1, <2>2, OnceRunFrame
<1>4. CASE RunBegin
  <2>1. /\ run.at = "reserved" /\ run'.at = "body" /\ run'.err = run.err
        /\ run'.trigger = run.trigger /\ run'.on = run.on /\ run'.base = slot
        /\ run'.ctx = run.ctx
    BY <1>4 DEF RunBegin, TypeOK, Runs
  <2>2. CacheOfRun' /\ MovedOn' /\ SlotRunsOnce'
    BY <1>2, <2>1 DEF OnceInv, CacheOfRun, MovedOn, SlotRunsOnce, AutoRun, Running
  <2>3. AutoRun' => tick.at \in {"idle", "begun"}
    BY <2>1 DEF OnceInv, TickApart, AutoRun, Running
  <2> QED BY <1>2, <2>1, <2>2, <2>3, OnceRunFrame
<1>5. CASE RunReturn
  <2>1. /\ run.at = "settled" /\ run'.at = "returned" /\ run'.err = TerminalStatus
        /\ run'.trigger = run.trigger /\ run'.on = run.on /\ run'.base = run.base
        /\ run'.ctx = run.ctx
    BY <1>5 DEF RunReturn, TypeOK, Runs
  <2>2. run'.err = "success" => run.err = "success"
    BY <2>1 DEF TerminalStatus
  <2>3. CacheOfRun' /\ MovedOn' /\ SlotRunsOnce'
    BY <1>2, <2>1, <2>2 DEF OnceInv, CacheOfRun, MovedOn, SlotRunsOnce, AutoRun,
                            Running
  <2>4. AutoRun' => tick.at \in {"idle", "begun"}
    BY <2>1 DEF OnceInv, TickApart, AutoRun, Running
  <2> QED BY <1>2, <2>1, <2>3, <2>4, OnceRunFrame
<1>6. CASE RunRecord
  <2>1. PICK s \in {NextSlotFn, 0} : run' = [run EXCEPT !.at = "recorded", !.next = s]
    BY <1>6 DEF RunRecord
  <2>2. /\ run.at = "returned" /\ run'.at = "recorded" /\ run'.err = run.err
        /\ run'.trigger = run.trigger /\ run'.on = run.on /\ run'.base = run.base
        /\ run'.ctx = run.ctx /\ run'.next \in {dbSlot, 0}
    BY <1>6, <2>1 DEF RunRecord, TypeOK, Runs, NextSlotFn
  <2>3. CacheOfRun' /\ SlotRunsOnce'
    BY <1>2, <2>2 DEF OnceInv, CacheOfRun, SlotRunsOnce, AutoRun, Running
  <2>4. MovedOn'
    BY <1>2, <2>2 DEF OnceInv, CacheOfRun, MovedOn, AutoRun, Running
  <2>5. AutoRun' => tick.at \in {"idle", "begun"}
    BY <2>2 DEF OnceInv, TickApart, AutoRun, Running
  <2>6. \A x \in spent : run'.next = x => x <= doneSlot
    BY <2>2 DEF OnceInv, SpentCovered
  <2> QED BY <1>2, <2>3, <2>4, <2>5, <2>6, OnceRunFrame
<1> QED BY <1>3, <1>4, <1>5, <1>6

\* A cancellation spends the slot it puts under the watermark.
LEMMA OnceCancelApply == OnceInv /\ TypeOK' /\ CancelApply => OnceInv'
<1> SUFFICES ASSUME OnceInv, TypeOK', CancelApply PROVE OnceInv'
  OBVIOUS
<1>1. TypeOK
  BY DEF OnceInv
<1>2. /\ now \in Nat /\ slot \in Nat /\ doneSlot \in Nat /\ spent \subseteq Nat
      /\ doneSlot' \in Nat /\ spent' \subseteq Nat
  BY <1>1, OnceTypes DEF TypeOK
<1>3. UNCHANGED <<now, autoUpdate, dbSlot, slot, tick>>
  BY DEF CancelApply, bizVars
<1>4. CASE ~SameRun
  <2>1. UNCHANGED <<run, doneSlot, spent>>
    BY <1>4 DEF CancelApply
  <2> QED BY <1>3, <2>1, OnceCancelFrame
<1>5. CASE SameRun
  <2>1. /\ run'.at = run.at /\ run'.trigger = run.trigger /\ run'.on = run.on
        /\ run'.base = run.base /\ run'.err = run.err /\ run'.next = run.next
        /\ run'.ctx # "live"
    BY <1>1, <1>5 DEF CancelApply, Sooner, TypeOK, Runs
  <2>2. SwitchOff' /\ TickApart' /\ CacheOfRun' /\ MovedOn'
    BY <1>3, <2>1 DEF OnceInv, SwitchOff, TickApart, CacheOfRun, MovedOn, AutoRun,
                      Running
  <2>3. SlotRunsOnce'
    BY <2>1 DEF SlotRunsOnce
  <2>4. \/ UNCHANGED <<doneSlot, spent>>
        \/ /\ slot <= now /\ slot > doneSlot
           /\ doneSlot' = slot /\ spent' = spent \cup {slot}
    BY <1>5 DEF CancelApply, Consumable
  <2>5. SpentCovered'
    <3> SUFFICES ASSUME NEW s \in spent'
                 PROVE  /\ s <= now /\ (dbSlot = s => s <= doneSlot')
                        /\ (slot = s => s <= doneSlot')
                        /\ (tick.at = "evaluated" /\ tick.next = s => s <= doneSlot')
                        /\ (run.at = "recorded" /\ run.next = s => s <= doneSlot')
      BY <1>3, <2>1 DEF SpentCovered
    <3>1. s \in Nat
      BY <1>2
    <3>2. CASE s \in spent
      <4>1. doneSlot <= doneSlot'
        BY <1>2, <2>4
      <4> QED BY <1>2, <3>1, <3>2, <4>1 DEF OnceInv, SpentCovered
    <3>3. CASE s \notin spent
      BY <1>2, <2>4, <3>3
    <3> QED BY <3>2, <3>3
  <2> QED BY <2>2, <2>3, <2>5 DEF OnceInv
<1> QED BY <1>4, <1>5

\* The end of a run: an automatic success spends its slot, which is neither
\* in the row nor in the cache any more.
LEMMA OnceRunFinish == OnceInv /\ TypeOK' /\ RunFinish => OnceInv'
<1> SUFFICES ASSUME OnceInv, TypeOK', RunFinish PROVE OnceInv'
  OBVIOUS
<1>1. TypeOK /\ run.at = "recorded"
  BY DEF OnceInv, RunFinish
<1>2. /\ now \in Nat /\ slot \in Nat /\ doneSlot \in Nat /\ dbSlot \in Nat
      /\ run.on \in Nat /\ run.next \in Nat /\ run.base \in Nat
      /\ tick.next \in Nat /\ spent \subseteq Nat
      /\ doneSlot' \in Nat /\ spent' \subseteq Nat /\ slot' \in Nat
  BY <1>1, OnceTypes DEF TypeOK
<1>3. UNCHANGED <<now, autoUpdate, dbSlot, tick>>
  BY DEF RunFinish, bizVars
<1>4. run'.at = "none" /\ run'.err = ""
  BY DEF RunFinish, NoRun
<1>5. SwitchOff' /\ CacheOfRun' /\ MovedOn' /\ SlotRunsOnce'
  BY <1>3, <1>4 DEF OnceInv, SwitchOff, CacheOfRun, MovedOn, SlotRunsOnce, AutoRun,
                    Running
<1>6. TickApart'
  BY <1>3, <1>4 DEF OnceInv, TickApart, AutoRun, Running
<1>7. CASE run.err = "notAdvanced"
  <2>1. spent' = {}
    BY <1>7 DEF RunFinish
  <2> QED BY <1>5, <1>6, <2>1 DEF OnceInv, SpentCovered
<1>8. CASE run.err # "notAdvanced"
  <2>1. slot' = IF slot = run.base THEN run.next ELSE slot
    BY DEF RunFinish, Fresh
  <2>2. doneSlot' = doneSlot \/ doneSlot' > doneSlot
    BY <1>8 DEF RunFinish, Spends
  <2>3. doneSlot <= doneSlot'
    BY <1>2, <2>2
  <2>4. spent' = spent \cup
                 {x \in {run.on} : run.trigger = "auto" /\ run.err = "success"}
    BY <1>8 DEF RunFinish
  <2>5. ASSUME NEW s \in spent
        PROVE  /\ s <= now /\ (dbSlot = s => s <= doneSlot')
               /\ (slot' = s => s <= doneSlot')
               /\ (tick.at = "evaluated" /\ tick.next = s => s <= doneSlot')
    <3>1. s \in Nat
      BY <1>2
    <3>2. /\ s <= now /\ (dbSlot = s => s <= doneSlot)
          /\ (slot = s => s <= doneSlot) /\ (run.next = s => s <= doneSlot)
          /\ (tick.at = "evaluated" /\ tick.next = s => s <= doneSlot)
      BY <1>1 DEF OnceInv, SpentCovered
    <3>3. s <= doneSlot => s <= doneSlot'
      BY <1>2, <2>3, <3>1
    <3> QED BY <2>1, <3>2, <3>3
  <2>6. ASSUME run.trigger = "auto", run.err = "success"
        PROVE  /\ run.on <= now /\ dbSlot # run.on /\ slot' # run.on
               /\ tick.at # "evaluated"
    <3>1. AutoRun
      BY <1>1, <2>6 DEF AutoRun, Running
    <3>2. /\ 0 < run.on /\ run.on <= now /\ slot \in {run.on, 0}
          /\ run.base \in {run.on, 0} /\ (run.base = 0 => slot = 0)
      BY <1>1, <3>1 DEF OnceInv, CacheOfRun
    <3>3. dbSlot # run.on /\ run.next # run.on
      BY <1>1, <2>6, <3>1 DEF OnceInv, MovedOn
    <3>4. tick.at # "evaluated"
      BY <3>1 DEF OnceInv, TickApart
    <3>5. slot' # run.on
      BY <1>2, <2>1, <3>2, <3>3
    <3> QED BY <3>2, <3>3, <3>4, <3>5
  <2>7. SpentCovered'
    <3> SUFFICES ASSUME NEW s \in spent'
                 PROVE  /\ s <= now /\ (dbSlot = s => s <= doneSlot')
                        /\ (slot' = s => s <= doneSlot')
                        /\ (tick.at = "evaluated" /\ tick.next = s => s <= doneSlot')
      BY <1>3, <1>4 DEF SpentCovered
    <3>1. CASE s \in spent
      BY <2>5, <3>1
    <3>2. CASE s \notin spent
      <4>1. s = run.on /\ run.trigger = "auto" /\ run.err = "success"
        BY <2>4, <3>2
      <4> QED BY <2>6, <4>1
    <3> QED BY <3>1, <3>2
  <2> QED BY <1>5, <1>6, <2>7 DEF OnceInv
<1> QED BY <1>7, <1>8

\* Every step keeps the strengthening.
LEMMA OnceNext == OnceInv /\ [Next]_vars => OnceInv'
<1> SUFFICES ASSUME OnceInv, [Next]_vars PROVE OnceInv'
  OBVIOUS
<1>1. TypeOK /\ TypeOK'
  BY NextTypes DEF OnceInv
<1>2. /\ now \in Nat /\ tick.now \in Nat /\ tick.now <= now
      /\ AutoRun => tick.at \in {"idle", "begun"}
  BY <1>1, OnceTypes DEF OnceInv, TickApart
<1>3. SlotAfter(now) > now
  BY <1>2, SlotAfterLater
<1>4. CASE Clock
  <2>1. /\ now' = now + 1
        /\ UNCHANGED <<autoUpdate, dbSlot, slot, doneSlot, run, spent, tick>>
    BY <1>4 DEF Clock, bizVars, schedVars
  <2>2. now' >= now /\ tick'.now <= now'
    BY <1>2, <2>1
  <2> QED BY <1>1, <1>2, <2>1, <2>2, OnceFrame
<1>5. CASE TickStart \/ TickSnapshot
  <2>1. UNCHANGED <<now, autoUpdate, dbSlot, slot, doneSlot, run, spent>>
    BY <1>5 DEF TickStart, TickSnapshot, bizVars, schedVars
  <2>2. /\ tick'.now \in {0, now, tick.now} /\ tick'.at # "evaluated"
        /\ AutoRun => tick'.at \in {"idle", "begun"}
    <3>1. CASE TickStart
      BY <3>1 DEF TickStart, NoTick
    <3>2. CASE TickSnapshot
      <4>1. CASE tick' = NoTick
        BY <4>1 DEF NoTick
      <4>2. CASE ~Running /\ tick' = [tick EXCEPT !.at = "snapped", !.prev = slot]
        <5>1. tick'.at = "snapped" /\ tick'.now = tick.now
          BY <1>1, <4>2 DEF TypeOK, Ticks
        <5> QED BY <4>2, <5>1 DEF AutoRun
      <4> QED BY <3>2, <4>1, <4>2 DEF TickSnapshot
    <3> QED BY <1>5, <3>1, <3>2
  <2>3. now' >= now /\ tick'.now <= now'
    BY <1>2, <2>1, <2>2
  <2> QED BY <1>1, <2>1, <2>2, <2>3, OnceFrame
<1>6. CASE TickEvaluate \/ TickStore \/ TickDispatch
  BY <1>1, <1>6, OnceTickEvaluate, OnceTickStore, OnceTickDispatch
<1>7. CASE Trigger \/ RunBegin \/ RunReturn \/ RunRecord
  BY <1>1, <1>7, OnceRunSteps
<1>8. CASE Settle \/ RunFinish \/ CancelApply
  BY <1>1, <1>8, OnceSettle, OnceRunFinish, OnceCancelApply
<1>9. CASE CancelClaim \/ CancelHook \/ Drain
  <2>1. UNCHANGED <<now, autoUpdate, dbSlot, slot, doneSlot, spent, tick>>
    BY <1>9 DEF CancelClaim, CancelHook, Drain, bizVars, schedVars
  <2>2. /\ run'.at = run.at /\ run'.trigger = run.trigger /\ run'.on = run.on
        /\ run'.base = run.base /\ run'.err = run.err /\ run'.next = run.next
        /\ run'.ctx = "live" => run.ctx = "live"
    BY <1>1, <1>9 DEF CancelClaim, CancelHook, Drain, SystemCancelled, Sooner,
                      TypeOK, Runs
  <2> QED BY <1>1, <2>1, <2>2, OnceCancelFrame
<1>10. ASSUME NEW isMaster \in BOOLEAN, SetRole(isMaster) PROVE OnceInv'
  <2>1. UNCHANGED <<now, autoUpdate, dbSlot, slot, doneSlot, spent, tick>>
    BY <1>10 DEF SetRole, bizVars, schedVars
  <2>2. /\ run'.at = run.at /\ run'.trigger = run.trigger /\ run'.on = run.on
        /\ run'.base = run.base /\ run'.err = run.err /\ run'.next = run.next
        /\ run'.ctx = "live" => run.ctx = "live"
    BY <1>1, <1>10 DEF SetRole, SystemCancelled, Sooner, TypeOK, Runs
  <2> QED BY <1>1, <2>1, <2>2, OnceCancelFrame
<1>11. ASSUME NEW enabled \in BOOLEAN, SaveAutoUpdate(enabled) PROVE OnceInv'
  <2>1. UNCHANGED <<now, slot, doneSlot, run, spent, tick>>
    BY <1>11 DEF SaveAutoUpdate, schedVars
  <2>2. SwitchOff' /\ (dbSlot' \in {dbSlot, 0} \/ dbSlot' > now)
    BY <1>3, <1>11 DEF SaveAutoUpdate, SwitchOff
  <2> QED BY <1>1, <2>1, <2>2, OnceRowFrame
<1>12. CASE Rearm
  <2>1. UNCHANGED <<now, autoUpdate, slot, doneSlot, run, spent, tick>>
    BY <1>12 DEF Rearm, schedVars
  <2>2. SwitchOff' /\ (dbSlot' \in {dbSlot, 0} \/ dbSlot' > now)
    BY <1>3, <1>12 DEF Rearm, SwitchOff, OnceInv
  <2> QED BY <1>1, <2>1, <2>2, OnceRowFrame
<1>13. CASE SaveApply
  <2>1. UNCHANGED <<now, autoUpdate, dbSlot, run, tick>>
    BY <1>13 DEF SaveApply, bizVars
  <2>2. CASE Reset
    BY <1>1, <2>1, <2>2, OnceReset
  <2>3. CASE UNCHANGED <<slot, doneSlot, spent>>
    <3>1. now' >= now /\ tick'.now <= now'
      BY <1>2, <2>1
    <3> QED BY <1>1, <1>2, <2>1, <2>3, <3>1, OnceFrame
  <2> QED BY <1>13, <2>2, <2>3 DEF SaveApply, schedVars
<1>14. CASE RearmReset
  BY <1>1, <1>14, OnceReset DEF RearmReset, bizVars
<1>15. CASE UNCHANGED vars
  <2>1. UNCHANGED <<now, autoUpdate, dbSlot, slot, doneSlot, run, spent, tick>>
    BY <1>15 DEF vars, bizVars, schedVars
  <2>2. now' >= now /\ tick'.now <= now'
    BY <1>2, <2>1
  <2> QED BY <1>1, <1>2, <2>1, <2>2, OnceFrame
<1> QED BY <1>4, <1>5, <1>6, <1>7, <1>8, <1>9, <1>10, <1>11, <1>12, <1>13, <1>14,
           <1>15 DEF Next

(***************************************************************************)
(* A slot runs once: for every period, bound and interleaving of ticks,    *)
(* unlocked evaluations, manual runs, cancellations, role flips, saves and *)
(* database faults, no live automatic run works on a slot that an earlier  *)
(* one succeeded on or that the user gave up.                              *)
(***************************************************************************)
THEOREM SlotOnce == Spec => []SlotRunsOnce
<1>1. OnceInv => SlotRunsOnce
  BY DEF OnceInv
<1> QED BY <1>1, OnceInit, OnceNext, PTL DEF Spec

-----------------------------------------------------------------------------
(***************************************************************************)
(* No silent stall, for a clock that waits for the record of a finished    *)
(* run and histories without faults and flips: whoever settles an          *)
(* automatic run moves its slot on, so that a watermark the slot has not   *)
(* passed belongs to a run that is still to settle.                        *)
(***************************************************************************)
Clean == faults = 0 /\ flips = 0

\* The slot is empty or not yet due.
Ahead(s) == s = 0 \/ s > now

\* Without faults and flips nobody but the user cancels, and every run moves on.
CleanRun == master /\ run.mgr # "system" /\ run.err \notin {"notAdvanced", "skipped"}

\* A run that has settled its slot leaves it ahead of the clock.
SettledAhead ==
    /\ /\ run.at \in {"settled", "returned", "recorded"}
       /\ run.trigger = "auto" \/ run.err = "success"
       => Ahead(dbSlot)
    /\ run.at = "recorded" /\ run.err = "success" => Ahead(run.next)

\* Where the watermark has caught up with the slot, a run is to move the slot.
Unsettled == run.at \in {"reserved", "body"} /\ run.trigger = "auto"
Movable   == dbSlot = 0 \/ dbSlot > doneSlot \/ Unsettled

StallInv == Clean => CleanRun /\ SettledAhead /\ Movable

\* Faults and flips are only ever added to.
LEMMA CleanBack ==
    ASSUME TypeOK, [Next]_vars, Clean'
    PROVE  Clean /\ ~Fault /\ UNCHANGED <<faults, flips>>
<1>1. faults \in Nat /\ flips \in Nat
  BY SlotsAssumption DEF TypeOK
<1>2. ~Fault /\ flips' # flips + 1
  BY <1>1 DEF Fault, Clean
<1>3. UNCHANGED <<faults, flips>>
  <2>1. CASE Clock \/ TickStart \/ TickSnapshot \/ TickStore \/ TickDispatch
    BY <2>1 DEF Clock, TickStart, TickSnapshot, TickStore, TickDispatch, bounds
  <2>2. CASE TickEvaluate \/ RunRecord
    BY <1>2, <2>2 DEF TickEvaluate, RunRecord, ReadSlot
  <2>3. CASE Settle
    BY <1>2, <2>3 DEF Settle
  <2>4. CASE Trigger \/ RunBegin \/ RunReturn \/ RunFinish
    BY <2>4 DEF Trigger, RunBegin, RunReturn, RunFinish, bounds
  <2>5. CASE CancelClaim \/ CancelHook \/ CancelApply
    BY <2>5 DEF CancelClaim, CancelHook, CancelApply, bounds
  <2>6. CASE Drain \/ \E isMaster \in BOOLEAN : SetRole(isMaster)
    BY <1>2, <2>6 DEF Drain, SetRole
  <2>7. CASE SaveApply \/ Rearm \/ RearmReset \/
             \E enabled \in BOOLEAN : SaveAutoUpdate(enabled)
    BY <2>7 DEF SaveApply, Rearm, RearmReset, SaveAutoUpdate, bounds
  <2>8. CASE UNCHANGED vars
    BY <2>8 DEF vars, bounds
  <2> QED BY <2>1, <2>2, <2>3, <2>4, <2>5, <2>6, <2>7, <2>8 DEF Next
<1> QED BY <1>2, <1>3 DEF Clean

\* Settling moves the slot of an automatic run, and that of a successful one.
LEMMA StallSettle ==
    ASSUME OnceInv, FutureNeverConsumed, Clean, StallInv, ~Fault, Settle
    PROVE  (CleanRun /\ SettledAhead /\ Movable)'
<1>1. /\ now \in Nat /\ dbSlot \in Nat /\ doneSlot \in Nat /\ doneSlot <= now
      /\ SlotAfter(now) \in Nat /\ SlotAfter(now) > now
  BY OnceTypes, SlotAfterLater DEF OnceInv, FutureNeverConsumed
<1>2. /\ CleanRun /\ SettledAhead /\ Movable /\ run \in Runs
      /\ run.at = "body" /\ UNCHANGED <<now, master, doneSlot>>
  BY DEF StallInv, OnceInv, TypeOK, Settle, schedVars
<1>3. PICK err \in {"success", "failed", "cancelled"} :
          /\ run' = [run EXCEPT !.at = "settled", !.err = err]
          /\ Move(IF err = "success" THEN MovesOnSuccess ELSE MovesOnFailure)
  BY <1>2 DEF Settle, CleanRun
<1>4. /\ run'.at = "settled" /\ run'.err = err /\ run'.trigger = run.trigger
      /\ run'.mgr = run.mgr
  BY <1>2, <1>3 DEF Runs
<1>5. run.trigger = "auto" \/ err = "success" => Ahead(dbSlot)'
  BY <1>1, <1>2, <1>3
  DEF Move, MovesOnSuccess, MovesOnFailure, Expired, Ahead, OnceInv, SwitchOff
<1>6. dbSlot' = dbSlot \/ dbSlot' > now
  BY <1>1, <1>3 DEF Move
<1>7. dbSlot' = 0 \/ dbSlot' > doneSlot'
  <2>1. dbSlot' \in Nat
    BY <1>1, <1>3 DEF Move
  <2>2. CASE run.trigger = "auto"
    <3>1. dbSlot' = 0 \/ dbSlot' > now
      BY <1>2, <1>5, <2>2 DEF Ahead
    <3> QED BY <1>1, <1>2, <2>1, <3>1
  <2>3. CASE run.trigger # "auto"
    <3>1. dbSlot = 0 \/ dbSlot > doneSlot
      BY <1>2, <2>3 DEF Movable, Unsettled
    <3> QED BY <1>1, <1>2, <1>6, <2>1, <3>1
  <2> QED BY <2>2, <2>3
<1>8. Movable'
  BY <1>7 DEF Movable
<1> QED BY <1>2, <1>4, <1>5, <1>8 DEF CleanRun, SettledAhead

\* The end of a run finds its slot ahead of the clock, so it consumes nothing.
LEMMA StallFinish ==
    ASSUME OnceInv, Clean, StallInv, RunFinish
    PROVE  (CleanRun /\ SettledAhead /\ Movable)'
<1>1. /\ CleanRun /\ SettledAhead /\ Movable /\ run.at = "recorded"
      /\ UNCHANGED <<now, master, dbSlot>>
  BY DEF StallInv, RunFinish, bizVars
<1>2. run'.at = "none" /\ run'.mgr = "live" /\ run'.err = ""
  BY DEF RunFinish, NoRun
<1>3. run.err # "notAdvanced"
  BY <1>1 DEF CleanRun
<1>4. now \in Nat /\ run.next \in Nat
  BY OnceTypes DEF OnceInv
<1>5. ~Spends(run.next, doneSlot)
  BY <1>1, <1>4 DEF SettledAhead, Ahead, Spends
<1>6. doneSlot' = doneSlot
  BY <1>3, <1>5 DEF RunFinish
<1> QED BY <1>1, <1>2, <1>6 DEF CleanRun, SettledAhead, Movable, Unsettled

\* A cancellation consumes the slot of a run that is to move it, or has.
LEMMA StallCancel ==
    ASSUME OnceInv, Clean, StallInv, CancelApply
    PROVE  (CleanRun /\ SettledAhead /\ Movable)'
<1>1. /\ CleanRun /\ SettledAhead /\ Movable /\ run \in Runs
      /\ UNCHANGED <<now, master, dbSlot>>
  BY DEF StallInv, OnceInv, TypeOK, CancelApply, bizVars
<1>2. /\ run'.at = run.at /\ run'.trigger = run.trigger /\ run'.err = run.err
      /\ run'.next = run.next /\ run'.mgr \in {run.mgr, "user"}
  <2>1. CASE run' = run
    BY <2>1
  <2>2. CASE run' = [run EXCEPT !.ctx = Sooner(run.ctx, "user"),
                                !.mgr = Sooner(run.mgr, "user")]
    BY <1>1, <2>2 DEF Runs, Sooner
  <2> QED BY <2>1, <2>2 DEF CancelApply
<1>3. CleanRun' /\ SettledAhead'
  BY <1>1, <1>2 DEF CleanRun, SettledAhead, Ahead
<1>4. CASE doneSlot' = doneSlot
  BY <1>1, <1>2, <1>3, <1>4 DEF Movable, Unsettled
<1>5. CASE doneSlot' = slot /\ Consumable(slot)
  <2>1. /\ run.trigger = "auto" /\ slot <= now
        /\ run.at \in {"reserved", "body", "settled", "returned"}
    BY <1>1, <1>5 DEF Consumable, Runs
  <2>2. CASE run.at \in {"reserved", "body"}
    BY <1>2, <1>3, <2>1, <2>2 DEF Movable, Unsettled
  <2>3. CASE run.at \in {"settled", "returned"}
    <3>1. dbSlot = 0 \/ dbSlot > now
      BY <1>1, <2>1, <2>3 DEF SettledAhead, Ahead
    <3>2. now \in Nat /\ slot \in Nat /\ dbSlot \in Nat
      BY OnceTypes DEF OnceInv
    <3>3. dbSlot' = 0 \/ dbSlot' > doneSlot'
      BY <1>1, <1>5, <2>1, <3>1, <3>2
    <3> QED BY <1>3, <3>3 DEF Movable
  <2> QED BY <2>1, <2>2, <2>3
<1> QED BY <1>4, <1>5 DEF CancelApply

\* Every step keeps the strengthening, if the clock waits for the record.
LEMMA StallNext ==
    ASSUME ~SlowTail, OnceInv, FutureNeverConsumed, StallInv, [Next]_vars
    PROVE  StallInv'
<1> SUFFICES ASSUME Clean' PROVE (CleanRun /\ SettledAhead /\ Movable)'
  BY DEF StallInv
<1>1. /\ TypeOK /\ run \in Runs /\ now \in Nat /\ dbSlot \in Nat /\ doneSlot \in Nat
      /\ doneSlot <= now /\ SlotAfter(now) \in Nat /\ SlotAfter(now) > now
  BY OnceTypes, SlotAfterLater DEF OnceInv, TypeOK, FutureNeverConsumed
<1>2. Clean /\ ~Fault /\ UNCHANGED <<faults, flips>>
  BY <1>1, CleanBack
<1>3. CleanRun /\ SettledAhead /\ Movable
  BY <1>2 DEF StallInv
<1>4. flips' # flips + 1
  BY <1>1, <1>2, SlotsAssumption DEF TypeOK
<1>5. ASSUME UNCHANGED <<now, master, dbSlot, doneSlot, run>>
      PROVE  (CleanRun /\ SettledAhead /\ Movable)'
  BY <1>3, <1>5 DEF CleanRun, SettledAhead, Ahead, Movable, Unsettled
<1>6. ASSUME UNCHANGED <<now, master, dbSlot, doneSlot>>,
             run'.at = run.at, run'.trigger = run.trigger, run'.err = run.err,
             run'.next = run.next, run'.mgr \in {run.mgr, "user"}
      PROVE  (CleanRun /\ SettledAhead /\ Movable)'
  BY <1>3, <1>6 DEF CleanRun, SettledAhead, Ahead, Movable, Unsettled
<1>7. CASE Clock
  BY <1>3, <1>7 DEF Clock, CleanRun, SettledAhead, Movable, Unsettled, bizVars, schedVars
<1>8. CASE TickStart \/ TickSnapshot \/ TickEvaluate \/ TickStore
  BY <1>5, <1>8
  DEF TickStart, TickSnapshot, TickEvaluate, TickStore, bizVars, schedVars
<1>9. CASE TickDispatch \/ Trigger
  <2>1. UNCHANGED <<now, master, dbSlot, doneSlot>>
    BY <1>9 DEF TickDispatch, Trigger, bizVars, schedVars
  <2>2. CASE UNCHANGED run
    BY <1>5, <2>1, <2>2
  <2>3. ASSUME NEW t \in Triggers, run' = Reserved(t), run.at = "none"
        PROVE  (CleanRun /\ SettledAhead /\ Movable)'
    <3>1. run'.at = "reserved" /\ run'.mgr = "live" /\ run'.err = ""
      BY <2>3 DEF Reserved, NoRun
    <3>2. dbSlot' = 0 \/ dbSlot' > doneSlot'
      BY <1>3, <2>1, <2>3 DEF Movable, Unsettled
    <3> QED BY <1>3, <2>1, <3>1, <3>2 DEF CleanRun, SettledAhead, Movable
  <2> QED BY <1>9, <2>2, <2>3 DEF TickDispatch, Trigger, Triggers, Running
<1>10. CASE RunBegin
  <2>1. /\ UNCHANGED <<now, master, dbSlot, doneSlot>> /\ run.at = "reserved"
        /\ run' = [run EXCEPT !.at = "body", !.base = slot]
    BY <1>10 DEF RunBegin, bizVars, schedVars
  <2>2. /\ run'.at = "body" /\ run'.trigger = run.trigger /\ run'.err = run.err
        /\ run'.mgr = run.mgr
    BY <1>1, <2>1 DEF Runs
  <2> QED BY <1>3, <2>1, <2>2 DEF CleanRun, SettledAhead, Movable, Unsettled
<1>11. CASE Settle
  BY <1>2, <1>11, StallSettle
<1>12. CASE RunReturn
  <2>1. /\ UNCHANGED <<now, master, dbSlot, doneSlot>> /\ run.at = "settled"
        /\ run' = [run EXCEPT !.at = "returned", !.err = TerminalStatus]
    BY <1>12 DEF RunReturn, bizVars, schedVars
  <2>2. /\ run'.at = "returned" /\ run'.trigger = run.trigger
        /\ run'.err = TerminalStatus /\ run'.mgr = run.mgr
    BY <1>1, <2>1 DEF Runs
  <2>3. TerminalStatus \in {run.err, "cancelled"}
    BY DEF TerminalStatus
  <2> QED BY <1>3, <2>1, <2>2, <2>3 DEF CleanRun, SettledAhead, Ahead, Movable, Unsettled
<1>13. CASE RunRecord
  <2>1. PICK s \in {NextSlotFn, 0} :
            /\ UNCHANGED <<now, master, dbSlot, doneSlot>> /\ run.at = "returned"
            /\ run' = [run EXCEPT !.at = "recorded", !.next = s]
    BY <1>13 DEF RunRecord, bizVars, schedVars
  <2>2. /\ run'.at = "recorded" /\ run'.trigger = run.trigger
        /\ run'.err = run.err /\ run'.mgr = run.mgr /\ run'.next = s
    BY <1>1, <2>1 DEF Runs
  <2>3. s \in {dbSlot, 0}
    BY DEF NextSlotFn
  <2> QED BY <1>3, <2>1, <2>2, <2>3 DEF CleanRun, SettledAhead, Ahead, Movable, Unsettled
<1>14. CASE RunFinish
  BY <1>2, <1>14, StallFinish
<1>15. CASE CancelClaim
  BY <1>5, <1>15 DEF CancelClaim, bizVars, schedVars
<1>16. CASE CancelHook
  <2>1. UNCHANGED <<now, master, dbSlot, doneSlot>>
    BY <1>16 DEF CancelHook, bizVars, schedVars
  <2>2. run' = run \/ run' = [run EXCEPT !.mgr = Sooner(run.mgr, "user")]
    BY <1>16 DEF CancelHook
  <2>3. /\ run'.at = run.at /\ run'.trigger = run.trigger /\ run'.err = run.err
        /\ run'.next = run.next /\ run'.mgr \in {run.mgr, "user"}
    BY <1>1, <2>2 DEF Runs, Sooner
  <2> QED BY <1>6, <2>1, <2>3
<1>17. CASE CancelApply
  BY <1>2, <1>17, StallCancel
<1>18. CASE Drain \/ \E isMaster \in BOOLEAN : SetRole(isMaster)
  BY <1>4, <1>18 DEF Drain, SetRole
<1>19. CASE Rearm \/ \E enabled \in BOOLEAN : SaveAutoUpdate(enabled)
  <2>1. /\ UNCHANGED <<now, master, doneSlot, run>>
        /\ dbSlot' \in {dbSlot, 0, SlotAfter(now)}
    BY <1>19 DEF Rearm, SaveAutoUpdate, schedVars
  <2>2. SettledAhead'
    BY <1>1, <1>3, <2>1 DEF SettledAhead, Ahead
  <2>3. Movable'
    BY <1>1, <1>3, <2>1 DEF Movable, Unsettled
  <2> QED BY <1>3, <2>1, <2>2, <2>3 DEF CleanRun
<1>20. CASE SaveApply \/ RearmReset
  <2>1. UNCHANGED <<now, master, dbSlot, run>> /\ doneSlot' \in {doneSlot, 0}
    BY <1>20 DEF SaveApply, RearmReset, Reset, bizVars, schedVars
  <2>2. Movable'
    BY <1>1, <1>3, <2>1 DEF Movable, Unsettled
  <2> QED BY <1>3, <2>1, <2>2 DEF CleanRun, SettledAhead, Ahead
<1>21. CASE UNCHANGED vars
  BY <1>5, <1>21 DEF vars, bizVars, schedVars
<1> QED
  BY <1>7, <1>8, <1>9, <1>10, <1>11, <1>12, <1>13, <1>14, <1>15, <1>16, <1>17,
     <1>18, <1>19, <1>20, <1>21 DEF Next

(***************************************************************************)
(* No silent stall: for every period, number of calls and interleaving,    *)
(* as long as the clock does not reach the next slot between the end of a  *)
(* run's body and its record (SlowTail; the run slots_boundary shows what  *)
(* happens when it does), a task at rest is never left with a slot that    *)
(* the watermark suppresses.                                               *)
(***************************************************************************)
THEOREM NeverSilentlyStalled == ASSUME ~SlowTail PROVE Spec => []NoSilentStall
<1>1. Init => StallInv
  <2> SUFFICES ASSUME Init PROVE CleanRun /\ SettledAhead /\ Movable
    BY DEF StallInv
  <2>1. master /\ run.at = "none" /\ run.mgr = "live" /\ run.err = ""
    BY DEF Init, NoRun
  <2>2. dbSlot > doneSlot
    BY SlotsAssumption DEF Init
  <2> QED BY <2>1, <2>2 DEF CleanRun, SettledAhead, Movable
<1>2. StallInv => NoSilentStall
  <2> SUFFICES ASSUME StallInv, Clean, AtRest, dbSlot # 0 PROVE dbSlot > doneSlot
    BY DEF NoSilentStall, Clean
  <2> QED BY DEF StallInv, Movable, Unsettled, AtRest, Running
<1>3. OnceInv /\ FutureNeverConsumed /\ StallInv /\ [Next]_vars => StallInv'
  BY StallNext
<1>4. Spec => []OnceInv
  BY OnceInit, OnceNext, PTL DEF Spec
<1> QED BY <1>1, <1>2, <1>3, <1>4, WatermarkIsPast, PTL DEF Spec

=============================================================================
