--------------------------- MODULE CAQueueProofs ---------------------------
(***************************************************************************)
(* Theorems about CAQueue for any jobs, providers, queue objects, callers, *)
(* requests and bounds.  Those about executions assume that every call     *)
(* names its job, ByName; the README says what a call without a job id     *)
(* leads to.                                                               *)
(***************************************************************************)
EXTENDS CAQueue, TLAPS

ByName == "create" \notin Kinds

-----------------------------------------------------------------------------
(***************************************************************************)
(* The first invariant: no start is lost.  It follows a start that met an  *)
(* import from the moment it is deferred until somebody has made up for it.*)
(***************************************************************************)

Holding    == {"drain", "wait", "lock", "window", "end"}
InStart    == {"wait", "check", "defer", "recheck", "open"}
Restarting == {"begin", "drain", "wait", "lock", "window", "end", "open", "start"}

\* The hold is up from BeginConfigImportHold to EndConfigImportHold.
HoldInv == hold.depth = IF imp.pc \in Holding THEN 1 ELSE 0

\* Who holds the start/stop mutex, and that no start runs into a stop.
OpsInv ==
    /\ \A s \in Starters :
           /\ acme.call[s] \in InStart => acme.ops = s
           /\ acme.call[s] \in InStart \ {"wait"} => stop.pc = "idle"
           /\ acme.ops = s => \/ acme.call[s] \in InStart
                              \/ s = "daemon" /\ daemon = "stopWait"
    /\ daemon = "stopWait" => acme.ops = "daemon"
    /\ daemon # "pump" => acme.call["daemon"] = "idle"
    /\ imp.pc # "start" => acme.call["import"] = "idle"

\* A request under way has a rule.
JobInv == \A c \in Changers : rule[c].pc # "idle" => rule[c].job \in Jobs

\* A deferred start is waited for by the import that is still to end, or by the
\* caller who is about to look again.
IntentInv ==
    /\ hold.pendingStart =>
           hold.depth = 1 \/ \E s \in Starters : acme.call[s] = "recheck"
    /\ hold.certDeferred => hold.depth = 1 \/ daemon = "recheck"

\* What the end of an import has taken it carries out in its next step.
TakenInv == imp.pending \/ imp.cert => imp.pc = "open"

\* A Run that was not refused has its worker, or somebody still has to start it.
RunInv ==
    daemon \in {"recheck", "pump"} /\ ~acme.refused =>
        \/ acme.worker \/ hold.certDeferred \/ imp.cert
        \/ \E s \in Starters : acme.call[s] # "idle"

\* A worker is there only when no stop is under way and no start.
WorkerInv ==
    acme.worker => /\ stop.pc = "idle"
                   /\ \A s \in Starters : acme.call[s] \notin InStart

\* The queue is open, or somebody still has to open it, or an import has closed it
\* for good.
Owed ==
    \/ active \/ hold.pendingStart \/ imp.pending \/ past.closed
    \/ imp.was /\ imp.pc \in Restarting

OwedInv ==
    acme.worker \/ (\E s \in Starters : acme.call[s] = "recheck") => Owed

LifeInv ==
    /\ TypeOK /\ HoldInv /\ OpsInv /\ JobInv /\ IntentInv /\ TakenInv /\ RunInv
    /\ WorkerInv /\ OwedInv

(***************************************************************************)
(* The second invariant: where the items and executions of a job are.  For *)
(* a job that no check has overlooked, somebody knows its queue, there is  *)
(* one, and whoever is about to enqueue it finds it nowhere.               *)
(***************************************************************************)

\* What a drain waits for is forgotten when it ends.
DrainInv ==
    /\ stop.pc # "wait" => stop.waits = {}
    /\ imp.pc # "wait" => imp.waits = {}

Known(q, j) ==
    \/ \E p \in Providers : queueOf[p] = q
    \/ q \in retired \cup stop.waits \cup imp.waits
    \/ zombies[j] = q

PlaceInv ==
    \A q \in Queues, j \in Jobs :
        /\ stage[q][j] = "pending" => \E p \in Providers : queueOf[p] = q
        /\ stage[q][j] # "none" /\ j \notin past.missed => Known(q, j)

\* A job is in one queue only, its zombie's if it has one.
UniqueInv ==
    \A j \in Jobs \ past.missed, q, r \in Queues :
        stage[q][j] # "none" =>
            /\ stage[r][j] # "none" => q = r
            /\ zombies[j] # None => zombies[j] = q

Free(j) == zombies[j] = None /\ \A q \in Queues : stage[q][j] = "none"

\* Every call names its job.
CallInv ==
    \A e \in Enqueuers : /\ enq[e].kind # "create"
                         /\ enq[e].pc # "idle" => enq[e].job \in Jobs

Holds(e) == enq[e].pc \in {"transition", "enqueue", "release"}
Keeps(c) == rule[c].pc \in {"enqueue", "release", "again"}

\* A reservation belongs to one call or to one compensation.
ReserveInv ==
    /\ \A e \in Enqueuers : Holds(e) /\ enq[e].job \notin past.missed =>
           enq[e].job \in reserved
    /\ \A c \in Changers : Keeps(c) /\ rule[c].job \notin past.missed =>
           rule[c].job \in reserved
    /\ \A e, f \in Enqueuers :
           Holds(e) /\ Holds(f) /\ enq[e].job = enq[f].job
              /\ enq[e].job \notin past.missed => e = f
    /\ \A c, d \in Changers :
           Keeps(c) /\ Keeps(d) /\ rule[c].job = rule[d].job
              /\ rule[c].job \notin past.missed => c = d
    /\ \A e \in Enqueuers, c \in Changers :
           Holds(e) /\ Keeps(c) /\ enq[e].job = rule[c].job =>
              enq[e].job \in past.missed

\* Until its holder has enqueued it, a reserved job is in no queue.
FreeInv ==
    /\ \A e \in Enqueuers :
           enq[e].pc \in {"transition", "enqueue"} /\ enq[e].job \notin past.missed =>
               Free(enq[e].job)
    /\ \A c \in Changers :
           rule[c].pc = "enqueue" /\ rule[c].job \notin past.missed =>
               Free(rule[c].job)

\* From its drain on the import has the queue closed and empty.
CloseInv ==
    imp.pc \in AfterDrain /\ ~imp.late =>
        ~active /\ \A p \in Providers : queueOf[p] = None

\* What the import's drain has seen, and what it has found when it succeeds.
WindowInv ==
    /\ imp.pc = "wait" /\ ~imp.late =>
           \/ imp.zombies
           \/ \A q \in Queues, j \in Jobs \ past.missed :
                  stage[q][j] # "none" => q \in imp.waits \cup imp.prior
    /\ imp.pc \in {"lock", "window"} /\ ~imp.late =>
           \A q \in Queues, j \in Jobs \ past.missed : stage[q][j] = "none"

\* The barrier of a request stands from the cancellation to the deletion.
BarrierInv == \A c \in Changers : Draining(c) /\ ~rule[c].passed => c \in blocked

\* What the rule's drain has seen.
RuleDrainInv ==
    \A c \in Changers :
        ~rule[c].passed /\ rule[c].job \notin past.missed =>
            /\ rule[c].pc = "wait" => \A q \in Queues :
                   /\ stage[q][rule[c].job] # "pending"
                   /\ stage[q][rule[c].job] # "none" => q \in rule[c].waits
            /\ rule[c].pc = "delete" =>
                   \A q \in Queues : stage[q][rule[c].job] = "none"

JobsInv ==
    /\ DrainInv /\ CallInv /\ PlaceInv /\ UniqueInv /\ ReserveInv /\ FreeInv
    /\ CloseInv /\ WindowInv /\ BarrierInv /\ RuleDrainInv

-----------------------------------------------------------------------------
(***************************************************************************)
(* Types.                                                                  *)
(***************************************************************************)

LEMMA MappedTyped == ASSUME TypeOK PROVE Mapped \subseteq Queues
  BY DEF TypeOK, Mapped

LEMMA IdleTyped == Idle \in CallType /\ NoChange \in RuleType
  BY DEF Idle, CallType, Status, NoChange, RuleType, RulePcs

LEMMA CallTyped ==
    ASSUME TypeOK, NEW e \in Enqueuers,
           NEW pc \in {"idle", "reserve", "transition", "enqueue", "release"}
    PROVE  [enq EXCEPT ![e].pc = pc] \in [Enqueuers -> CallType]
  BY SMTT(40) DEF TypeOK, CallType

\* The other requests are where they were.
Alone(c) == \A d \in Changers \ {c} : rule'[d] = rule[d]

LEMMA StepMoves ==
    ASSUME TypeOK, NEW c \in Changers, NEW where, Step(c, where)
    PROVE  /\ Alone(c)
           /\ rule'[c].pc = where /\ rule'[c].waits = {}
           /\ rule'[c].job = rule[c].job /\ rule'[c].passed = rule[c].passed
           /\ where \in RulePcs => rule' \in [Changers -> RuleType]
<1>1. rule \in [Changers -> RuleType] /\ rule[c] \in RuleType
  BY DEF TypeOK
<1> DEFINE new == [rule[c] EXCEPT !.pc = where, !.waits = {}]
<1>2. /\ new.pc = where /\ new.waits = {} /\ new.job = rule[c].job
      /\ new.passed = rule[c].passed
      /\ where \in RulePcs => new \in RuleType
  BY <1>1 DEF RuleType
<1>3. rule' = [rule EXCEPT ![c] = new]
  BY DEF Step
<1> HIDE DEF new
<1> QED BY <1>1, <1>2, <1>3 DEF Alone

LEMMA UnblockMoves ==
    ASSUME TypeOK, NEW c \in Changers, Unblock(c)
    PROVE  /\ Alone(c) /\ blocked' = blocked \ {c}
           /\ rule'[c] = NoChange /\ rule'[c].pc = "idle" /\ rule'[c].waits = {}
           /\ rule' \in [Changers -> RuleType] /\ blocked' \subseteq Changers
<1>1. rule \in [Changers -> RuleType] /\ blocked \subseteq Changers
  BY DEF TypeOK
<1>2. NoChange.pc = "idle" /\ NoChange.waits = {} /\ NoChange \in RuleType
  BY IdleTyped DEF NoChange
<1> QED BY <1>1, <1>2 DEF Unblock, Alone

\* A request moves on to one of the places, or ends.
Moves(c, places) ==
    /\ Alone(c) /\ rule'[c].waits = {}
    /\ rule'[c].pc \in places \cup {"idle"}
    /\ rule'[c].pc # "idle" => /\ rule'[c].job = rule[c].job
                               /\ rule'[c].passed = rule[c].passed
    /\ \A d \in Changers \ {c} : d \in blocked' <=> d \in blocked

RuleTyped == rule' \in [Changers -> RuleType] /\ blocked' \subseteq Changers

LEMMA CompensateMoves ==
    ASSUME TypeOK, NEW c \in Changers, Compensate(c)
    PROVE  Moves(c, {"drain"}) /\ RuleTyped
<1>1. CASE compAlive
  BY <1>1, StepMoves DEF Compensate, Moves, RuleTyped, TypeOK, RulePcs
<1>2. CASE ~compAlive
  BY <1>2, UnblockMoves DEF Compensate, Moves, RuleTyped
<1> QED BY <1>1, <1>2

LEMMA RetryMoves ==
    ASSUME TypeOK, NEW c \in Changers, Retry(c)
    PROVE  Moves(c, {"drain", "abandoned"}) /\ RuleTyped
<1>1. PICK where \in {"drain", "abandoned"} : Step(c, where)
  BY DEF Retry
<1>2. blocked' = blocked
  BY DEF Retry
<1> QED BY <1>1, <1>2, StepMoves DEF Moves, RuleTyped, TypeOK, RulePcs

LEMMA UnblockIsMove ==
    ASSUME TypeOK, NEW c \in Changers, Unblock(c), NEW places
    PROVE  Moves(c, places) /\ RuleTyped
BY UnblockMoves DEF Moves, RuleTyped

LEMMA StepIsMove ==
    ASSUME TypeOK, NEW c \in Changers, NEW where, Step(c, where), where \in RulePcs,
           UNCHANGED blocked
    PROVE  Moves(c, {where}) /\ RuleTyped
BY StepMoves DEF Moves, RuleTyped, TypeOK

LEMMA ResolvedTyped ==
    ASSUME TypeOK, NEW j \in Jobs, NEW p \in Providers, EnqueueResolved(j, p)
    PROVE  /\ queueOf' \in [Providers -> Queues \cup {None}]
           /\ stage' \in [Queues -> [Jobs -> Stages]] /\ stopped' \subseteq Queues
<1>1. PICK q \in Queues :
          /\ queueOf' = [queueOf EXCEPT ![p] = q]
          /\ stopped' = IF queueOf[p] = None THEN stopped \ {q} ELSE stopped
          /\ stage' = IF stage[q][j] = "none"
                      THEN [stage EXCEPT ![q] = [stage[q] EXCEPT ![j] = "pending"]]
                      ELSE stage
  BY DEF EnqueueResolved
<1>2. [stage[q] EXCEPT ![j] = "pending"] \in [Jobs -> Stages]
  BY DEF TypeOK, Stages
<1> QED BY <1>1, <1>2 DEF TypeOK

LEMMA PruneTyped ==
    ASSUME TypeOK, NEW id, NEW aged \in Aged, PruneRetired(id, aged)
    PROVE  retired' \subseteq Queues /\ zombies' \in [Jobs -> Queues \cup {None}]
BY DEF TypeOK, PruneRetired, Aged

LEMMA TypeRule == ASSUME TypeOK, JobInv, RuleNext PROVE TypeOK'
<1>1. PICK c \in Changers :
        \/ \E j \in Jobs : DisableRule(c, j) \/ DeleteRule(c, j)
        \/ RuleDisabled(c) \/ BlockJobsForRule(c) \/ CancelJobsForRule(c)
        \/ RuleWaited(c) \/ RuleDeleted(c) \/ RuleDeleteFails(c)
        \/ CompensationWaited(c) \/ CompensationFails(c) \/ CompensationRequeue(c)
        \/ CompensationInFlight(c) \/ CompensationReserve(c)
        \/ CompensationEnqueue(c) \/ CompensationRelease(c)
  BY DEF RuleNext
<1> DEFINE j == rule[c].job
<1>2. rule[c].pc # "idle" => j \in Jobs
  BY DEF JobInv
<1>3. ASSUME NEW k \in Jobs, DisableRule(c, k) \/ DeleteRule(c, k) PROVE TypeOK'
  <2>1. used' \in UsedType
    BY <1>3, QueueAssumption DEF TypeOK, UsedType, DisableRule, DeleteRule
  <2>2. /\ [NoChange EXCEPT !.pc = "disable", !.job = k] \in RuleType
        /\ [NoChange EXCEPT !.pc = "block", !.op = "delete", !.job = k,
                            !.snap = row[k]] \in RuleType
    BY DEF NoChange, RuleType, RulePcs, TypeOK, Status
  <2>3. rule' \in [Changers -> RuleType]
    BY <1>3, <2>2 DEF DisableRule, DeleteRule, TypeOK
  <2> QED BY <1>3, <2>1, <2>3 DEF DisableRule, DeleteRule, TypeOK, manager
<1>4. CASE RuleDisabled(c)
  <2>1. rule' \in [Changers -> RuleType]
    BY <1>4, StepMoves, IdleTyped DEF RuleDisabled, RulePcs, TypeOK
  <2>2. row' \in [Jobs -> Status]
    BY <1>4 DEF RuleDisabled, TypeOK, Status
  <2> QED BY <1>4, <2>1, <2>2 DEF RuleDisabled, TypeOK, manager
<1>5. CASE BlockJobsForRule(c)
  <2>1. rule' \in [Changers -> RuleType]
    BY <1>5, StepMoves DEF BlockJobsForRule, RulePcs
  <2> QED BY <1>5, <2>1 DEF BlockJobsForRule, TypeOK
<1>6. CASE CancelJobsForRule(c)
  <2>1. rule' \in [Changers -> RuleType]
    <3> DEFINE pc == IF rule[c].pc = "cancel" THEN "wait" ELSE "drainWait"
               ps == rule[c].passed \/ j \in Unseen
               ws == Awaited(j)
               new == [rule[c] EXCEPT !.pc = pc, !.waits = ws, !.passed = ps]
    <3>1. ws \subseteq Queues
      BY <1>6, <1>2, MappedTyped DEF Awaited, CancelJobsForRule, TypeOK
    <3>2. pc \in RulePcs /\ ps \in BOOLEAN
      BY DEF RulePcs, TypeOK, RuleType
    <3>3. rule' = [rule EXCEPT ![c] = new]
      BY <1>6 DEF CancelJobsForRule
    <3> HIDE DEF pc, ps, ws
    <3>4. new \in RuleType
      BY <3>1, <3>2 DEF TypeOK, RuleType
    <3> HIDE DEF new
    <3> QED BY <3>3, <3>4 DEF TypeOK
  <2>2. stage' \in [Queues -> [Jobs -> Stages]]
    <3>1. ASSUME NEW q \in Queues
          PROVE  [stage[q] EXCEPT ![j] = "none"] \in [Jobs -> Stages]
      BY DEF TypeOK, Stages
    <3> QED BY <1>6, <3>1 DEF CancelJobsForRule, CollectCancellation, TypeOK
  <2>3. cancelled' \subseteq Queues \X Jobs
    BY <1>6, <1>2, MappedTyped DEF CancelJobsForRule, CollectCancellation, TypeOK
  <2> QED BY <1>6, <2>1, <2>2, <2>3 DEF CancelJobsForRule, TypeOK
<1>7. CASE RuleWaited(c)
  <2>1. RuleTyped
    BY <1>7, UnblockIsMove, CompensateMoves, StepIsMove DEF RuleWaited, RulePcs
  <2> QED BY <1>7, <2>1 DEF RuleWaited, RuleTyped, TypeOK
<1>8. CASE RuleDeleted(c)
  <2>1. RuleTyped
    BY <1>8, UnblockIsMove DEF RuleDeleted
  <2>2. row' \in [Jobs -> Status]
    BY <1>8 DEF RuleDeleted, TypeOK, Status
  <2> QED BY <1>8, <2>1, <2>2 DEF RuleDeleted, RuleTyped, TypeOK
<1>9. CASE RuleDeleteFails(c)
  BY <1>9, CompensateMoves DEF RuleDeleteFails, RuleTyped, TypeOK
<1>10. CASE CompensationWaited(c)
  <2>1. rule' \in [Changers -> RuleType]
    BY <1>10, StepMoves DEF CompensationWaited, RulePcs
  <2> QED BY <1>10, <2>1 DEF CompensationWaited, TypeOK, manager
<1>11. CASE CompensationFails(c)
  BY <1>11, RetryMoves DEF CompensationFails, RuleTyped, TypeOK
<1>12. CASE CompensationRequeue(c)
  <2>1. RuleTyped
    BY <1>12, UnblockIsMove, StepIsMove DEF CompensationRequeue, RulePcs
  <2>2. Restored(c) \in Status
    BY <1>12, <1>2 DEF CompensationRequeue, Restored, TypeOK, RuleType
  <2>3. row' \in [Jobs -> Status]
    BY <1>12, <2>2 DEF CompensationRequeue, TypeOK, Status
  <2> QED BY <1>12, <2>1, <2>3 DEF CompensationRequeue, RuleTyped, TypeOK
<1>13. CASE CompensationInFlight(c)
  <2>1. RuleTyped
    BY <1>13, UnblockIsMove, StepIsMove DEF CompensationInFlight, RulePcs
  <2>2. retired' \subseteq Queues /\ zombies' \in [Jobs -> Queues \cup {None}]
    BY <1>13, PruneTyped DEF CompensationInFlight
  <2> QED BY <1>13, <2>1, <2>2 DEF CompensationInFlight, RuleTyped, TypeOK
<1>14. CASE CompensationReserve(c)
  <2>1. RuleTyped
    BY <1>14, UnblockIsMove, StepIsMove, RetryMoves DEF CompensationReserve, RulePcs
  <2>2. reserved' \subseteq Jobs \cup {NewJob} /\ past' \in PastType
    BY <1>14, <1>2 DEF CompensationReserve, Overlook, TypeOK, PastType
  <2> QED BY <1>14, <2>1, <2>2 DEF CompensationReserve, RuleTyped, TypeOK
<1>15. CASE CompensationEnqueue(c)
  <2>1. rule' \in [Changers -> RuleType]
    <3>1. CASE rule' = Passing(c)
      <4>1. ASSUME NEW d \in Changers
            PROVE  /\ [rule[d] EXCEPT !.pc = "release"] \in RuleType
                   /\ [rule[d] EXCEPT !.passed =
                         @ \/ (rule[d].job = rule[c].job /\ Draining(d))] \in RuleType
        <5> DEFINE ps == rule[d].passed \/ (rule[d].job = rule[c].job /\ Draining(d))
        <5>1. ps \in BOOLEAN /\ rule[d] \in RuleType
          BY DEF TypeOK, RuleType
        <5> HIDE DEF ps
        <5>2. [rule[d] EXCEPT !.passed = ps] \in RuleType
          BY <5>1 DEF RuleType
        <5>3. [rule[d] EXCEPT !.pc = "release"] \in RuleType
          BY <5>1 DEF RuleType, RulePcs
        <5> QED BY <5>2, <5>3 DEF ps
      <4> QED BY <3>1, <4>1 DEF Passing
    <3>2. CASE Step(c, "again") \/ Step(c, "release")
      BY <3>2, StepMoves DEF RulePcs
    <3> QED BY <1>15, <3>1, <3>2 DEF CompensationEnqueue
  <2>2. /\ queueOf' \in [Providers -> Queues \cup {None}]
        /\ stage' \in [Queues -> [Jobs -> Stages]] /\ stopped' \subseteq Queues
    BY <1>15, <1>2, ResolvedTyped DEF CompensationEnqueue, TypeOK
  <2>3. row' \in [Jobs -> Status]
    BY <1>15 DEF CompensationEnqueue, TypeOK, Status
  <2> QED BY <1>15, <2>1, <2>2, <2>3 DEF CompensationEnqueue, TypeOK
<1>16. CASE CompensationRelease(c)
  <2>1. RuleTyped
    BY <1>16, UnblockIsMove, RetryMoves DEF CompensationRelease
  <2> QED BY <1>16, <2>1 DEF CompensationRelease, RuleTyped, TypeOK
<1> QED
  BY <1>1, <1>3, <1>4, <1>5, <1>6, <1>7, <1>8, <1>9, <1>10, <1>11, <1>12, <1>13,
     <1>14, <1>15, <1>16

LEMMA TypeOKStep == ASSUME TypeOK, HoldInv, JobInv, [Next]_vars PROVE TypeOK'
<1>1. ASSUME NEW e \in Enqueuers, NEW j \in Jobs, Enqueue(e, j)
      PROVE  TypeOK'
  <2>1. enq' \in [Enqueuers -> CallType]
    BY QueueAssumption, <1>1 DEF TypeOK, CallType, Status, Enqueuers, Idle,
             Enqueue, Call, Readable, ScanFrom, RetryFrom, CreateFrom
  <2>2. used' \in UsedType
    BY QueueAssumption, <1>1 DEF TypeOK, UsedType, Enqueue, Call, Readable,
             ScanFrom, RetryFrom, CreateFrom
  <2> QED
    BY <1>1, <2>1, <2>2 DEF TypeOK, manager, procs, Enqueue, Call,
         Readable, ScanFrom, RetryFrom, CreateFrom
<1>2. ASSUME NEW e \in Enqueuers, Reserve(e)
      PROVE  TypeOK'
  <2>1. retired' \subseteq Queues
    BY <1>2 DEF TypeOK, Reserve, Guarded, PruneRetired, Aged, IsJobActive,
             KnownEarly, EnqueueAdmissible, Busy
  <2>2. zombies' \in [Jobs -> Queues \cup {None}]
    BY <1>2 DEF TypeOK, Reserve, Guarded, PruneRetired, Aged, IsJobActive,
             KnownEarly, EnqueueAdmissible, Busy
  <2>3. enq' \in [Enqueuers -> CallType]
    BY IdleTyped, CallTyped, <1>2 DEF Reserve, TypeOK
  <2>4. reserved' \subseteq Jobs \cup {NewJob}
    BY <1>2 DEF Reserve, TypeOK, Guarded, CallType
  <2>5. past' \in PastType
    BY <1>2 DEF Reserve, Overlook, Unseen, TypeOK, PastType
  <2> QED
    BY <1>2, <2>1, <2>2, <2>3, <2>4, <2>5 DEF TypeOK, manager, procs,
         Reserve, Guarded, PruneRetired, Aged, IsJobActive, KnownEarly,
         EnqueueAdmissible, Busy
<1>3. ASSUME NEW e \in Enqueuers, Transition(e)
      PROVE  TypeOK'
  <2>1. row' \in [Jobs -> Status]
    BY <1>3 DEF TypeOK, Status, Transition, CreateFrom
  <2>2. enq' \in [Enqueuers -> CallType]
    BY ZenonT(60), CallTyped, <1>3 DEF Transition
  <2> QED
    BY <1>3, <2>1, <2>2 DEF TypeOK, manager, procs, Transition,
         CreateFrom
<1>4. ASSUME NEW e \in Enqueuers, ResolveFails(e)
      PROVE  TypeOK'
  <2>1. row' \in [Jobs -> Status]
    BY <1>4 DEF TypeOK, Status, ResolveFails
  <2>2. enq' \in [Enqueuers -> CallType]
    BY CallTyped, <1>4 DEF ResolveFails
  <2> QED
    BY <1>4, <2>1, <2>2 DEF TypeOK, manager, procs, ResolveFails
<1>5. ASSUME NEW e \in Enqueuers, EnqueueAdmitted(e)
      PROVE  TypeOK'
  <2>1. queueOf' \in [Providers -> Queues \cup {None}]
    BY <1>5 DEF TypeOK, EnqueueAdmitted, EnqueueResolved, EnqueueAdmissible
  <2>2. stage' \in [Queues -> [Jobs -> Stages]]
    <3>1. CASE UNCHANGED stage BY <3>1 DEF TypeOK
    <3>2. CASE \E p \in Providers : EnqueueResolved(enq[e].job, p)
      <4>1. PICK q \in Queues : stage' = IF stage[q][enq[e].job] = "none"
                THEN [stage EXCEPT ![q] = [stage[q] EXCEPT ![enq[e].job] = "pending"]]
                ELSE stage
        BY <3>2 DEF EnqueueResolved
      <4> QED BY <4>1 DEF TypeOK, Stages
    <3> QED BY <1>5, <3>1, <3>2 DEF EnqueueAdmitted
  <2>3. stopped' \subseteq Queues
    BY <1>5 DEF TypeOK, EnqueueAdmitted, EnqueueResolved, EnqueueAdmissible
  <2>4. enq' \in [Enqueuers -> CallType]
    BY CallTyped, <1>5 DEF EnqueueAdmitted
  <2> QED
    BY <1>5, <2>1, <2>2, <2>3, <2>4 DEF TypeOK, manager, procs,
         EnqueueAdmitted, EnqueueResolved, EnqueueAdmissible
<1>6. ASSUME NEW e \in Enqueuers, Release(e)
      PROVE  TypeOK'
  <2>1. reserved' \subseteq Jobs \cup {NewJob}
    BY <1>6 DEF TypeOK, Release, Guarded
  <2>2. enq' \in [Enqueuers -> CallType]
    BY QueueAssumption, <1>6 DEF TypeOK, CallType, Status, Enqueuers, Idle,
             Release, Guarded
  <2> QED
    BY <1>6, <2>1, <2>2 DEF TypeOK, manager, procs, Release, Guarded
<1>7. ASSUME NEW q \in Queues, NEW j \in Jobs, Dispatch(q, j)
      PROVE  TypeOK'
  <2>1. stage' \in [Queues -> [Jobs -> Stages]]
    BY <1>7 DEF TypeOK, Stages, Executing, Dispatch, Pumping
  <2> QED
    BY <1>7, <2>1 DEF TypeOK, manager, procs, Dispatch, Pumping
<1>8. ASSUME NEW q \in Queues, NEW j \in Jobs, Progress(q, j)
      PROVE  TypeOK'
  <2>1. row' \in [Jobs -> Status]
    BY <1>8 DEF TypeOK, Status, Progress
  <2> QED
    BY <1>8, <2>1 DEF TypeOK, manager, procs, Progress
<1>9. ASSUME NEW q \in Queues, NEW j \in Jobs, Deployed(q, j)
      PROVE  TypeOK'
  <2>1. row' \in [Jobs -> Status]
    BY <1>9 DEF TypeOK, Status, Deployed, Leaves
  <2>2. stage' \in [Queues -> [Jobs -> Stages]]
    BY <1>9 DEF TypeOK, Stages, Executing, Deployed, Leaves
  <2> QED
    BY <1>9, <2>1, <2>2 DEF TypeOK, manager, procs, Deployed, Leaves
<1>10. ASSUME NEW q \in Queues, NEW j \in Jobs, DeployFails(q, j)
      PROVE  TypeOK'
  <2>1. stage' \in [Queues -> [Jobs -> Stages]]
    BY <1>10 DEF TypeOK, Stages, Executing, DeployFails, Leaves
  <2> QED
    BY <1>10, <2>1 DEF TypeOK, manager, procs, DeployFails, Leaves
<1>11. ASSUME NEW q \in Queues, NEW j \in Jobs, Fails(q, j)
      PROVE  TypeOK'
  <2>1. row' \in [Jobs -> Status]
    BY <1>11 DEF TypeOK, Status, Fails, Leaves
  <2>2. stage' \in [Queues -> [Jobs -> Stages]]
    BY <1>11 DEF TypeOK, Stages, Executing, Fails, Leaves
  <2> QED
    BY <1>11, <2>1, <2>2 DEF TypeOK, manager, procs, Fails, Leaves
<1>12. ASSUME NEW q \in Queues, NEW j \in Jobs, Cancelled(q, j)
      PROVE  TypeOK'
  <2>1. row' \in [Jobs -> Status]
    BY <1>12 DEF TypeOK, Status, Cancelled, Leaves
  <2>2. stage' \in [Queues -> [Jobs -> Stages]]
    BY <1>12 DEF TypeOK, Stages, Executing, Cancelled, Leaves
  <2> QED
    BY <1>12, <2>1, <2>2 DEF TypeOK, manager, procs, Cancelled,
         Leaves
<1>13. ASSUME NEW q \in Queues, NEW j \in Jobs, Leave(q, j)
      PROVE  TypeOK'
  <2>1. stage' \in [Queues -> [Jobs -> Stages]]
    BY <1>13 DEF TypeOK, Stages, Executing, Leave
  <2>2. cancelled' \subseteq Queues \X Jobs
    BY <1>13 DEF TypeOK, Leave
  <2> QED
    BY <1>13, <2>1, <2>2 DEF TypeOK, manager, procs, Leave
<1>14. ASSUME NEW q \in Queues, DispatchUnavailable(q)
      PROVE  TypeOK'
  <2>1. stage' \in [Queues -> [Jobs -> Stages]]
    BY <1>14 DEF TypeOK, Stages, Executing, DispatchUnavailable, Pumping
  <2> QED
    BY <1>14, <2>1 DEF TypeOK, manager, procs, DispatchUnavailable,
         Pumping
<1>15. ASSUME NEW j \in Jobs, FailPending(j)
      PROVE  TypeOK'
  <2>1. retired' \subseteq Queues
    BY <1>15 DEF TypeOK, FailPending, PruneRetired, Aged, IsJobActive,
             KnownEarly, Busy
  <2>2. zombies' \in [Jobs -> Queues \cup {None}]
    BY <1>15 DEF TypeOK, FailPending, PruneRetired, Aged, IsJobActive,
             KnownEarly, Busy
  <2>3. row' \in [Jobs -> Status]
    BY <1>15 DEF TypeOK, Status, FailPending, PruneRetired, Aged, IsJobActive,
             KnownEarly, Busy
  <2> QED
    BY <1>15, <2>1, <2>2, <2>3 DEF TypeOK, manager, procs,
         FailPending, PruneRetired, Aged, IsJobActive, KnownEarly, Busy
<1>16. ASSUME NEW j \in Jobs, ReleaseZombieJob(j)
      PROVE  TypeOK'
  <2>1. zombies' \in [Jobs -> Queues \cup {None}]
    BY <1>16 DEF TypeOK, ReleaseZombieJob
  <2> QED
    BY <1>16, <2>1 DEF TypeOK, manager, procs, ReleaseZombieJob
<1>17. CASE Launch
  <2>1. acme' \in AcmeType
    BY <1>17 DEF TypeOK, AcmeType, Starters, Launch
  <2>2. used' \in UsedType
    BY QueueAssumption, <1>17 DEF TypeOK, UsedType, Launch
  <2> QED
    BY <1>17, <2>1, <2>2 DEF TypeOK, manager, procs, Launch
<1>18. CASE LaunchCheck
  <2>1. acme' \in AcmeType
    <3>1. CASE hold.depth = 0
      BY <1>18, <3>1 DEF TypeOK, AcmeType, Starters, LaunchCheck, BeginStart
    <3>2. CASE ~(hold.depth = 0)
      BY <1>18, <3>2 DEF TypeOK, AcmeType, Starters, LaunchCheck, BeginStart
    <3> QED BY <3>1, <3>2
  <2> QED
    BY <1>18, <2>1 DEF TypeOK, manager, procs, LaunchCheck,
         BeginStart
<1>19. CASE LaunchDefer
  <2>1. hold' \in HoldType
    BY <1>19 DEF TypeOK, HoldType, LaunchDefer
  <2> QED
    BY <1>19, <2>1 DEF TypeOK, manager, procs, LaunchDefer
<1>20. CASE LaunchRecheck
  <2>1. hold' \in HoldType
    BY <1>20 DEF TypeOK, HoldType, LaunchRecheck, BeginStart
  <2>2. acme' \in AcmeType
    BY <1>20 DEF TypeOK, AcmeType, Starters, LaunchRecheck, BeginStart
  <2> QED
    BY <1>20, <2>1, <2>2 DEF TypeOK, manager, procs, LaunchRecheck,
         BeginStart
<1>21. CASE Exit
  <2> QED
    BY <1>21 DEF TypeOK, manager, procs, Exit, Pumping
<1>22. CASE Undefer
  <2>1. hold' \in HoldType
    BY <1>22 DEF TypeOK, HoldType, Undefer
  <2> QED
    BY <1>22, <2>1 DEF TypeOK, manager, procs, Undefer
<1>23. CASE Detach
  <2>1. acme' \in AcmeType
    <3>1. CASE stop.pc = "idle"
      BY <1>23, <3>1 DEF TypeOK, AcmeType, Starters, Detach
    <3>2. CASE ~(stop.pc = "idle")
      BY <1>23, <3>2 DEF TypeOK, AcmeType, Starters, Detach
    <3> QED BY <3>1, <3>2
  <2>2. stop' \in StopType
    BY <1>23 DEF TypeOK, StopType, Detach
  <2> QED
    BY <1>23, <2>1, <2>2 DEF TypeOK, manager, procs, Detach
<1>24. CASE DetachTimesOut
  <2> QED
    BY <1>24 DEF TypeOK, manager, procs, DetachTimesOut
<1>25. CASE StopWaited
  <2>1. acme' \in AcmeType
    BY <1>25 DEF TypeOK, AcmeType, Starters, StopWaited
  <2> QED
    BY <1>25, <2>1 DEF TypeOK, manager, procs, StopWaited
<1>26. ASSUME NEW s \in Starters, StartOps(s)
      PROVE  TypeOK'
  <2>1. acme' \in AcmeType
    BY <1>26 DEF TypeOK, AcmeType, Starters, StartOps, Calling, Goto
  <2> QED
    BY <1>26, <2>1 DEF TypeOK, manager, procs, StartOps, Calling,
         Goto
<1>27. ASSUME NEW s \in Starters, StartRefused(s)
      PROVE  TypeOK'
  <2>1. acme' \in AcmeType
    BY <1>27 DEF TypeOK, AcmeType, Starters, StartRefused, Calling, Goto
  <2> QED
    BY <1>27, <2>1 DEF TypeOK, manager, procs, StartRefused, Calling,
         Goto
<1>28. ASSUME NEW s \in Starters, StartWaited(s)
      PROVE  TypeOK'
  <2>1. acme' \in AcmeType
    BY <1>28 DEF TypeOK, AcmeType, Starters, StartWaited, Calling, Goto
  <2> QED
    BY <1>28, <2>1 DEF TypeOK, manager, procs, StartWaited, Calling,
         Goto
<1>29. ASSUME NEW s \in Starters, StartCheck(s)
      PROVE  TypeOK'
  <2>1. acme' \in AcmeType
    BY <1>29 DEF TypeOK, AcmeType, Starters, StartCheck, Calling, Goto
  <2> QED
    BY <1>29, <2>1 DEF TypeOK, manager, procs, StartCheck, Calling,
         Goto
<1>30. ASSUME NEW s \in Starters, StartDefer(s)
      PROVE  TypeOK'
  <2>1. hold' \in HoldType
    BY <1>30 DEF TypeOK, HoldType, StartDefer, Calling, Goto
  <2>2. acme' \in AcmeType
    BY <1>30 DEF TypeOK, AcmeType, Starters, StartDefer, Calling, Goto
  <2> QED
    BY <1>30, <2>1, <2>2 DEF TypeOK, manager, procs, StartDefer,
         Calling, Goto
<1>31. ASSUME NEW s \in Starters, StartRecheck(s)
      PROVE  TypeOK'
  <2>1. hold' \in HoldType
    BY <1>31 DEF TypeOK, HoldType, StartRecheck, Calling, Goto, Started
  <2>2. acme' \in AcmeType
    <3>1. CASE hold.depth = 0 /\ hold.pendingStart
      BY <1>31, <3>1 DEF TypeOK, AcmeType, Starters, StartRecheck, Goto
    <3>2. CASE ~(hold.depth = 0 /\ hold.pendingStart)
      <4>1. acme' = Started(s)
        BY <1>31, <3>2 DEF StartRecheck
      <4> QED BY <4>1 DEF TypeOK, AcmeType, Starters, Started, Goto
    <3> QED BY <3>1, <3>2
  <2> QED
    BY <1>31, <2>1, <2>2 DEF TypeOK, manager, procs, StartRecheck,
         Calling, Goto, Started
<1>32. ASSUME NEW s \in Starters, StartOpen(s)
      PROVE  TypeOK'
  <2>1. acme' \in AcmeType
    BY <1>32 DEF TypeOK, AcmeType, Starters, StartOpen, Calling, Goto, Started
  <2>2. imp' \in ImpType /\ past' \in PastType
    BY <1>32 DEF TypeOK, ImpType, PastType, StartOpen
  <2> QED
    BY <1>32, <2>1, <2>2 DEF TypeOK, manager, procs, StartOpen, Calling,
         Goto, Started
<1>33. CASE StopCompensation
  <2>1. stop' \in StopType
    BY <1>33 DEF TypeOK, StopType, StopCompensation
  <2>2. rule' \in [Changers -> RuleType]
    <3>1. ASSUME NEW c \in Changers
          PROVE  [rule[c] EXCEPT !.doomed = @ \/ Compensating(c)] \in RuleType
      BY ZenonT(60) DEF TypeOK, RuleType, Compensating
    <3> QED BY <1>33, <3>1 DEF StopCompensation
  <2> QED
    BY <1>33, <2>1, <2>2 DEF TypeOK, manager, procs, StopCompensation
<1>34. CASE StopBlocks
  <2>1. rule' \in [Changers -> RuleType]
    <3>1. ASSUME NEW c \in Changers
          PROVE  [rule[c] EXCEPT !.passed = @ \/ Draining(c)] \in RuleType
      BY DEF TypeOK, RuleType, Draining
    <3> QED BY <1>34, <3>1, IdleTyped DEF StopBlocks
  <2>2. stop' \in StopType
    BY <1>34 DEF TypeOK, StopType, StopBlocks
  <2> QED
    BY <1>34, <2>1, <2>2 DEF TypeOK, manager, procs, StopBlocks
<1>35. CASE StopDrain
  <2>1. stage' \in [Queues -> [Jobs -> Stages]]
    BY <1>35 DEF TypeOK, Stages, Executing, StopDrain, StopQueues
  <2>2. stopped' \subseteq Queues
    BY MappedTyped, <1>35 DEF TypeOK, StopDrain, StopQueues
  <2>3. queueOf' \in [Providers -> Queues \cup {None}]
    BY <1>35 DEF TypeOK, StopDrain, StopQueues
  <2>4. stop' \in StopType
    BY MappedTyped, <1>35 DEF TypeOK, StopType, StopDrain
  <2> QED
    BY <1>35, <2>1, <2>2, <2>3, <2>4 DEF TypeOK, manager, procs,
         StopDrain, StopQueues
<1>36. CASE StopRetire
  <2>1. retired' \subseteq Queues
    BY <1>36 DEF TypeOK, StopType, StopRetire, Retire
  <2>2. stop' \in StopType
    BY <1>36 DEF TypeOK, StopType, StopRetire, Retire, Busy
  <2> QED
    BY <1>36, <2>1, <2>2 DEF TypeOK, manager, procs, StopRetire,
         Retire, Busy
<1>37. CASE StopClear
  <2>1. hold' \in HoldType
    BY <1>37 DEF TypeOK, HoldType, StopClear
  <2>2. stop' \in StopType
    BY <1>37 DEF TypeOK, StopType, StopClear
  <2> QED
    BY <1>37, <2>1, <2>2 DEF TypeOK, manager, procs, StopClear
<1>38. CASE ImportSample
  <2>1. imp' \in ImpType
    BY <1>38 DEF TypeOK, ImpType, Status, ImportSample
  <2>2. used' \in UsedType
    BY QueueAssumption, <1>38 DEF TypeOK, UsedType, ImportSample
  <2> QED
    BY <1>38, <2>1, <2>2 DEF TypeOK, manager, procs, ImportSample
<1>39. CASE BeginConfigImportHold
  <2>1. hold' \in HoldType
    BY <1>39 DEF TypeOK, HoldInv, Holding, HoldType, BeginConfigImportHold
  <2>2. imp' \in ImpType
    BY <1>39 DEF TypeOK, ImpType, Status, BeginConfigImportHold
  <2> QED
    BY <1>39, <2>1, <2>2 DEF TypeOK, manager, procs,
         BeginConfigImportHold
<1>40. CASE ImportDrain
  <2>1. stage' \in [Queues -> [Jobs -> Stages]]
    BY <1>40 DEF TypeOK, Stages, Executing, ImportDrain, StopQueues
  <2>2. stopped' \subseteq Queues
    BY MappedTyped, <1>40 DEF TypeOK, ImportDrain, StopQueues
  <2>3. queueOf' \in [Providers -> Queues \cup {None}]
    BY <1>40 DEF TypeOK, ImportDrain, StopQueues
  <2>4. imp' \in ImpType
    BY MappedTyped, <1>40 DEF TypeOK, ImpType, ImportDrain
  <2>5. past' \in PastType
    BY <1>40 DEF TypeOK, PastType, ImpType, ImportDrain, Unseen
  <2> QED
    BY <1>40, <2>1, <2>2, <2>3, <2>4, <2>5 DEF TypeOK, manager, procs,
         ImportDrain, StopQueues
<1>41. CASE ImportDrained
  <2>1. retired' \subseteq Queues
    BY <1>41 DEF TypeOK, ImpType, ImportDrained, Retire
  <2>2. imp' \in ImpType
    BY ZenonT(60), <1>41 DEF TypeOK, ImpType, Status, ImportDrained, Retire, Busy, Drained
  <2> QED
    BY <1>41, <2>1, <2>2 DEF TypeOK, manager, procs, ImportDrained,
         Retire, Busy, Drained
<1>42. CASE ImportLock
  <2>1. imp' \in ImpType
    BY <1>42 DEF TypeOK, ImpType, Status, ImportLock, CaddyOpHeld
  <2> QED
    BY <1>42, <2>1 DEF TypeOK, manager, procs, ImportLock, CaddyOpHeld
<1>43. CASE ImportCommit
  <2>1. row' \in [Jobs -> Status]
    BY <1>43 DEF TypeOK, Status, ImportCommit
  <2>2. imp' \in ImpType
    BY <1>43 DEF TypeOK, ImpType, Status, ImportCommit
  <2> QED
    BY <1>43, <2>1, <2>2 DEF TypeOK, manager, procs, ImportCommit
<1>44. CASE EndConfigImportHold
  <2>1. hold' \in HoldType
    <3>1. hold.depth = 1
      BY <1>44 DEF HoldInv, Holding, EndConfigImportHold
    <3> QED
      BY <1>44, <3>1 DEF HoldType, EndConfigImportHold
  <2>2. imp' \in ImpType
    BY <1>44 DEF TypeOK, ImpType, HoldType, EndConfigImportHold
  <2> QED
    BY <1>44, <2>1, <2>2 DEF TypeOK, manager, procs,
         EndConfigImportHold
<1>45. CASE ImportOpen
  <2>1. acme' \in AcmeType
    BY <1>45 DEF TypeOK, AcmeType, Starters, ImportOpen, BeginStart
  <2>2. imp' \in ImpType
    BY <1>45 DEF TypeOK, ImpType, Status, ImportOpen, BeginStart
  <2>3. past' \in PastType
    BY <1>45 DEF TypeOK, PastType, ImportOpen
  <2> QED
    BY <1>45, <2>1, <2>2, <2>3 DEF TypeOK, manager, procs, ImportOpen,
         BeginStart
<1>46. CASE ImportResume
  <2>1. imp' \in ImpType
    <3>1. imp' = [imp EXCEPT !.pc = "scan"] \/ imp' = [imp EXCEPT !.pc = "idle"]
      BY <1>46 DEF ImportResume
    <3> QED BY <3>1 DEF TypeOK, ImpType
  <2>2. past' \in PastType
    <3>1. past' = [past EXCEPT !.closed = FALSE] \/ past' = past
      BY <1>46 DEF ImportResume
    <3> QED BY <3>1 DEF TypeOK, PastType
  <2> QED
    BY <1>46, <2>1, <2>2 DEF TypeOK, manager, procs, ImportResume, Calling
<1>47. CASE ImportScan
  <2>1. imp' \in ImpType
    <3> DEFINE todo == {<<j, row[j]>> : j \in {k \in Jobs : row[k] \in {"queued", "creating"}}}
    <3>1. todo \in SUBSET (Jobs \X Status)
      BY DEF TypeOK
    <3>2. imp' = [imp EXCEPT !.pc = "requeue", !.was = FALSE, !.todo = todo]
      BY <1>47 DEF ImportScan
    <3> HIDE DEF todo
    <3> QED BY <3>1, <3>2 DEF TypeOK, ImpType
  <2> QED
    BY <1>47, <2>1 DEF TypeOK, manager, procs, ImportScan
<1>48. CASE ImportRequeue
  <2>1. imp' \in ImpType
    <3>1. CASE imp.todo = {}
      <4>1. imp' = [imp EXCEPT !.pc = "idle"]
        BY <1>48, <3>1 DEF ImportRequeue
      <4> QED BY <4>1 DEF TypeOK, ImpType
    <3>2. CASE imp.todo # {}
      <4>1. PICK t \in imp.todo : imp' = [imp EXCEPT !.todo = imp.todo \ {t}]
        BY <1>48, <3>2 DEF ImportRequeue
      <4> QED BY <4>1 DEF TypeOK, ImpType
    <3> QED BY <3>1, <3>2
  <2>2. enq' \in [Enqueuers -> CallType]
    <3>1. CASE imp.todo = {}
      BY <1>48, <3>1 DEF TypeOK, ImportRequeue
    <3>2. CASE imp.todo # {}
      <4>1. PICK t \in imp.todo : Call("import", "scan", t[1], t[2])
        BY <1>48, <3>2 DEF ImportRequeue
      <4>2. t[1] \in Jobs /\ t[2] \in Status
        BY DEF TypeOK, ImpType
      <4> QED BY <4>1, <4>2 DEF TypeOK, Call, CallType, Enqueuers
    <3> QED BY <3>1, <3>2
  <2> QED
    BY <1>48, <2>1, <2>2 DEF TypeOK, manager, procs, ImportRequeue,
         Call
<1>49. CASE UNCHANGED vars
  BY <1>49 DEF TypeOK, vars, manager, procs
<1>50. CASE RuleNext
  BY <1>50, TypeRule
<1> QED
  BY <1>1, <1>2, <1>3, <1>4, <1>5, <1>6, <1>7, <1>8, <1>9, <1>10, <1>11, <1>12,
     <1>13, <1>14, <1>15, <1>16, <1>17, <1>18, <1>19, <1>20, <1>21, <1>22, <1>23,
     <1>24, <1>25, <1>26, <1>27, <1>28, <1>29, <1>30, <1>31, <1>32, <1>33, <1>34,
     <1>35, <1>36, <1>37, <1>38, <1>39, <1>40, <1>41, <1>42, <1>43, <1>44, <1>45,
     <1>46, <1>47, <1>48, <1>49, <1>50
  DEF Next, EnqueueNext, ExecutionNext, LifecycleNext, ImportNext

life == <<active, hold, acme, daemon, stop, imp>>

\* Callers, executions and rule changes leave the lifecycle and the import alone.
LEMMA LifeMoves ==
    ASSUME TypeOK, [Next]_vars
    PROVE  (UNCHANGED life /\ past'.closed = past.closed) \/ LifecycleNext \/ ImportNext
<1>1. CASE EnqueueNext
  <2>1. ASSUME NEW e \in Enqueuers, NEW j \in Jobs, Enqueue(e, j)
        PROVE  UNCHANGED <<life, past>>
    BY <2>1 DEF Enqueue, life, manager
  <2>2. ASSUME NEW e \in Enqueuers,
               Transition(e) \/ ResolveFails(e) \/ EnqueueAdmitted(e) \/ Release(e)
        PROVE  UNCHANGED <<life, past>>
    BY <2>2 DEF Transition, ResolveFails, EnqueueAdmitted, Release, life, manager
  <2>3. ASSUME NEW e \in Enqueuers, Reserve(e)
        PROVE  UNCHANGED life /\ past'.closed = past.closed
    BY <2>3 DEF Reserve, Overlook, life, TypeOK, PastType
  <2> QED BY <1>1, <2>1, <2>2, <2>3 DEF EnqueueNext
<1>2. CASE ExecutionNext
  <2>1. ASSUME NEW q \in Queues, NEW j \in Jobs,
               \/ Dispatch(q, j) \/ Progress(q, j) \/ Deployed(q, j)
               \/ DeployFails(q, j) \/ Fails(q, j) \/ Cancelled(q, j) \/ Leave(q, j)
        PROVE  UNCHANGED <<life, past>>
    BY <2>1 DEF Dispatch, Progress, Deployed, DeployFails, Fails, Cancelled, Leave,
         life, manager, procs
  <2>2. ASSUME NEW q \in Queues, DispatchUnavailable(q) PROVE UNCHANGED <<life, past>>
    BY <2>2 DEF DispatchUnavailable, life
  <2>3. ASSUME NEW j \in Jobs, FailPending(j) \/ ReleaseZombieJob(j)
        PROVE  UNCHANGED <<life, past>>
    BY <2>3 DEF FailPending, ReleaseZombieJob, life, procs
  <2> QED BY <1>2, <2>1, <2>2, <2>3 DEF ExecutionNext
<1>3. ASSUME NEW c \in Changers, NEW j \in Jobs, DisableRule(c, j) \/ DeleteRule(c, j)
      PROVE  UNCHANGED <<life, past>>
  BY <1>3 DEF DisableRule, DeleteRule, life, manager
<1>4. ASSUME NEW c \in Changers,
             \/ RuleDisabled(c) \/ BlockJobsForRule(c) \/ CancelJobsForRule(c)
             \/ RuleWaited(c) \/ RuleDeleted(c) \/ RuleDeleteFails(c)
             \/ CompensationWaited(c) \/ CompensationFails(c)
      PROVE  UNCHANGED <<life, past>>
  BY <1>4 DEF RuleDisabled, BlockJobsForRule, CancelJobsForRule, RuleWaited, RuleDeleted,
       RuleDeleteFails, CompensationWaited, CompensationFails, life, manager
<1>5. ASSUME NEW c \in Changers,
             \/ CompensationRequeue(c) \/ CompensationInFlight(c)
             \/ CompensationEnqueue(c) \/ CompensationRelease(c)
      PROVE  UNCHANGED <<life, past>>
  BY <1>5 DEF CompensationRequeue, CompensationInFlight, CompensationEnqueue,
       CompensationRelease, life
<1>6. ASSUME NEW c \in Changers, CompensationReserve(c)
      PROVE  UNCHANGED life /\ past'.closed = past.closed
  BY <1>6 DEF CompensationReserve, Overlook, life, TypeOK, PastType
<1>7. CASE UNCHANGED vars
  BY <1>7 DEF vars, manager, procs, life
<1> QED BY <1>1, <1>2, <1>3, <1>4, <1>5, <1>6, <1>7 DEF Next, RuleNext

\* What each step of the lifecycle and of the import leaves alone.
LEMMA LifeFrame ==
    /\ Launch => UNCHANGED <<active, hold, stop, imp, past>>
    /\ LaunchCheck => UNCHANGED <<active, hold, stop, imp, past>>
    /\ LaunchDefer => UNCHANGED <<active, acme, stop, imp, past>>
    /\ LaunchRecheck => UNCHANGED <<active, stop, imp, past>>
    /\ Exit => UNCHANGED <<active, hold, acme, stop, imp, past>>
    /\ Undefer => UNCHANGED <<active, acme, stop, imp, past>>
    /\ Detach => UNCHANGED <<active, hold, imp, past>>
    /\ DetachTimesOut => UNCHANGED <<active, hold, acme, stop, imp, past>>
    /\ StopWaited => UNCHANGED <<active, hold, stop, imp, past>>
    /\ \A s \in Starters : StartOps(s) => UNCHANGED <<active, hold, daemon, stop, imp, past>>
    /\ \A s \in Starters : StartRefused(s) => UNCHANGED <<active, hold, daemon, stop, imp, past>>
    /\ \A s \in Starters : StartWaited(s) => UNCHANGED <<active, hold, daemon, stop, imp, past>>
    /\ \A s \in Starters : StartCheck(s) => UNCHANGED <<active, hold, daemon, stop, imp, past>>
    /\ \A s \in Starters : StartDefer(s) => UNCHANGED <<active, daemon, stop, imp, past>>
    /\ \A s \in Starters : StartRecheck(s) => UNCHANGED <<active, daemon, stop, imp, past>>
    /\ \A s \in Starters : StartOpen(s) => UNCHANGED <<hold, daemon, stop>>
    /\ StopCompensation => UNCHANGED <<active, hold, acme, daemon, imp, past>>
    /\ StopBlocks => UNCHANGED <<active, hold, acme, daemon, imp, past>>
    /\ StopDrain => UNCHANGED <<hold, acme, daemon, imp, past>>
    /\ StopRetire => UNCHANGED <<active, hold, acme, daemon, imp, past>>
    /\ StopClear => UNCHANGED <<active, acme, daemon, imp, past>>
    /\ ImportSample => UNCHANGED <<active, hold, acme, daemon, stop, past>>
    /\ BeginConfigImportHold => UNCHANGED <<active, acme, daemon, stop, past>>
    /\ ImportDrain => UNCHANGED <<hold, acme, daemon, stop>>
    /\ ImportDrained => UNCHANGED <<active, hold, acme, daemon, stop, past>>
    /\ ImportLock => UNCHANGED <<active, hold, acme, daemon, stop, past>>
    /\ ImportCommit => UNCHANGED <<active, hold, acme, daemon, stop, past>>
    /\ EndConfigImportHold => UNCHANGED <<active, acme, daemon, stop, past>>
    /\ ImportOpen => UNCHANGED <<hold, daemon, stop>>
    /\ ImportResume => UNCHANGED <<hold, acme, daemon, stop>>
    /\ ImportScan => UNCHANGED <<active, hold, acme, daemon, stop, past>>
    /\ ImportRequeue => UNCHANGED <<active, hold, acme, daemon, stop, past>>
<1>1. Launch => UNCHANGED <<active, hold, stop, imp, past>>
  BY DEF Launch, manager
<1>2. LaunchCheck => UNCHANGED <<active, hold, stop, imp, past>>
  BY DEF LaunchCheck, manager
<1>3. LaunchDefer => UNCHANGED <<active, acme, stop, imp, past>>
  BY DEF LaunchDefer, manager
<1>4. LaunchRecheck => UNCHANGED <<active, stop, imp, past>>
  BY DEF LaunchRecheck, manager
<1>5. Exit => UNCHANGED <<active, hold, acme, stop, imp, past>>
  BY DEF Exit, manager
<1>6. Undefer => UNCHANGED <<active, acme, stop, imp, past>>
  BY DEF Undefer, manager
<1>7. Detach => UNCHANGED <<active, hold, imp, past>>
  BY DEF Detach, manager
<1>8. DetachTimesOut => UNCHANGED <<active, hold, acme, stop, imp, past>>
  BY DEF DetachTimesOut, manager
<1>9. StopWaited => UNCHANGED <<active, hold, stop, imp, past>>
  BY DEF StopWaited, manager
<1>10. \A s \in Starters : StartOps(s) => UNCHANGED <<active, hold, daemon, stop, imp, past>>
  BY DEF StartOps, manager
<1>11. \A s \in Starters : StartRefused(s) => UNCHANGED <<active, hold, daemon, stop, imp, past>>
  BY DEF StartRefused, manager
<1>12. \A s \in Starters : StartWaited(s) => UNCHANGED <<active, hold, daemon, stop, imp, past>>
  BY DEF StartWaited, manager
<1>13. \A s \in Starters : StartCheck(s) => UNCHANGED <<active, hold, daemon, stop, imp, past>>
  BY DEF StartCheck, manager
<1>14. \A s \in Starters : StartDefer(s) => UNCHANGED <<active, daemon, stop, imp, past>>
  BY DEF StartDefer, manager
<1>15. \A s \in Starters : StartRecheck(s) => UNCHANGED <<active, daemon, stop, imp, past>>
  BY DEF StartRecheck, manager
<1>16. \A s \in Starters : StartOpen(s) => UNCHANGED <<hold, daemon, stop>>
  BY DEF StartOpen, manager
<1>17. StopCompensation => UNCHANGED <<active, hold, acme, daemon, imp, past>>
  BY DEF StopCompensation, manager
<1>18. StopBlocks => UNCHANGED <<active, hold, acme, daemon, imp, past>>
  BY DEF StopBlocks, manager
<1>19. StopDrain => UNCHANGED <<hold, acme, daemon, imp, past>>
  BY DEF StopDrain, manager
<1>20. StopRetire => UNCHANGED <<active, hold, acme, daemon, imp, past>>
  BY DEF StopRetire, manager
<1>21. StopClear => UNCHANGED <<active, acme, daemon, imp, past>>
  BY DEF StopClear, manager
<1>22. ImportSample => UNCHANGED <<active, hold, acme, daemon, stop, past>>
  BY DEF ImportSample, manager
<1>23. BeginConfigImportHold => UNCHANGED <<active, acme, daemon, stop, past>>
  BY DEF BeginConfigImportHold, manager
<1>24. ImportDrain => UNCHANGED <<hold, acme, daemon, stop>>
  BY DEF ImportDrain, manager
<1>25. ImportDrained => UNCHANGED <<active, hold, acme, daemon, stop, past>>
  BY DEF ImportDrained, manager
<1>26. ImportLock => UNCHANGED <<active, hold, acme, daemon, stop, past>>
  BY DEF ImportLock, manager
<1>27. ImportCommit => UNCHANGED <<active, hold, acme, daemon, stop, past>>
  BY DEF ImportCommit, manager
<1>28. EndConfigImportHold => UNCHANGED <<active, acme, daemon, stop, past>>
  BY DEF EndConfigImportHold, manager
<1>29. ImportOpen => UNCHANGED <<hold, daemon, stop>>
  BY DEF ImportOpen, manager
<1>30. ImportResume => UNCHANGED <<hold, acme, daemon, stop>>
  BY DEF ImportResume, manager
<1>31. ImportScan => UNCHANGED <<active, hold, acme, daemon, stop, past>>
  BY DEF ImportScan, manager
<1>32. ImportRequeue => UNCHANGED <<active, hold, acme, daemon, stop, past>>
  BY DEF ImportRequeue, manager
<1> QED
  BY <1>1, <1>2, <1>3, <1>4, <1>5, <1>6, <1>7, <1>8, <1>9, <1>10, <1>11, <1>12, <1>13,
       <1>14, <1>15, <1>16, <1>17, <1>18, <1>19, <1>20, <1>21, <1>22, <1>23, <1>24,
       <1>25, <1>26, <1>27, <1>28, <1>29, <1>30, <1>31, <1>32

LEMMA OpenFrame ==
    ASSUME TypeOK, NEW s \in Starters, StartOpen(s)
    PROVE  /\ imp'.pc = imp.pc /\ imp'.was = imp.was /\ imp'.pending = imp.pending
           /\ imp'.cert = imp.cert /\ imp'.waits = imp.waits /\ imp'.prior = imp.prior
           /\ imp'.zombies = imp.zombies
           /\ imp'.late = (imp.late \/ imp.pc \in AfterDrain)
BY DEF StartOpen, TypeOK, ImpType

LEMMA HoldStep ==
    ASSUME TypeOK, HoldInv, [Next]_vars
    PROVE  HoldInv'
<1>1. ASSUME UNCHANGED <<hold, imp>> PROVE HoldInv'
  BY <1>1 DEF HoldInv
<1>2. CASE \/ Launch
           \/ LaunchCheck
           \/ Exit
           \/ Detach
           \/ DetachTimesOut
           \/ StopWaited
           \/ \E s \in Starters : StartOps(s)
           \/ \E s \in Starters : StartRefused(s)
           \/ \E s \in Starters : StartWaited(s)
           \/ \E s \in Starters : StartCheck(s)
           \/ StopCompensation
           \/ StopBlocks
           \/ StopDrain
           \/ StopRetire
  BY <1>1, <1>2, LifeFrame
<1>3. ASSUME NEW s \in Starters, StartOpen(s) PROVE HoldInv'
  BY <1>3, OpenFrame, LifeFrame DEF HoldInv
<1>4. CASE LaunchDefer
  BY <1>4 DEF TypeOK, HoldType, ImpType, HoldInv, Holding, manager, procs,
         LaunchDefer
<1>5. CASE LaunchRecheck
  BY <1>5 DEF TypeOK, HoldType, ImpType, HoldInv, Holding, manager, procs,
         LaunchRecheck, BeginStart
<1>6. CASE Undefer
  BY <1>6 DEF TypeOK, HoldType, ImpType, HoldInv, Holding, manager, procs,
         Undefer
<1>7. ASSUME NEW s \in Starters, StartDefer(s)
      PROVE  HoldInv'
  BY <1>7 DEF TypeOK, HoldType, ImpType, HoldInv, Holding, manager, procs,
         StartDefer, Calling, Goto
<1>8. ASSUME NEW s \in Starters, StartRecheck(s)
      PROVE  HoldInv'
  BY <1>8 DEF TypeOK, HoldType, ImpType, HoldInv, Holding, manager, procs,
         StartRecheck, Calling, Goto, Started
<1>9. CASE StopClear
  BY <1>9 DEF TypeOK, HoldType, ImpType, HoldInv, Holding, manager, procs,
         StopClear
<1>10. CASE ImportSample
  BY <1>10 DEF TypeOK, HoldType, ImpType, HoldInv, Holding, manager, procs,
         ImportSample
<1>11. CASE BeginConfigImportHold
  BY <1>11 DEF TypeOK, HoldType, ImpType, HoldInv, Holding, manager, procs,
         BeginConfigImportHold
<1>12. CASE ImportDrain
  BY <1>12 DEF TypeOK, HoldType, ImpType, HoldInv, Holding, manager, procs,
         ImportDrain, StopQueues
<1>13. CASE ImportDrained
  BY <1>13 DEF TypeOK, HoldType, ImpType, HoldInv, Holding, manager, procs,
         ImportDrained, Retire, Busy, Drained
<1>14. CASE ImportLock
  BY <1>14 DEF TypeOK, HoldType, ImpType, HoldInv, Holding, manager, procs,
         ImportLock, CaddyOpHeld
<1>15. CASE ImportCommit
  BY <1>15 DEF TypeOK, HoldType, ImpType, HoldInv, Holding, manager, procs,
         ImportCommit
<1>16. CASE EndConfigImportHold
  BY <1>16 DEF TypeOK, HoldType, ImpType, HoldInv, Holding, manager, procs,
         EndConfigImportHold
<1>17. CASE ImportOpen
  BY <1>17 DEF TypeOK, HoldType, ImpType, HoldInv, Holding, manager, procs,
         ImportOpen, BeginStart
<1>18. CASE ImportResume
  BY <1>18 DEF TypeOK, HoldType, ImpType, HoldInv, Holding, manager, procs,
         ImportResume, Calling
<1>19. CASE ImportScan
  BY <1>19 DEF TypeOK, HoldType, ImpType, HoldInv, Holding, manager, procs,
         ImportScan
<1>20. CASE ImportRequeue
  BY <1>20 DEF TypeOK, HoldType, ImpType, HoldInv, Holding, manager, procs,
         ImportRequeue, Call
<1> QED
  BY <1>1, LifeMoves, <1>2, <1>3, <1>4, <1>5, <1>6, <1>7, <1>8, <1>9, <1>10, <1>11,
     <1>12, <1>13, <1>14, <1>15, <1>16, <1>17, <1>18, <1>19, <1>20
  DEF LifecycleNext, ImportNext, life

LEMMA OpsStep ==
    ASSUME TypeOK, OpsInv, [Next]_vars
    PROVE  OpsInv'
<1>1. ASSUME UNCHANGED <<acme, stop, imp, daemon>> PROVE OpsInv'
  BY <1>1 DEF OpsInv
<1>2. CASE Launch
  BY <1>2 DEF TypeOK, AcmeType, StopType, ImpType, OpsInv, Starters, InStart,
         manager, procs, Launch
<1>3. CASE LaunchCheck
  BY <1>3 DEF TypeOK, AcmeType, StopType, ImpType, OpsInv, Starters, InStart,
         manager, procs, LaunchCheck, BeginStart
<1>4. CASE LaunchDefer
  BY <1>4 DEF TypeOK, AcmeType, StopType, ImpType, OpsInv, Starters, InStart,
         manager, procs, LaunchDefer
<1>5. CASE LaunchRecheck
  BY <1>5 DEF TypeOK, AcmeType, StopType, ImpType, OpsInv, Starters, InStart,
         manager, procs, LaunchRecheck, BeginStart
<1>6. CASE Exit
  BY <1>6 DEF TypeOK, AcmeType, StopType, ImpType, OpsInv, Starters, InStart,
         manager, procs, Exit, Pumping
<1>7. CASE Undefer
  BY <1>7 DEF TypeOK, AcmeType, StopType, ImpType, OpsInv, Starters, InStart,
         manager, procs, Undefer
<1>8. CASE Detach
  BY ZenonT(60), <1>8 DEF TypeOK, AcmeType, StopType, ImpType, OpsInv, Starters, InStart,
         manager, procs, Detach
<1>9. CASE DetachTimesOut
  BY <1>9 DEF TypeOK, AcmeType, StopType, ImpType, OpsInv, Starters, InStart,
         manager, procs, DetachTimesOut
<1>10. CASE StopWaited
  BY <1>10 DEF TypeOK, AcmeType, StopType, ImpType, OpsInv, Starters, InStart,
         manager, procs, StopWaited
<1>11. ASSUME NEW s \in Starters, StartOps(s)
      PROVE  OpsInv'
  BY <1>11 DEF TypeOK, AcmeType, StopType, ImpType, OpsInv, Starters, InStart,
         manager, procs, StartOps, Calling, Goto
<1>12. ASSUME NEW s \in Starters, StartRefused(s)
      PROVE  OpsInv'
  BY <1>12 DEF TypeOK, AcmeType, StopType, ImpType, OpsInv, Starters, InStart,
         manager, procs, StartRefused, Calling, Goto
<1>13. ASSUME NEW s \in Starters, StartWaited(s)
      PROVE  OpsInv'
  BY <1>13 DEF TypeOK, AcmeType, StopType, ImpType, OpsInv, Starters, InStart,
         manager, procs, StartWaited, Calling, Goto
<1>14. ASSUME NEW s \in Starters, StartCheck(s)
      PROVE  OpsInv'
  BY <1>14 DEF TypeOK, AcmeType, StopType, ImpType, OpsInv, Starters, InStart,
         manager, procs, StartCheck, Calling, Goto
<1>15. ASSUME NEW s \in Starters, StartDefer(s)
      PROVE  OpsInv'
  BY <1>15 DEF TypeOK, AcmeType, StopType, ImpType, OpsInv, Starters, InStart,
         manager, procs, StartDefer, Calling, Goto
<1>16. ASSUME NEW s \in Starters, StartRecheck(s)
      PROVE  OpsInv'
  <2>1. CASE hold.depth = 0 /\ hold.pendingStart
    <3>1. acme' = [acme EXCEPT !.call = Goto(s, "open")]
      BY <1>16, <2>1 DEF StartRecheck
    <3> QED
      BY <1>16, <2>1, <3>1 DEF TypeOK, AcmeType, OpsInv, Starters, InStart, Goto,
           StartRecheck, Calling
  <2>2. CASE ~(hold.depth = 0 /\ hold.pendingStart)
    <3>1. acme' = Started(s)
      BY <1>16, <2>2 DEF StartRecheck
    <3> QED
      BY <1>16, <3>1 DEF TypeOK, AcmeType, OpsInv, Starters, InStart, Goto,
           StartRecheck, Calling, Started
  <2> QED BY <2>1, <2>2
<1>17. ASSUME NEW s \in Starters, StartOpen(s)
      PROVE  OpsInv'
  BY <1>17 DEF TypeOK, AcmeType, StopType, ImpType, OpsInv, Starters, InStart,
         manager, procs, StartOpen, Calling, Goto, Started
<1>18. CASE StopCompensation
  BY <1>18 DEF TypeOK, AcmeType, StopType, ImpType, OpsInv, Starters, InStart,
         manager, procs, StopCompensation
<1>19. CASE StopBlocks
  BY <1>19 DEF TypeOK, AcmeType, StopType, ImpType, OpsInv, Starters, InStart,
         manager, procs, StopBlocks, Compensating
<1>20. CASE StopDrain
  BY <1>20 DEF TypeOK, AcmeType, StopType, ImpType, OpsInv, Starters, InStart,
         manager, procs, StopDrain, StopQueues
<1>21. CASE StopRetire
  BY <1>21 DEF TypeOK, AcmeType, StopType, ImpType, OpsInv, Starters, InStart,
         manager, procs, StopRetire, Retire, Busy
<1>22. CASE StopClear
  BY <1>22 DEF TypeOK, AcmeType, StopType, ImpType, OpsInv, Starters, InStart,
         manager, procs, StopClear
<1>23. CASE ImportSample
  BY <1>23 DEF TypeOK, AcmeType, StopType, ImpType, OpsInv, Starters, InStart,
         manager, procs, ImportSample
<1>24. CASE BeginConfigImportHold
  BY <1>24 DEF TypeOK, AcmeType, StopType, ImpType, OpsInv, Starters, InStart,
         manager, procs, BeginConfigImportHold
<1>25. CASE ImportDrain
  BY <1>25 DEF TypeOK, AcmeType, StopType, ImpType, OpsInv, Starters, InStart,
         manager, procs, ImportDrain, StopQueues
<1>26. CASE ImportDrained
  BY <1>26 DEF TypeOK, AcmeType, StopType, ImpType, OpsInv, Starters, InStart,
         manager, procs, ImportDrained, Retire, Busy, Drained
<1>27. CASE ImportLock
  BY <1>27 DEF TypeOK, AcmeType, StopType, ImpType, OpsInv, Starters, InStart,
         manager, procs, ImportLock, CaddyOpHeld
<1>28. CASE ImportCommit
  BY <1>28 DEF TypeOK, AcmeType, StopType, ImpType, OpsInv, Starters, InStart,
         manager, procs, ImportCommit
<1>29. CASE EndConfigImportHold
  BY <1>29 DEF TypeOK, AcmeType, StopType, ImpType, OpsInv, Starters, InStart,
         manager, procs, EndConfigImportHold
<1>30. CASE ImportOpen
  BY <1>30 DEF TypeOK, AcmeType, StopType, ImpType, OpsInv, Starters, InStart,
         manager, procs, ImportOpen, BeginStart
<1>31. CASE ImportResume
  BY <1>31 DEF TypeOK, AcmeType, StopType, ImpType, OpsInv, Starters, InStart,
         manager, procs, ImportResume, Calling
<1>32. CASE ImportScan
  BY <1>32 DEF TypeOK, AcmeType, StopType, ImpType, OpsInv, Starters, InStart,
         manager, procs, ImportScan
<1>33. CASE ImportRequeue
  BY <1>33 DEF TypeOK, AcmeType, StopType, ImpType, OpsInv, Starters, InStart,
         manager, procs, ImportRequeue, Call
<1> QED
  BY <1>1, LifeMoves, <1>2, <1>3, <1>4, <1>5, <1>6, <1>7, <1>8, <1>9, <1>10, <1>11,
     <1>12, <1>13, <1>14, <1>15, <1>16, <1>17, <1>18, <1>19, <1>20, <1>21, <1>22,
     <1>23, <1>24, <1>25, <1>26, <1>27, <1>28, <1>29, <1>30, <1>31, <1>32, <1>33
  DEF LifecycleNext, ImportNext, life

LEMMA IntentStep ==
    ASSUME TypeOK, HoldInv, OpsInv, IntentInv, [Next]_vars
    PROVE  IntentInv'
<1>1. ASSUME UNCHANGED <<hold, acme, daemon>> PROVE IntentInv'
  BY <1>1 DEF IntentInv
<1>2. CASE \/ StopCompensation
           \/ StopBlocks
           \/ StopDrain
           \/ StopRetire
           \/ ImportSample
           \/ ImportDrain
           \/ ImportDrained
           \/ ImportLock
           \/ ImportCommit
           \/ ImportResume
           \/ ImportScan
           \/ ImportRequeue
  BY <1>1, <1>2, LifeFrame
<1>3. CASE Launch
  BY <1>3 DEF TypeOK, HoldType, AcmeType, Starters, IntentInv, Launch
<1>4. CASE LaunchCheck
  BY <1>4 DEF TypeOK, HoldType, AcmeType, Starters, IntentInv, LaunchCheck, BeginStart,
       OpsInv
<1>5. CASE LaunchDefer
  BY <1>5 DEF TypeOK, HoldType, AcmeType, Starters, IntentInv, LaunchDefer
<1>6. CASE LaunchRecheck
  BY <1>6 DEF TypeOK, HoldType, AcmeType, Starters, IntentInv, LaunchRecheck,
       BeginStart, OpsInv
<1>7. CASE Exit
  BY <1>7 DEF TypeOK, HoldType, AcmeType, Starters, IntentInv, Exit, Pumping
<1>8. CASE Undefer
  BY <1>8 DEF TypeOK, HoldType, AcmeType, Starters, IntentInv, Undefer
<1>9. CASE Detach
  BY <1>9 DEF TypeOK, HoldType, AcmeType, Starters, IntentInv, Detach
<1>10. CASE DetachTimesOut
  BY <1>10 DEF TypeOK, HoldType, AcmeType, Starters, IntentInv, DetachTimesOut
<1>11. CASE StopWaited
  BY <1>11 DEF TypeOK, HoldType, AcmeType, Starters, IntentInv, StopWaited
<1>12. ASSUME NEW s \in Starters, StartOps(s) PROVE IntentInv'
  BY <1>12 DEF TypeOK, HoldType, AcmeType, Starters, IntentInv, StartOps, Calling, Goto
<1>13. ASSUME NEW s \in Starters, StartRefused(s) PROVE IntentInv'
  BY <1>13 DEF TypeOK, HoldType, AcmeType, Starters, IntentInv, StartRefused, Calling,
       Goto
<1>14. ASSUME NEW s \in Starters, StartWaited(s) PROVE IntentInv'
  BY <1>14 DEF TypeOK, HoldType, AcmeType, Starters, IntentInv, StartWaited, Calling,
       Goto
<1>15. ASSUME NEW s \in Starters, StartCheck(s) PROVE IntentInv'
  BY <1>15 DEF TypeOK, HoldType, AcmeType, Starters, IntentInv, StartCheck, Calling,
       Goto
<1>16. ASSUME NEW s \in Starters, StartDefer(s) PROVE IntentInv'
  BY <1>16 DEF TypeOK, HoldType, AcmeType, Starters, IntentInv, StartDefer, Calling,
       Goto
<1>17. ASSUME NEW s \in Starters, StartRecheck(s) PROVE IntentInv'
  BY <1>17 DEF TypeOK, HoldType, AcmeType, Starters, IntentInv, StartRecheck, Calling,
       Goto, Started
<1>18. ASSUME NEW s \in Starters, StartOpen(s) PROVE IntentInv'
  BY <1>18 DEF TypeOK, HoldType, AcmeType, Starters, IntentInv, StartOpen, Calling,
       Goto, Started
<1>19. CASE StopClear
  BY <1>19 DEF TypeOK, HoldType, AcmeType, Starters, IntentInv, StopClear
<1>20. CASE BeginConfigImportHold
  BY <1>20 DEF TypeOK, HoldType, AcmeType, Starters, IntentInv, BeginConfigImportHold,
       HoldInv, Holding
<1>21. CASE EndConfigImportHold
  BY <1>21 DEF TypeOK, HoldType, AcmeType, Starters, IntentInv, EndConfigImportHold,
       HoldInv, Holding
<1>22. CASE ImportOpen
  BY <1>22 DEF TypeOK, HoldType, AcmeType, Starters, IntentInv, ImportOpen, BeginStart,
       OpsInv
<1> QED
  BY <1>1, LifeMoves, <1>2, <1>3, <1>4, <1>5, <1>6, <1>7, <1>8, <1>9, <1>10, <1>11,
       <1>12, <1>13, <1>14, <1>15, <1>16, <1>17, <1>18, <1>19, <1>20, <1>21, <1>22
  DEF LifecycleNext, ImportNext, life

LEMMA TakenStep ==
    ASSUME TypeOK, TakenInv, [Next]_vars
    PROVE  TakenInv'
<1>1. ASSUME UNCHANGED <<imp>> PROVE TakenInv'
  BY <1>1 DEF TakenInv
<1>2. CASE \/ Launch
           \/ LaunchCheck
           \/ LaunchDefer
           \/ LaunchRecheck
           \/ Exit
           \/ Undefer
           \/ Detach
           \/ DetachTimesOut
           \/ StopWaited
           \/ \E s \in Starters : StartOps(s)
           \/ \E s \in Starters : StartRefused(s)
           \/ \E s \in Starters : StartWaited(s)
           \/ \E s \in Starters : StartCheck(s)
           \/ \E s \in Starters : StartDefer(s)
           \/ \E s \in Starters : StartRecheck(s)
           \/ StopCompensation
           \/ StopBlocks
           \/ StopDrain
           \/ StopRetire
           \/ StopClear
  BY <1>1, <1>2, LifeFrame
<1>3. CASE ImportSample
  BY <1>3 DEF TypeOK, ImpType, TakenInv, ImportSample
<1>4. CASE BeginConfigImportHold
  BY <1>4 DEF TypeOK, ImpType, TakenInv, BeginConfigImportHold
<1>5. CASE ImportDrain
  BY <1>5 DEF TypeOK, ImpType, TakenInv, ImportDrain, StopQueues
<1>6. CASE ImportDrained
  BY <1>6 DEF TypeOK, ImpType, TakenInv, ImportDrained, Retire, Busy, Drained
<1>7. CASE ImportLock
  BY <1>7 DEF TypeOK, ImpType, TakenInv, ImportLock
<1>8. CASE ImportCommit
  BY <1>8 DEF TypeOK, ImpType, TakenInv, ImportCommit
<1>9. CASE EndConfigImportHold
  BY <1>9 DEF TypeOK, ImpType, TakenInv, EndConfigImportHold
<1>10. CASE ImportOpen
  BY <1>10 DEF TypeOK, ImpType, TakenInv, ImportOpen, BeginStart
<1>11. CASE ImportResume
  BY <1>11 DEF TypeOK, ImpType, TakenInv, ImportResume, Calling
<1>12. CASE ImportScan
  BY <1>12 DEF TypeOK, ImpType, TakenInv, ImportScan
<1>13. CASE ImportRequeue
  BY <1>13 DEF TypeOK, ImpType, TakenInv, ImportRequeue
<1>14. ASSUME NEW s \in Starters, StartOpen(s) PROVE TakenInv'
  BY <1>14, OpenFrame DEF TakenInv
<1> QED
  BY <1>1, LifeMoves, <1>2, <1>3, <1>4, <1>5, <1>6, <1>7, <1>8, <1>9, <1>10, <1>11,
       <1>12, <1>13, <1>14
  DEF LifecycleNext, ImportNext, life

LEMMA WorkerStep ==
    ASSUME TypeOK, OpsInv, WorkerInv, [Next]_vars
    PROVE  WorkerInv'
<1>1. ASSUME UNCHANGED <<acme, stop>> PROVE WorkerInv'
  BY <1>1 DEF WorkerInv
<1>2. CASE \/ LaunchDefer
           \/ Exit
           \/ Undefer
           \/ DetachTimesOut
           \/ ImportSample
           \/ BeginConfigImportHold
           \/ ImportDrain
           \/ ImportDrained
           \/ ImportLock
           \/ ImportCommit
           \/ EndConfigImportHold
           \/ ImportResume
           \/ ImportScan
           \/ ImportRequeue
  BY <1>1, <1>2, LifeFrame
<1>3. CASE Launch
  BY <1>3 DEF TypeOK, AcmeType, Starters, StopType, WorkerInv, OpsInv, InStart, Launch
<1>4. CASE LaunchCheck
  BY <1>4 DEF TypeOK, AcmeType, Starters, StopType, WorkerInv, OpsInv, InStart,
       LaunchCheck, BeginStart
<1>5. CASE LaunchRecheck
  BY <1>5 DEF TypeOK, AcmeType, Starters, StopType, WorkerInv, OpsInv, InStart,
       LaunchRecheck, BeginStart
<1>6. CASE Detach
  BY ZenonT(60), <1>6 DEF TypeOK, AcmeType, Starters, StopType, WorkerInv, OpsInv, InStart, Detach
<1>7. CASE StopWaited
  BY <1>7 DEF TypeOK, AcmeType, Starters, StopType, WorkerInv, OpsInv, InStart,
       StopWaited
<1>8. ASSUME NEW s \in Starters, StartOps(s) PROVE WorkerInv'
  BY <1>8 DEF TypeOK, AcmeType, Starters, StopType, WorkerInv, OpsInv, InStart,
       StartOps, Calling, Goto
<1>9. ASSUME NEW s \in Starters, StartRefused(s) PROVE WorkerInv'
  BY <1>9 DEF TypeOK, AcmeType, Starters, StopType, WorkerInv, OpsInv, InStart,
       StartRefused, Calling, Goto
<1>10. ASSUME NEW s \in Starters, StartWaited(s) PROVE WorkerInv'
  BY <1>10 DEF TypeOK, AcmeType, Starters, StopType, WorkerInv, OpsInv, InStart,
       StartWaited, Calling, Goto
<1>11. ASSUME NEW s \in Starters, StartCheck(s) PROVE WorkerInv'
  BY <1>11 DEF TypeOK, AcmeType, Starters, StopType, WorkerInv, OpsInv, InStart,
       StartCheck, Calling, Goto
<1>12. ASSUME NEW s \in Starters, StartDefer(s) PROVE WorkerInv'
  BY <1>12 DEF TypeOK, AcmeType, Starters, StopType, WorkerInv, OpsInv, InStart,
       StartDefer, Calling, Goto
<1>13. ASSUME NEW s \in Starters, StartRecheck(s) PROVE WorkerInv'
  <2>1. CASE hold.depth = 0 /\ hold.pendingStart
    <3>1. acme' = [acme EXCEPT !.call = Goto(s, "open")]
      BY <1>13, <2>1 DEF StartRecheck
    <3> QED BY <1>13, <3>1 DEF TypeOK, AcmeType, WorkerInv, InStart, Goto, StartRecheck, Calling
  <2>2. CASE ~(hold.depth = 0 /\ hold.pendingStart)
    <3>1. acme' = Started(s)
      BY <1>13, <2>2 DEF StartRecheck
    <3>2. \A t \in Starters : acme.call[t] \in InStart => t = s
      BY <1>13 DEF OpsInv, StartRecheck, Calling, InStart
    <3>3. stop.pc = "idle" /\ UNCHANGED stop
      BY <1>13 DEF OpsInv, StartRecheck, Calling, InStart
    <3> QED BY <3>1, <3>2, <3>3 DEF TypeOK, AcmeType, WorkerInv, InStart, Goto, Started
  <2> QED BY <2>1, <2>2
<1>14. ASSUME NEW s \in Starters, StartOpen(s) PROVE WorkerInv'
  BY <1>14 DEF TypeOK, AcmeType, Starters, StopType, WorkerInv, OpsInv, InStart,
       StartOpen, Calling, Goto, Started
<1>15. CASE StopCompensation
  BY <1>15 DEF TypeOK, AcmeType, Starters, StopType, WorkerInv, OpsInv, InStart,
       StopCompensation
<1>16. CASE StopBlocks
  BY <1>16 DEF TypeOK, AcmeType, Starters, StopType, WorkerInv, OpsInv, InStart,
       StopBlocks
<1>17. CASE StopDrain
  BY <1>17 DEF TypeOK, AcmeType, Starters, StopType, WorkerInv, OpsInv, InStart,
       StopDrain, StopQueues
<1>18. CASE StopRetire
  BY <1>18 DEF TypeOK, AcmeType, Starters, StopType, WorkerInv, OpsInv, InStart,
       StopRetire, Retire, Busy
<1>19. CASE StopClear
  BY <1>19 DEF TypeOK, AcmeType, Starters, StopType, WorkerInv, OpsInv, InStart,
       StopClear
<1>20. CASE ImportOpen
  BY <1>20 DEF TypeOK, AcmeType, Starters, StopType, WorkerInv, OpsInv, InStart,
       ImportOpen, BeginStart
<1> QED
  BY <1>1, LifeMoves, <1>2, <1>3, <1>4, <1>5, <1>6, <1>7, <1>8, <1>9, <1>10, <1>11,
       <1>12, <1>13, <1>14, <1>15, <1>16, <1>17, <1>18, <1>19, <1>20
  DEF LifecycleNext, ImportNext, life

LEMMA RunStep ==
    ASSUME TypeOK, OpsInv, TakenInv, RunInv, [Next]_vars
    PROVE  RunInv'
<1>1. ASSUME UNCHANGED <<acme, daemon, hold, imp>> PROVE RunInv'
  BY <1>1 DEF RunInv
<1>2. CASE \/ StopCompensation
           \/ StopBlocks
           \/ StopDrain
           \/ StopRetire
  BY <1>1, <1>2, LifeFrame
<1>3. CASE Launch
  BY <1>3 DEF TypeOK, AcmeType, Starters, HoldType, ImpType, RunInv, TakenInv, Launch
<1>4. CASE LaunchCheck
  BY <1>4 DEF TypeOK, AcmeType, Starters, HoldType, ImpType, RunInv, TakenInv,
       LaunchCheck, BeginStart
<1>5. CASE LaunchDefer
  BY <1>5 DEF TypeOK, AcmeType, Starters, HoldType, ImpType, RunInv, TakenInv,
       LaunchDefer
<1>6. CASE LaunchRecheck
  BY <1>6 DEF TypeOK, AcmeType, Starters, HoldType, ImpType, RunInv, TakenInv,
       LaunchRecheck, BeginStart
<1>7. CASE Exit
  BY <1>7 DEF TypeOK, AcmeType, Starters, HoldType, ImpType, RunInv, TakenInv, Exit,
       Pumping
<1>8. CASE Undefer
  BY <1>8 DEF TypeOK, AcmeType, Starters, HoldType, ImpType, RunInv, TakenInv, Undefer
<1>9. CASE Detach
  BY <1>9 DEF TypeOK, AcmeType, Starters, HoldType, ImpType, RunInv, TakenInv, Detach
<1>10. CASE DetachTimesOut
  BY <1>10 DEF TypeOK, AcmeType, Starters, HoldType, ImpType, RunInv, TakenInv,
       DetachTimesOut
<1>11. CASE StopWaited
  BY <1>11 DEF TypeOK, AcmeType, Starters, HoldType, ImpType, RunInv, TakenInv,
       StopWaited
<1>12. ASSUME NEW s \in Starters, StartOps(s) PROVE RunInv'
  BY <1>12 DEF TypeOK, AcmeType, Starters, HoldType, ImpType, RunInv, TakenInv,
       StartOps, Calling, Goto
<1>13. ASSUME NEW s \in Starters, StartRefused(s) PROVE RunInv'
  BY <1>13 DEF TypeOK, AcmeType, Starters, HoldType, ImpType, RunInv, TakenInv,
       StartRefused, Calling, Goto
<1>14. ASSUME NEW s \in Starters, StartWaited(s) PROVE RunInv'
  BY <1>14 DEF TypeOK, AcmeType, Starters, HoldType, ImpType, RunInv, TakenInv,
       StartWaited, Calling, Goto
<1>15. ASSUME NEW s \in Starters, StartCheck(s) PROVE RunInv'
  BY <1>15 DEF TypeOK, AcmeType, Starters, HoldType, ImpType, RunInv, TakenInv,
       StartCheck, Calling, Goto
<1>16. ASSUME NEW s \in Starters, StartDefer(s) PROVE RunInv'
  BY <1>16 DEF TypeOK, AcmeType, Starters, HoldType, ImpType, RunInv, TakenInv,
       StartDefer, Calling, Goto
<1>17. ASSUME NEW s \in Starters, StartRecheck(s) PROVE RunInv'
  <2>1. UNCHANGED <<daemon, imp, hold.certDeferred, acme.refused>>
    BY <1>17 DEF StartRecheck, Started, TypeOK, HoldType, AcmeType
  <2>2. acme'.worker \/ acme'.call[s] = "open"
    <3>1. acme' = [acme EXCEPT !.call = Goto(s, "open")] \/ acme' = Started(s)
      BY <1>17 DEF StartRecheck
    <3>2. acme' = [acme EXCEPT !.call = Goto(s, "open")] => acme'.call[s] = "open"
      BY DEF Goto, TypeOK, AcmeType
    <3>3. acme' = Started(s) => acme'.worker
      BY DEF Started, TypeOK, AcmeType
    <3> QED BY <3>1, <3>2, <3>3
  <2> QED BY <2>1, <2>2 DEF RunInv
<1>18. ASSUME NEW s \in Starters, StartOpen(s) PROVE RunInv'
  BY <1>18 DEF TypeOK, AcmeType, Starters, HoldType, ImpType, RunInv, TakenInv,
       StartOpen, Calling, Goto, Started
<1>19. CASE StopClear
  BY <1>19 DEF TypeOK, AcmeType, Starters, HoldType, ImpType, RunInv, TakenInv,
       StopClear
<1>20. CASE ImportSample
  BY <1>20 DEF TypeOK, AcmeType, Starters, HoldType, ImpType, RunInv, TakenInv,
       ImportSample
<1>21. CASE BeginConfigImportHold
  BY <1>21 DEF TypeOK, AcmeType, Starters, HoldType, ImpType, RunInv, TakenInv,
       BeginConfigImportHold
<1>22. CASE ImportDrain
  BY <1>22 DEF TypeOK, AcmeType, Starters, HoldType, ImpType, RunInv, TakenInv,
       ImportDrain, StopQueues
<1>23. CASE ImportDrained
  BY <1>23 DEF TypeOK, AcmeType, Starters, HoldType, ImpType, RunInv, TakenInv,
       ImportDrained, Retire, Busy, Drained
<1>24. CASE ImportLock
  BY <1>24 DEF TypeOK, AcmeType, Starters, HoldType, ImpType, RunInv, TakenInv,
       ImportLock
<1>25. CASE ImportCommit
  BY <1>25 DEF TypeOK, AcmeType, Starters, HoldType, ImpType, RunInv, TakenInv,
       ImportCommit
<1>26. CASE EndConfigImportHold
  BY <1>26 DEF TypeOK, AcmeType, Starters, HoldType, ImpType, RunInv, TakenInv,
       EndConfigImportHold
<1>27. CASE ImportOpen
  BY <1>27 DEF TypeOK, AcmeType, Starters, HoldType, ImpType, RunInv, TakenInv,
       ImportOpen, BeginStart
<1>28. CASE ImportResume
  BY <1>28 DEF TypeOK, AcmeType, Starters, HoldType, ImpType, RunInv, TakenInv,
       ImportResume, Calling
<1>29. CASE ImportScan
  BY <1>29 DEF TypeOK, AcmeType, Starters, HoldType, ImpType, RunInv, TakenInv,
       ImportScan
<1>30. CASE ImportRequeue
  BY <1>30 DEF TypeOK, AcmeType, Starters, HoldType, ImpType, RunInv, TakenInv,
       ImportRequeue
<1> QED
  BY <1>1, LifeMoves, <1>2, <1>3, <1>4, <1>5, <1>6, <1>7, <1>8, <1>9, <1>10, <1>11,
       <1>12, <1>13, <1>14, <1>15, <1>16, <1>17, <1>18, <1>19, <1>20, <1>21, <1>22,
       <1>23, <1>24, <1>25, <1>26, <1>27, <1>28, <1>29, <1>30
  DEF LifecycleNext, ImportNext, life

LEMMA OwedStep ==
    ASSUME TypeOK, OpsInv, TakenInv, WorkerInv, OwedInv, [Next]_vars
    PROVE  OwedInv'
<1>1. ASSUME UNCHANGED <<active, hold, acme, imp>>, past'.closed = past.closed PROVE OwedInv'
  BY <1>1 DEF OwedInv, Owed
<1>2. CASE \/ Exit
           \/ DetachTimesOut
           \/ StopCompensation
           \/ StopBlocks
           \/ StopRetire
  BY <1>1, <1>2, LifeFrame
<1>3. CASE Launch
  BY <1>3 DEF TypeOK, HoldType, AcmeType, Starters, ImpType, PastType, OwedInv,
       Owed, OpsInv, WorkerInv, InStart, Restarting, TakenInv, Launch, manager
<1>4. CASE LaunchCheck
  BY <1>4 DEF TypeOK, HoldType, AcmeType, Starters, ImpType, PastType, OwedInv,
       Owed, OpsInv, WorkerInv, InStart, Restarting, TakenInv, LaunchCheck,
       BeginStart, manager
<1>5. CASE LaunchDefer
  BY <1>5 DEF TypeOK, HoldType, AcmeType, Starters, ImpType, PastType, OwedInv,
       Owed, OpsInv, WorkerInv, InStart, Restarting, TakenInv, LaunchDefer, manager
<1>6. CASE LaunchRecheck
  BY <1>6 DEF TypeOK, HoldType, AcmeType, Starters, ImpType, PastType, OwedInv,
       Owed, OpsInv, WorkerInv, InStart, Restarting, TakenInv, LaunchRecheck,
       BeginStart, manager
<1>7. CASE Undefer
  BY <1>7 DEF TypeOK, HoldType, AcmeType, Starters, ImpType, PastType, OwedInv,
       Owed, OpsInv, WorkerInv, InStart, Restarting, TakenInv, Undefer, manager
<1>8. CASE Detach
  <2>1. acme'.call = acme.call /\ (acme'.worker => acme.worker)
    BY <1>8 DEF TypeOK, AcmeType, Detach
  <2>2. UNCHANGED <<active, hold, imp, past>>
    BY <1>8 DEF Detach, manager
  <2> QED BY <2>1, <2>2 DEF OwedInv, Owed
<1>9. CASE StopWaited
  BY <1>9 DEF TypeOK, HoldType, AcmeType, Starters, ImpType, PastType, OwedInv,
       Owed, OpsInv, WorkerInv, InStart, Restarting, TakenInv, StopWaited, manager
<1>10. ASSUME NEW s \in Starters, StartOps(s) PROVE OwedInv'
  BY <1>10 DEF TypeOK, HoldType, AcmeType, Starters, ImpType, PastType, OwedInv,
       Owed, OpsInv, WorkerInv, InStart, Restarting, TakenInv, StartOps, Calling,
       Goto, manager
<1>11. ASSUME NEW s \in Starters, StartRefused(s) PROVE OwedInv'
  BY <1>11 DEF TypeOK, HoldType, AcmeType, Starters, ImpType, PastType, OwedInv,
       Owed, OpsInv, WorkerInv, InStart, Restarting, TakenInv, StartRefused,
       Calling, Goto, manager
<1>12. ASSUME NEW s \in Starters, StartWaited(s) PROVE OwedInv'
  BY <1>12 DEF TypeOK, HoldType, AcmeType, Starters, ImpType, PastType, OwedInv,
       Owed, OpsInv, WorkerInv, InStart, Restarting, TakenInv, StartWaited, Calling,
       Goto, manager
<1>13. ASSUME NEW s \in Starters, StartCheck(s) PROVE OwedInv'
  BY <1>13 DEF TypeOK, HoldType, AcmeType, Starters, ImpType, PastType, OwedInv,
       Owed, OpsInv, WorkerInv, InStart, Restarting, TakenInv, StartCheck, Calling,
       Goto, manager
<1>14. ASSUME NEW s \in Starters, StartDefer(s) PROVE OwedInv'
  BY <1>14 DEF TypeOK, HoldType, AcmeType, Starters, ImpType, PastType, OwedInv,
       Owed, OpsInv, WorkerInv, InStart, Restarting, TakenInv, StartDefer, Calling,
       Goto, manager
<1>15. ASSUME NEW s \in Starters, StartRecheck(s) PROVE OwedInv'
  BY <1>15 DEF TypeOK, HoldType, AcmeType, Starters, ImpType, PastType, OwedInv,
       Owed, OpsInv, WorkerInv, InStart, Restarting, TakenInv, StartRecheck,
       Calling, Goto, Started, manager
<1>16. ASSUME NEW s \in Starters, StartOpen(s) PROVE OwedInv'
  BY <1>16 DEF StartOpen, OwedInv, Owed
<1>17. CASE StopDrain
  BY <1>17 DEF TypeOK, HoldType, AcmeType, Starters, ImpType, PastType, OwedInv,
       Owed, OpsInv, WorkerInv, InStart, Restarting, TakenInv, StopDrain,
       StopQueues, manager
<1>18. CASE StopClear
  BY <1>18 DEF TypeOK, HoldType, AcmeType, Starters, ImpType, PastType, OwedInv,
       Owed, OpsInv, WorkerInv, InStart, Restarting, TakenInv, StopClear, manager
<1>19. CASE ImportSample
  BY <1>19 DEF TypeOK, HoldType, AcmeType, Starters, ImpType, PastType, OwedInv,
       Owed, OpsInv, WorkerInv, InStart, Restarting, TakenInv, ImportSample, manager
<1>20. CASE BeginConfigImportHold
  BY <1>20 DEF TypeOK, HoldType, AcmeType, Starters, ImpType, PastType, OwedInv,
       Owed, OpsInv, WorkerInv, InStart, Restarting, TakenInv,
       BeginConfigImportHold, manager
<1>21. CASE ImportDrain
  BY <1>21 DEF TypeOK, HoldType, AcmeType, Starters, ImpType, PastType, OwedInv,
       Owed, OpsInv, WorkerInv, InStart, Restarting, TakenInv, ImportDrain,
       StopQueues, manager
<1>22. CASE ImportDrained
  BY <1>22 DEF TypeOK, HoldType, AcmeType, Starters, ImpType, PastType, OwedInv,
       Owed, OpsInv, WorkerInv, InStart, Restarting, TakenInv, ImportDrained,
       Retire, Busy, Drained, manager
<1>23. CASE ImportLock
  BY <1>23 DEF TypeOK, HoldType, AcmeType, Starters, ImpType, PastType, OwedInv,
       Owed, OpsInv, WorkerInv, InStart, Restarting, TakenInv, ImportLock, manager
<1>24. CASE ImportCommit
  BY <1>24 DEF TypeOK, HoldType, AcmeType, Starters, ImpType, PastType, OwedInv,
       Owed, OpsInv, WorkerInv, InStart, Restarting, TakenInv, ImportCommit, manager
<1>25. CASE EndConfigImportHold
  BY <1>25 DEF TypeOK, HoldType, AcmeType, Starters, ImpType, PastType, OwedInv,
       Owed, OpsInv, WorkerInv, InStart, Restarting, TakenInv, EndConfigImportHold,
       manager
<1>26. CASE ImportOpen
  BY <1>26 DEF TypeOK, HoldType, AcmeType, Starters, ImpType, PastType, OwedInv,
       Owed, OpsInv, WorkerInv, InStart, Restarting, TakenInv, ImportOpen,
       BeginStart, manager
<1>27. CASE ImportResume
  BY <1>27 DEF TypeOK, HoldType, AcmeType, Starters, ImpType, PastType, OwedInv,
       Owed, OpsInv, WorkerInv, InStart, Restarting, TakenInv, ImportResume,
       Calling, manager
<1>28. CASE ImportScan
  BY <1>28 DEF TypeOK, HoldType, AcmeType, Starters, ImpType, PastType, OwedInv,
       Owed, OpsInv, WorkerInv, InStart, Restarting, TakenInv, ImportScan, manager
<1>29. CASE ImportRequeue
  BY <1>29 DEF TypeOK, HoldType, AcmeType, Starters, ImpType, PastType, OwedInv,
       Owed, OpsInv, WorkerInv, InStart, Restarting, TakenInv, ImportRequeue,
       manager
<1> QED
  BY <1>1, LifeMoves, <1>2, <1>3, <1>4, <1>5, <1>6, <1>7, <1>8, <1>9, <1>10, <1>11,
       <1>12, <1>13, <1>14, <1>15, <1>16, <1>17, <1>18, <1>19, <1>20, <1>21, <1>22,
       <1>23, <1>24, <1>25, <1>26, <1>27, <1>28, <1>29
  DEF LifecycleNext, ImportNext, life
LEMMA PassingMoves ==
    ASSUME TypeOK, NEW c \in Changers, rule' = Passing(c)
    PROVE  /\ rule'[c].pc = "release" /\ rule'[c].job = rule[c].job
           /\ rule'[c].passed = rule[c].passed
           /\ \A d \in Changers \ {c} :
                  /\ rule'[d].pc = rule[d].pc /\ rule'[d].job = rule[d].job
                  /\ rule'[d].waits = rule[d].waits
                  /\ rule'[d].passed =
                        (rule[d].passed \/ (rule[d].job = rule[c].job /\ Draining(d)))
<1>1. \A d \in Changers : rule[d] \in RuleType
  BY DEF TypeOK
<1>2. rule'[c] = [rule[c] EXCEPT !.pc = "release"]
  BY DEF Passing
<1>3. ASSUME NEW d \in Changers \ {c}
      PROVE  rule'[d] = [rule[d] EXCEPT !.passed =
                             @ \/ (rule[d].job = rule[c].job /\ Draining(d))]
  BY DEF Passing
<1>4. ASSUME NEW d \in Changers \ {c}
      PROVE  /\ rule'[d].pc = rule[d].pc /\ rule'[d].job = rule[d].job
             /\ rule'[d].waits = rule[d].waits
             /\ rule'[d].passed =
                   (rule[d].passed \/ (rule[d].job = rule[c].job /\ Draining(d)))
  BY <1>1, <1>3 DEF RuleType
<1> QED BY <1>1, <1>2, <1>4 DEF RuleType

\* Only a request's own steps move it, apart from what a stop, or a compensation
\* of the same rule, notes about it.
LEMMA RuleFrame ==
    ASSUME [Next]_vars
    PROVE  UNCHANGED <<rule, blocked>> \/ StopCompensation \/ StopBlocks \/ RuleNext
<1>1. CASE EnqueueNext
  <2>1. ASSUME NEW e \in Enqueuers, NEW j \in Jobs, Enqueue(e, j)
        PROVE  UNCHANGED <<rule, blocked>>
    BY <2>1 DEF Enqueue, manager
  <2>2. ASSUME NEW e \in Enqueuers,
               \/ Reserve(e) \/ Transition(e) \/ ResolveFails(e)
               \/ EnqueueAdmitted(e) \/ Release(e)
        PROVE  UNCHANGED <<rule, blocked>>
    BY <2>2 DEF Reserve, Transition, ResolveFails, EnqueueAdmitted, Release, manager
  <2> QED BY <1>1, <2>1, <2>2 DEF EnqueueNext
<1>2. CASE ExecutionNext
  <2>1. ASSUME NEW q \in Queues, NEW j \in Jobs,
               \/ Dispatch(q, j) \/ Progress(q, j) \/ Deployed(q, j)
               \/ DeployFails(q, j) \/ Fails(q, j) \/ Cancelled(q, j) \/ Leave(q, j)
        PROVE  UNCHANGED <<rule, blocked>>
    BY <2>1 DEF Dispatch, Progress, Deployed, DeployFails, Fails, Cancelled, Leave,
         procs, manager
  <2>2. ASSUME NEW q \in Queues, DispatchUnavailable(q) PROVE UNCHANGED <<rule, blocked>>
    BY <2>2 DEF DispatchUnavailable
  <2>3. ASSUME NEW j \in Jobs, FailPending(j) \/ ReleaseZombieJob(j)
        PROVE  UNCHANGED <<rule, blocked>>
    BY <2>3 DEF FailPending, ReleaseZombieJob, procs
  <2> QED BY <1>2, <2>1, <2>2, <2>3 DEF ExecutionNext
<1>3. CASE LifecycleNext
  <2>1. CASE Launch \/ LaunchCheck \/ LaunchDefer \/ LaunchRecheck
    BY <2>1 DEF Launch, LaunchCheck, LaunchDefer, LaunchRecheck, manager
  <2>2. CASE Exit \/ Undefer \/ Detach \/ DetachTimesOut \/ StopWaited
    BY <2>2 DEF Exit, Undefer, Detach, DetachTimesOut, StopWaited, manager
  <2>3. ASSUME NEW s \in Starters,
               \/ StartOps(s) \/ StartRefused(s) \/ StartWaited(s) \/ StartCheck(s)
        PROVE  UNCHANGED <<rule, blocked>>
    BY <2>3 DEF StartOps, StartRefused, StartWaited, StartCheck, manager
  <2>4. ASSUME NEW s \in Starters, StartDefer(s) \/ StartRecheck(s) \/ StartOpen(s)
        PROVE  UNCHANGED <<rule, blocked>>
    BY <2>4 DEF StartDefer, StartRecheck, StartOpen, manager
  <2>5. CASE StopDrain \/ StopRetire \/ StopClear
    BY <2>5 DEF StopDrain, StopRetire, StopClear, manager
  <2> QED BY <1>3, <2>1, <2>2, <2>3, <2>4, <2>5 DEF LifecycleNext
<1>4. CASE ImportNext
  <2>1. CASE ImportSample \/ BeginConfigImportHold \/ ImportDrain \/ ImportDrained
    BY <2>1 DEF ImportSample, BeginConfigImportHold, ImportDrain, ImportDrained, manager
  <2>2. CASE ImportLock \/ ImportCommit \/ EndConfigImportHold \/ ImportOpen
    BY <2>2 DEF ImportLock, ImportCommit, EndConfigImportHold, ImportOpen, manager
  <2>3. CASE ImportResume \/ ImportScan \/ ImportRequeue
    BY <2>3 DEF ImportResume, ImportScan, ImportRequeue, manager
  <2> QED BY <1>4, <2>1, <2>2, <2>3 DEF ImportNext
<1>5. CASE UNCHANGED vars
  BY <1>5 DEF vars, procs, manager
<1> QED BY <1>1, <1>2, <1>3, <1>4, <1>5 DEF Next

\* What a stop does to the requests.
LEMMA StopMoves ==
    ASSUME TypeOK, StopCompensation \/ StopBlocks, NEW c \in Changers
    PROVE  \/ rule'[c] = NoChange
           \/ /\ rule'[c].pc = rule[c].pc /\ rule'[c].job = rule[c].job
              /\ rule'[c].waits = rule[c].waits
              /\ StopCompensation => rule'[c].passed = rule[c].passed
              /\ StopBlocks => rule'[c].passed = (rule[c].passed \/ Draining(c))
<1>1. rule[c] \in RuleType
  BY DEF TypeOK
<1>2. CASE StopCompensation
  <2>1. rule'[c] = [rule[c] EXCEPT !.doomed = @ \/ Compensating(c)]
    BY <1>2 DEF StopCompensation
  <2>2. ~StopBlocks
    BY <1>2 DEF StopCompensation, StopBlocks
  <2> QED BY <1>1, <2>1, <2>2 DEF RuleType
<1>3. CASE StopBlocks
  <2>1. \/ rule'[c] = NoChange
        \/ rule'[c] = [rule[c] EXCEPT !.passed = @ \/ Draining(c)]
    BY <1>3 DEF StopBlocks
  <2>2. ~StopCompensation
    BY <1>3 DEF StopCompensation, StopBlocks
  <2> QED BY <1>1, <2>1, <2>2 DEF RuleType
<1> QED BY <1>2, <1>3

\* The steps of a request, by the place it goes to.
LEMMA RequestMoves ==
    ASSUME TypeOK, NEW c \in Changers
    PROVE  /\ RuleDisabled(c) => Moves(c, {"block"}) /\ rule[c].pc = "disable"
           /\ RuleWaited(c) => Moves(c, {"drain", "delete"}) /\ rule[c].pc = "wait"
           /\ RuleDeleted(c) => Moves(c, {}) /\ rule[c].pc = "delete"
           /\ RuleDeleteFails(c) => Moves(c, {"drain"}) /\ rule[c].pc = "delete"
           /\ CompensationWaited(c) => Moves(c, {"requeue"}) /\ rule[c].pc = "drainWait"
           /\ CompensationFails(c) =>
                 /\ Moves(c, {"drain", "abandoned"})
                 /\ rule[c].pc \in {"drainWait", "requeue"}
           /\ CompensationRequeue(c) => Moves(c, {"inFlight"}) /\ rule[c].pc = "requeue"
           /\ CompensationInFlight(c) => Moves(c, {"reserve"}) /\ rule[c].pc = "inFlight"
           /\ CompensationReserve(c) =>
                 /\ Moves(c, {"drain", "abandoned", "enqueue"})
                 /\ rule[c].pc = "reserve"
           /\ CompensationRelease(c) =>
                 /\ Moves(c, {"drain", "abandoned"})
                 /\ rule[c].pc \in {"release", "again"}
           /\ CompensationEnqueue(c) =>
                 /\ rule' = Passing(c) \/ Moves(c, {"again", "release"})
                 /\ rule[c].pc = "enqueue"
<1>1. RuleDisabled(c) => Moves(c, {"block"})
  <2>1. ASSUME rule' = [rule EXCEPT ![c] = NoChange], UNCHANGED blocked
        PROVE  Moves(c, {})
    BY <2>1 DEF Moves, Alone, NoChange, TypeOK
  <2> QED BY <2>1, StepIsMove DEF RuleDisabled, RulePcs, Moves, manager
<1>2. RuleWaited(c) => Moves(c, {"drain", "delete"})
  BY UnblockIsMove, StepIsMove, CompensateMoves DEF RuleWaited, RulePcs, Moves
<1>3. RuleDeleted(c) => Moves(c, {})
  BY UnblockIsMove DEF RuleDeleted
<1>4. RuleDeleteFails(c) => Moves(c, {"drain"})
  BY CompensateMoves DEF RuleDeleteFails
<1>5. CompensationWaited(c) => Moves(c, {"requeue"})
  BY StepIsMove DEF CompensationWaited, RulePcs, manager
<1>6. CompensationFails(c) => Moves(c, {"drain", "abandoned"})
  BY RetryMoves DEF CompensationFails
<1>7. CompensationRequeue(c) => Moves(c, {"inFlight"})
  BY StepIsMove, UnblockIsMove DEF CompensationRequeue, RulePcs
<1>8. CompensationInFlight(c) => Moves(c, {"reserve"})
  BY StepIsMove, UnblockIsMove DEF CompensationInFlight, RulePcs
<1>9. CompensationReserve(c) => Moves(c, {"drain", "abandoned", "enqueue"})
  BY StepIsMove, UnblockIsMove, RetryMoves DEF CompensationReserve, RulePcs, Moves
<1>10. CompensationRelease(c) => Moves(c, {"drain", "abandoned"})
  BY UnblockIsMove, RetryMoves DEF CompensationRelease
<1>11. CompensationEnqueue(c) => rule' = Passing(c) \/ Moves(c, {"again", "release"})
  BY StepIsMove DEF CompensationEnqueue, RulePcs, Moves
<1> QED
  BY <1>1, <1>2, <1>3, <1>4, <1>5, <1>6, <1>7, <1>8, <1>9, <1>10, <1>11
  DEF RuleDisabled, RuleWaited, RuleDeleted, RuleDeleteFails, CompensationWaited,
      CompensationFails, CompensationRequeue, CompensationInFlight,
      CompensationReserve, CompensationRelease, CompensationEnqueue

\* The first three steps of a request.
LEMMA BeginMoves ==
    ASSUME TypeOK, NEW c \in Changers
    PROVE  /\ \A j \in Jobs : DisableRule(c, j) \/ DeleteRule(c, j) =>
                 /\ Alone(c) /\ UNCHANGED blocked /\ rule[c].pc = "idle"
                 /\ rule'[c].pc \in {"disable", "block"} /\ rule'[c].job = j
           /\ BlockJobsForRule(c) =>
                 /\ Alone(c) /\ blocked' = blocked \cup {c} /\ rule[c].pc = "block"
                 /\ rule'[c].pc = "cancel" /\ rule'[c].job = rule[c].job
                 /\ rule'[c].passed = rule[c].passed
           /\ CancelJobsForRule(c) =>
                 /\ Alone(c) /\ UNCHANGED blocked
                 /\ rule[c].pc \in {"cancel", "drain"}
                 /\ rule'[c].pc = IF rule[c].pc = "cancel" THEN "wait" ELSE "drainWait"
                 /\ rule'[c].job = rule[c].job /\ rule'[c].waits = Awaited(rule[c].job)
                 /\ rule'[c].passed = (rule[c].passed \/ rule[c].job \in Unseen)
<1>1. rule \in [Changers -> RuleType] /\ rule[c] \in RuleType
  BY DEF TypeOK
<1>2. ASSUME NEW j \in Jobs, DisableRule(c, j) \/ DeleteRule(c, j)
      PROVE  /\ Alone(c) /\ UNCHANGED blocked /\ rule[c].pc = "idle"
             /\ rule'[c].pc \in {"disable", "block"} /\ rule'[c].job = j
  BY <1>1, <1>2 DEF DisableRule, DeleteRule, Alone, NoChange, manager
<1>3. ASSUME BlockJobsForRule(c)
      PROVE  /\ Alone(c) /\ blocked' = blocked \cup {c} /\ rule[c].pc = "block"
             /\ rule'[c].pc = "cancel" /\ rule'[c].job = rule[c].job
             /\ rule'[c].passed = rule[c].passed
  BY <1>3, StepMoves DEF BlockJobsForRule
<1>4. ASSUME CancelJobsForRule(c)
      PROVE  /\ Alone(c) /\ UNCHANGED blocked
             /\ rule[c].pc \in {"cancel", "drain"}
             /\ rule'[c].pc = IF rule[c].pc = "cancel" THEN "wait" ELSE "drainWait"
             /\ rule'[c].job = rule[c].job /\ rule'[c].waits = Awaited(rule[c].job)
             /\ rule'[c].passed = (rule[c].passed \/ rule[c].job \in Unseen)
  <2> DEFINE pc == IF rule[c].pc = "cancel" THEN "wait" ELSE "drainWait"
             ps == rule[c].passed \/ rule[c].job \in Unseen
             ws == Awaited(rule[c].job)
             new == [rule[c] EXCEPT !.pc = pc, !.waits = ws, !.passed = ps]
  <2>1. rule' = [rule EXCEPT ![c] = new]
    BY <1>4 DEF CancelJobsForRule
  <2> HIDE DEF pc, ps, ws
  <2>2. new.pc = pc /\ new.job = rule[c].job /\ new.waits = ws /\ new.passed = ps
    BY <1>1 DEF RuleType
  <2> HIDE DEF new
  <2>3. rule'[c] = new /\ Alone(c)
    BY <1>1, <2>1 DEF Alone
  <2> QED BY <1>4, <2>2, <2>3 DEF CancelJobsForRule, pc, ps, ws
<1> QED BY <1>2, <1>3, <1>4

LEMMA JobStep ==
    ASSUME TypeOK, JobInv, [Next]_vars PROVE JobInv'
<1>1. CASE UNCHANGED <<rule, blocked>>
  BY <1>1 DEF JobInv
<1>2. CASE StopCompensation \/ StopBlocks
  BY <1>2, StopMoves DEF JobInv, NoChange
<1>3. ASSUME NEW c \in Changers, NEW places, Moves(c, places), rule[c].pc # "idle"
      PROVE  JobInv'
  BY <1>3 DEF JobInv, Moves, Alone
<1>4. ASSUME NEW c \in Changers, RuleNext PROVE JobInv'
  BY <1>3, <1>4, RequestMoves, BeginMoves, PassingMoves DEF RuleNext, JobInv, Alone
<1> QED BY <1>1, <1>2, <1>4, RuleFrame DEF RuleNext

LEMMA InitLife == Init => LifeInv
<1> SUFFICES ASSUME Init PROVE LifeInv
  OBVIOUS
<1>1. TypeOK
  <2>1. hold \in HoldType /\ stop \in StopType /\ imp \in ImpType
    BY DEF Init, HoldType, StopType, ImpType
  <2>2. acme \in AcmeType /\ past \in PastType
    BY DEF Init, AcmeType, PastType
  <2>3. rule \in [Changers -> RuleType] /\ used \in UsedType
    BY QueueAssumption, IdleTyped DEF Init, UsedType
  <2>4. enq \in [Enqueuers -> CallType]
    BY IdleTyped DEF Init
  <2>5. row \in [Jobs -> Status] /\ stage \in [Queues -> [Jobs -> Stages]]
    BY DEF Init, Status, Stages
  <2> QED BY <2>1, <2>2, <2>3, <2>4, <2>5 DEF TypeOK, Init
<1>2. HoldInv /\ OpsInv /\ JobInv
  BY DEF Init, HoldInv, Holding, OpsInv, Starters, InStart, JobInv, NoChange
<1>3. IntentInv /\ TakenInv /\ RunInv /\ WorkerInv /\ OwedInv
  BY DEF Init, IntentInv, TakenInv, RunInv, WorkerInv, OwedInv, Starters
<1> QED BY <1>1, <1>2, <1>3 DEF LifeInv

LEMMA LifeStep == LifeInv /\ [Next]_vars => LifeInv'
<1> SUFFICES ASSUME LifeInv, [Next]_vars PROVE LifeInv'
  OBVIOUS
<1>0. /\ TypeOK /\ HoldInv /\ OpsInv /\ JobInv /\ IntentInv /\ TakenInv /\ RunInv
      /\ WorkerInv /\ OwedInv
  BY DEF LifeInv
<1>1. TypeOK'    BY <1>0, TypeOKStep
<1>2. HoldInv'   BY <1>0, HoldStep
<1>3. OpsInv'    BY <1>0, OpsStep
<1>4. JobInv'    BY <1>0, JobStep
<1>5. IntentInv' BY <1>0, IntentStep
<1>6. TakenInv'  BY <1>0, TakenStep
<1>7. RunInv'    BY <1>0, RunStep
<1>8. WorkerInv' BY <1>0, WorkerStep
<1>9. OwedInv'   BY <1>0, OwedStep
<1> QED BY <1>1, <1>2, <1>3, <1>4, <1>5, <1>6, <1>7, <1>8, <1>9 DEF LifeInv

\* Types, the hold, the start/stop mutex, and that a deferred start or a queue
\* that has to be opened again is always in somebody's hands.
THEOREM LifecycleInvariant == Spec => []LifeInv
BY InitLife, LifeStep, PTL DEF Spec

\* Every variable of the queue manager and of its users keeps its type; the
\* holds of imports never add up.
THEOREM QueueTypeCorrect == Spec => []TypeOK
<1>1. LifeInv => TypeOK
  BY DEF LifeInv
<1> QED BY <1>1, LifecycleInvariant, PTL

\* No start deferred to the end of an import is left behind, whatever overlaps:
\* the import's end takes both intents, a start that missed the end looks again,
\* a stop voids them.
THEOREM IntentsAreKept == Spec => []IntentKept
<1>1. LifeInv => IntentKept
  <2> SUFFICES ASSUME LifeInv, Quiet PROVE ~hold.pendingStart /\ ~hold.certDeferred
    BY DEF IntentKept
  <2>1. hold.depth = 0
    BY DEF LifeInv, HoldInv, Holding, Quiet
  <2>2. (\A s \in Starters : acme.call[s] # "recheck") /\ daemon # "recheck"
    BY DEF Quiet, LifecycleSettled
  <2> QED BY <2>1, <2>2 DEF LifeInv, IntentInv
<1> QED BY <1>1, LifecycleInvariant, PTL

\* Once everything has settled, a Run of cert-issuance that was not refused has a
\* worker, and its queue is open, also when the start fell into an import or an
\* import closed the queue after it: who closes the queue owes its opening to
\* somebody until it is open.  The exception is the one StartedIsOpen states, an
\* import that closed what it had found closed.
THEOREM StartedRunsAreOpen == Spec => []StartedIsOpen
<1>1. LifeInv /\ IntentKept => StartedIsOpen
  <2> SUFFICES ASSUME LifeInv, IntentKept, Quiet, daemon = "pump", ~acme.refused
               PROVE  acme.worker /\ (active \/ past.closed)
    BY DEF StartedIsOpen
  <2>1. acme.worker
    <3>1. ~hold.certDeferred /\ ~imp.cert
      BY DEF IntentKept, LifeInv, TakenInv, Quiet
    <3>2. \A s \in Starters : acme.call[s] = "idle"
      BY DEF Quiet, LifecycleSettled
    <3> QED BY <3>1, <3>2 DEF LifeInv, RunInv
  <2>2. Owed
    BY <2>1 DEF LifeInv, OwedInv
  <2>3. ~hold.pendingStart /\ ~imp.pending /\ imp.pc \notin Restarting
    BY DEF IntentKept, LifeInv, TakenInv, Quiet, Restarting
  <2> QED BY <2>1, <2>2, <2>3 DEF Owed
<1> QED BY <1>1, LifecycleInvariant, IntentsAreKept, PTL

-----------------------------------------------------------------------------
(***************************************************************************)
(* How a step changes the places of items and executions.                  *)
(***************************************************************************)

\* Nothing is enqueued.
Shrinks ==
    \A q \in Queues, j \in Jobs :
        /\ stage'[q][j] # "none" => stage[q][j] # "none"
        /\ stage'[q][j] = "pending" => stage[q][j] = "pending"

Steady ==
    /\ Shrinks /\ UNCHANGED <<queueOf, retired, zombies>>
    /\ stop'.waits = stop.waits /\ imp'.waits = imp.waits

Pruning ==
    /\ \E id \in Jobs \cup {NewJob}, aged \in Aged : PruneRetired(id, aged)
    /\ UNCHANGED <<stage, queueOf, stop, imp>>

CallEnqueues ==
    \E e \in Enqueuers, p \in Providers :
        /\ EnqueueAdmitted(e) /\ EnqueueAdmissible(enq[e].job)
        /\ EnqueueResolved(enq[e].job, p)

CompensationEnqueues ==
    \E c \in Changers, p \in Providers :
        /\ CompensationEnqueue(c) /\ active
        /\ EnqueueResolved(rule[c].job, p) /\ rule' = Passing(c)

LEMMA SetShrinks ==
    ASSUME TypeOK, NEW q \in Queues, NEW j \in Jobs, NEW s,
           stage[q][j] # "none", s # "pending",
           stage' = [stage EXCEPT ![q] = [stage[q] EXCEPT ![j] = s]]
    PROVE  Shrinks
BY DEF Shrinks, TypeOK

LEMMA StopQueuesShrinks ==
    ASSUME TypeOK, StopQueues
    PROVE  /\ Shrinks
           /\ \A q \in Queues, j \in Jobs :
                  /\ q \in Mapped => stage'[q][j] # "pending"
                  /\ stage'[q][j] = "running" <=> stage[q][j] = "running"
BY DEF StopQueues, Shrinks

LEMMA ExecutionShrinks ==
    ASSUME TypeOK, NEW q \in Queues, NEW j \in Jobs,
           \/ Dispatch(q, j) \/ Progress(q, j) \/ Deployed(q, j)
           \/ DeployFails(q, j) \/ Fails(q, j) \/ Cancelled(q, j) \/ Leave(q, j)
    PROVE  Steady
<1>1. Shrinks
  <2>1. CASE Progress(q, j)
    BY <2>1 DEF Progress, manager, Shrinks
  <2>2. CASE \/ Deployed(q, j) \/ DeployFails(q, j) \/ Fails(q, j) \/ Cancelled(q, j)
    BY <2>2, SetShrinks DEF Deployed, DeployFails, Fails, Cancelled, Leaves
  <2>3. CASE Dispatch(q, j)
    BY <2>3, SetShrinks DEF Dispatch
  <2>4. CASE Leave(q, j)
    BY <2>4, SetShrinks DEF Leave
  <2> QED BY <2>1, <2>2, <2>3, <2>4
<1> QED
  BY <1>1 DEF Dispatch, Progress, Deployed, DeployFails, Fails, Cancelled, Leave,
              Steady, procs, manager

LEMMA UnavailableShrinks ==
    ASSUME TypeOK, NEW q \in Queues, DispatchUnavailable(q)
    PROVE  Steady
BY DEF DispatchUnavailable, Steady, Shrinks, TypeOK

LEMMA CancelShrinks ==
    ASSUME TypeOK, NEW c \in Changers, CancelJobsForRule(c), rule[c].job \in Jobs
    PROVE  /\ Steady
           /\ \A q \in Queues, j \in Jobs :
                  stage'[q][j] = "running" <=> stage[q][j] = "running"
           /\ \A q \in Mapped : stage'[q][rule[c].job] # "pending"
<1>1. Mapped \subseteq Queues
  BY MappedTyped
<1> DEFINE k == rule[c].job
<1>2. stage' = [q \in Queues |-> IF q \in Mapped /\ stage[q][k] = "pending"
                                 THEN [stage[q] EXCEPT ![k] = "none"] ELSE stage[q]]
  BY DEF CancelJobsForRule, CollectCancellation
<1>3. ASSUME NEW q \in Queues, NEW j \in Jobs
      PROVE  stage'[q][j] = IF q \in Mapped /\ stage[q][k] = "pending" /\ j = k
                            THEN "none" ELSE stage[q][j]
  BY <1>2 DEF TypeOK
<1>4. Shrinks
  BY <1>3 DEF Shrinks
<1>5. Steady
  BY <1>4 DEF Steady, CancelJobsForRule
<1> QED BY <1>1, <1>3, <1>5

LEMMA MapMoves ==
    ASSUME TypeOK, JobInv, CallInv, [Next]_vars
    PROVE  \/ Steady \/ Pruning \/ \E j \in Jobs : ReleaseZombieJob(j)
           \/ CallEnqueues \/ CompensationEnqueues
           \/ StopDrain \/ ImportDrain \/ StopRetire \/ ImportDrained
<1>0. ASSUME UNCHANGED <<stage, queueOf, retired, zombies, stop, imp>> PROVE Steady
  BY <1>0 DEF Steady, Shrinks
<1>1. CASE EnqueueNext
  <2>1. ASSUME NEW e \in Enqueuers, NEW j \in Jobs, Enqueue(e, j) PROVE Steady
    BY <1>0, <2>1 DEF Enqueue, manager
  <2>2. ASSUME NEW e \in Enqueuers, Transition(e) \/ ResolveFails(e) \/ Release(e)
        PROVE  Steady
    BY <1>0, <2>2 DEF Transition, ResolveFails, Release, manager
  <2>3. ASSUME NEW e \in Enqueuers, Reserve(e) PROVE Pruning
    <3>1. Guarded(e) \in Jobs \cup {NewJob}
      BY DEF Guarded, TypeOK, CallType
    <3> QED BY <2>3, <3>1 DEF Reserve, Pruning
  <2>4. ASSUME NEW e \in Enqueuers, EnqueueAdmitted(e) PROVE Steady \/ CallEnqueues
    BY <1>0, <2>4 DEF EnqueueAdmitted, CallEnqueues
  <2> QED BY <1>1, <2>1, <2>2, <2>3, <2>4 DEF EnqueueNext
<1>2. CASE ExecutionNext
  <2>1. ASSUME NEW j \in Jobs, FailPending(j) PROVE Pruning
    BY <2>1 DEF FailPending, Pruning
  <2> QED BY <1>2, <2>1, ExecutionShrinks, UnavailableShrinks DEF ExecutionNext
<1>3. CASE LifecycleNext
  <2>1. CASE Launch \/ LaunchCheck \/ LaunchDefer \/ LaunchRecheck
    BY <1>0, <2>1 DEF Launch, LaunchCheck, LaunchDefer, LaunchRecheck, manager
  <2>2. CASE Exit \/ Undefer \/ DetachTimesOut \/ StopWaited
    BY <1>0, <2>2 DEF Exit, Undefer, DetachTimesOut, StopWaited, manager
  <2>3. CASE Detach
    <3>1. UNCHANGED <<stage, queueOf, retired, zombies, imp>>
      BY <2>3 DEF Detach, manager
    <3>2. stop'.waits = stop.waits
      BY <2>3 DEF Detach, TypeOK, StopType
    <3> QED BY <3>1, <3>2 DEF Steady, Shrinks
  <2>4. ASSUME NEW s \in Starters,
               \/ StartOps(s) \/ StartRefused(s) \/ StartWaited(s) \/ StartCheck(s)
               \/ StartDefer(s) \/ StartRecheck(s)
        PROVE  Steady
    BY <1>0, <2>4 DEF StartOps, StartRefused, StartWaited, StartCheck, StartDefer,
         StartRecheck, manager
  <2>5. ASSUME NEW s \in Starters, StartOpen(s) PROVE Steady
    BY <2>5, OpenFrame DEF StartOpen, Steady, Shrinks
  <2>6. CASE StopCompensation \/ StopBlocks \/ StopClear
    <3>1. UNCHANGED <<stage, queueOf, retired, zombies, imp>>
      BY <2>6 DEF StopCompensation, StopBlocks, StopClear, manager
    <3>2. stop'.waits = stop.waits
      BY <2>6 DEF StopCompensation, StopBlocks, StopClear, TypeOK, StopType
    <3> QED BY <3>1, <3>2 DEF Steady, Shrinks
  <2> QED BY <1>3, <2>1, <2>2, <2>3, <2>4, <2>5, <2>6 DEF LifecycleNext
<1>4. CASE ImportNext
  <2>1. ASSUME UNCHANGED <<stage, queueOf, retired, zombies, stop>>,
               imp'.waits = imp.waits
        PROVE  Steady
    BY <2>1 DEF Steady, Shrinks
  <2>2. CASE ImportSample \/ BeginConfigImportHold \/ ImportLock \/ ImportCommit
    BY <2>1, <2>2 DEF ImportSample, BeginConfigImportHold, ImportLock, ImportCommit,
         manager, TypeOK, ImpType
  <2>3. CASE EndConfigImportHold
    BY <2>1, <2>3 DEF EndConfigImportHold, manager, TypeOK, ImpType
  <2>4. CASE ImportOpen
    BY <2>1, <2>4 DEF ImportOpen, TypeOK, ImpType
  <2>5. CASE ImportResume
    BY <2>1, <2>5 DEF ImportResume, TypeOK, ImpType
  <2>6. CASE ImportScan
    BY <2>1, <2>6 DEF ImportScan, manager, TypeOK, ImpType
  <2>7. CASE ImportRequeue
    BY <2>1, <2>7 DEF ImportRequeue, manager, TypeOK, ImpType
  <2> QED BY <1>4, <2>2, <2>3, <2>4, <2>5, <2>6, <2>7 DEF ImportNext
<1>5. ASSUME NEW c \in Changers, NEW j \in Jobs, DisableRule(c, j) \/ DeleteRule(c, j)
      PROVE  Steady
  BY <1>0, <1>5 DEF DisableRule, DeleteRule, manager
<1>6. ASSUME NEW c \in Changers,
             \/ RuleDisabled(c) \/ BlockJobsForRule(c) \/ RuleWaited(c)
             \/ RuleDeleted(c) \/ RuleDeleteFails(c) \/ CompensationWaited(c)
             \/ CompensationFails(c) \/ CompensationRequeue(c)
             \/ CompensationReserve(c) \/ CompensationRelease(c)
      PROVE  Steady
  BY <1>0, <1>6 DEF RuleDisabled, BlockJobsForRule, RuleWaited, RuleDeleted,
       RuleDeleteFails, CompensationWaited, CompensationFails, CompensationRequeue,
       CompensationReserve, CompensationRelease, manager
<1>7. ASSUME NEW c \in Changers, CancelJobsForRule(c) PROVE Steady
  BY <1>7, CancelShrinks DEF CancelJobsForRule, JobInv
<1>8. ASSUME NEW c \in Changers, CompensationInFlight(c) PROVE Pruning
  BY <1>8 DEF CompensationInFlight, Pruning, JobInv
<1>9. ASSUME NEW c \in Changers, CompensationEnqueue(c)
      PROVE  Steady \/ CompensationEnqueues
  BY <1>0, <1>9 DEF CompensationEnqueue, CompensationEnqueues
<1>10. CASE UNCHANGED vars
  BY <1>0, <1>10 DEF vars, manager, procs
<1> QED
  BY <1>1, <1>2, <1>3, <1>4, <1>5, <1>6, <1>7, <1>8, <1>9, <1>10 DEF Next, RuleNext

\* Once overlooked, a job stays so.
LEMMA MissedGrows ==
    ASSUME TypeOK, [Next]_vars PROVE past.missed \subseteq past'.missed
<1>1. UNCHANGED past => past.missed \subseteq past'.missed
  OBVIOUS
<1>2. ASSUME NEW e \in Enqueuers, Reserve(e) PROVE past.missed \subseteq past'.missed
  BY <1>2 DEF Reserve, Overlook, TypeOK, PastType
<1>3. ASSUME NEW c \in Changers, CompensationReserve(c)
      PROVE  past.missed \subseteq past'.missed
  BY <1>3 DEF CompensationReserve, Overlook, TypeOK, PastType
<1>4. ASSUME NEW s \in Starters, StartOpen(s) PROVE past.missed \subseteq past'.missed
  BY <1>4 DEF StartOpen, TypeOK, PastType
<1>5. CASE ImportDrain
  BY <1>5 DEF ImportDrain
<1>6. CASE ImportOpen \/ ImportResume
  BY <1>6 DEF ImportOpen, ImportResume, TypeOK, PastType
<1>7. CASE UNCHANGED vars
  BY <1>7 DEF vars
<1>8. CASE LifecycleNext
  BY <1>1, <1>4, <1>8, LifeFrame DEF LifecycleNext
<1>9. CASE ImportNext
  BY <1>1, <1>5, <1>6, <1>9, LifeFrame DEF ImportNext
<1>10. CASE EnqueueNext
  BY <1>2, <1>10 DEF EnqueueNext, Enqueue, Transition, ResolveFails, EnqueueAdmitted,
       Release
<1>11. CASE ExecutionNext
  BY <1>11 DEF ExecutionNext, Dispatch, Progress, Deployed, DeployFails, Fails,
       Cancelled, Leave, DispatchUnavailable, FailPending, ReleaseZombieJob
<1>12. CASE RuleNext
  BY <1>3, <1>12 DEF RuleNext, DisableRule, DeleteRule, RuleDisabled, BlockJobsForRule,
       CancelJobsForRule, RuleWaited, RuleDeleted, RuleDeleteFails, CompensationWaited,
       CompensationFails, CompensationRequeue, CompensationInFlight,
       CompensationEnqueue, CompensationRelease
<1> QED BY <1>7, <1>8, <1>9, <1>10, <1>11, <1>12 DEF Next

\* What enqueueing j changes.
LEMMA ResolvedPlaces ==
    ASSUME TypeOK, NEW j \in Jobs, NEW p \in Providers, EnqueueResolved(j, p)
    PROVE  /\ \A o \in Providers : queueOf[o] # None => queueOf'[o] = queueOf[o]
           /\ \E q \in Queues :
                  /\ queueOf'[p] = q
                  /\ \A r \in Queues, k \in Jobs :
                         \/ stage'[r][k] = stage[r][k]
                         \/ /\ r = q /\ k = j /\ stage[r][k] = "none"
                            /\ stage'[r][k] = "pending"
<1>1. PICK q \in Queues :
          /\ IF queueOf[p] # None THEN q = queueOf[p] ELSE Unused(q)
          /\ queueOf' = [queueOf EXCEPT ![p] = q]
          /\ stage' = IF stage[q][j] = "none"
                      THEN [stage EXCEPT ![q] = [stage[q] EXCEPT ![j] = "pending"]]
                      ELSE stage
  BY DEF EnqueueResolved
<1>2. /\ queueOf'[p] = q
      /\ \A o \in Providers : queueOf[o] # None => queueOf'[o] = queueOf[o]
  BY <1>1 DEF TypeOK
<1>3. ASSUME NEW r \in Queues, NEW k \in Jobs
      PROVE  \/ stage'[r][k] = stage[r][k]
             \/ /\ r = q /\ k = j /\ stage[r][k] = "none" /\ stage'[r][k] = "pending"
  BY <1>1 DEF TypeOK
<1> QED BY <1>2, <1>3

LEMMA EnqueuesFrame ==
    ASSUME TypeOK, JobInv, CallInv, CallEnqueues \/ CompensationEnqueues
    PROVE  /\ UNCHANGED <<active, retired, zombies, stop, imp, past, reserved, blocked>>
           /\ active
           /\ \E j \in Jobs, p \in Providers : EnqueueResolved(j, p)
<1>1. CASE CallEnqueues
  <2>1. PICK e \in Enqueuers, p \in Providers :
            /\ EnqueueAdmitted(e) /\ EnqueueAdmissible(enq[e].job)
            /\ EnqueueResolved(enq[e].job, p)
    BY <1>1 DEF CallEnqueues
  <2>2. enq[e].job \in Jobs
    BY <2>1 DEF EnqueueAdmitted, CallInv
  <2> QED BY <2>1, <2>2 DEF EnqueueAdmitted, EnqueueAdmissible
<1>2. CASE CompensationEnqueues
  <2>1. PICK c \in Changers, p \in Providers :
            CompensationEnqueue(c) /\ active /\ EnqueueResolved(rule[c].job, p)
    BY <1>2 DEF CompensationEnqueues
  <2>2. rule[c].job \in Jobs
    BY <2>1 DEF CompensationEnqueue, JobInv
  <2> QED BY <2>1, <2>2 DEF CompensationEnqueue
<1> QED BY <1>1, <1>2

\* For a job that is in one queue, a queue that is forgotten leaves it to its zombie.
LEMMA PruneKeeps ==
    ASSUME TypeOK, UniqueInv, NEW id, NEW aged \in Aged, PruneRetired(id, aged),
           NEW j \in Jobs \ past.missed
    PROVE  /\ zombies[j] # None => zombies'[j] = zombies[j]
           /\ \A q \in Queues : stage[q][j] # "none" =>
                  /\ q \in retired => q \in retired' \/ zombies'[j] = q
                  /\ zombies'[j] # None => zombies'[j] = q
           /\ (\A q \in Queues : stage[q][j] = "none") => zombies'[j] = zombies[j]
<1>1. CASE KnownEarly(id)
  BY <1>1 DEF PruneRetired, UniqueInv
<1>2. CASE ~KnownEarly(id)
  <2>1. /\ retired' = {q \in retired : Busy(q)} \ aged
        /\ zombies'[j] = IF zombies[j] = None /\ \E q \in aged : stage[q][j] # "none"
                         THEN CHOOSE q \in aged : stage[q][j] # "none"
                         ELSE zombies[j]
    BY <1>2 DEF PruneRetired
  <2>2. aged \subseteq Queues
    BY DEF Aged, TypeOK
  <2>3. (\E q \in aged : stage[q][j] # "none") =>
            LET r == CHOOSE q \in aged : stage[q][j] # "none"
            IN  r \in aged /\ stage[r][j] # "none"
    OBVIOUS
  <2>4. ASSUME NEW q \in Queues, stage[q][j] # "none"
        PROVE  /\ q \in retired => q \in retired' \/ zombies'[j] = q
               /\ zombies'[j] # None => zombies'[j] = q
    <3>1. \A r \in Queues : stage[r][j] # "none" => r = q
      BY <2>4 DEF UniqueInv
    <3>2. zombies[j] # None => zombies[j] = q
      BY <2>4 DEF UniqueInv
    <3>3. (\E r \in aged : stage[r][j] # "none") =>
              (CHOOSE r \in aged : stage[r][j] # "none") = q
      BY <2>2, <2>3, <3>1
    <3>4. Busy(q)
      BY <2>4 DEF Busy
    <3>5. q \in aged \/ zombies'[j] = zombies[j]
      BY <2>1, <2>2, <3>1
    <3>6. q \in aged => zombies'[j] = q
      BY <2>1, <2>4, <3>2, <3>3
    <3> QED BY <2>1, <3>2, <3>4, <3>5, <3>6
  <2> QED BY <2>1, <2>2, <2>4
<1> QED BY <1>1, <1>2

LEMMA PlaceStep ==
    ASSUME TypeOK, JobInv, CallInv, DrainInv, PlaceInv, UniqueInv, [Next]_vars
    PROVE  PlaceInv'
<1>0. past.missed \subseteq past'.missed
  BY MissedGrows
<1>1. CASE Steady
  BY <1>0, <1>1 DEF PlaceInv, Known, Steady, Shrinks
<1>2. CASE Pruning
  <2>1. PICK id \in Jobs \cup {NewJob}, aged \in Aged : PruneRetired(id, aged)
    BY <1>2 DEF Pruning
  <2>2. ASSUME NEW q \in Queues, NEW j \in Jobs, stage[q][j] # "none",
               j \notin past.missed
        PROVE  Known(q, j)'
    <3>1. /\ q \in retired => q \in retired' \/ zombies'[j] = q
          /\ zombies[j] = q => zombies'[j] = q
      BY <2>1, <2>2, PruneKeeps, QueueAssumption
    <3>2. Known(q, j)
      BY <2>2 DEF PlaceInv
    <3> QED BY <1>2, <3>1, <3>2 DEF Known, Pruning
  <2> QED BY <1>0, <1>2, <2>2 DEF PlaceInv, Pruning
<1>3. ASSUME NEW k \in Jobs, ReleaseZombieJob(k) PROVE PlaceInv'
  <2>1. UNCHANGED <<stage, queueOf, retired, stop, imp>>
    BY <1>3 DEF ReleaseZombieJob, procs
  <2>2. \A j \in Jobs : zombies'[j] = zombies[j] \/ j = k
    BY <1>3 DEF ReleaseZombieJob, TypeOK
  <2>3. \A q \in Queues : zombies[k] = q => stage[q][k] \in {"none", "pending"}
    BY <1>3, QueueAssumption DEF ReleaseZombieJob, TypeOK, Stages, Executing
  <2> QED BY <1>0, <2>1, <2>2, <2>3 DEF PlaceInv, Known
<1>4. CASE CallEnqueues \/ CompensationEnqueues
  <2>1. UNCHANGED <<retired, zombies, stop, imp, past>>
    BY <1>4, EnqueuesFrame
  <2>2. PICK j \in Jobs, p \in Providers : EnqueueResolved(j, p)
    BY <1>4, EnqueuesFrame
  <2>3. PICK q \in Queues :
            /\ queueOf'[p] = q
            /\ \A r \in Queues, k \in Jobs :
                   stage'[r][k] = stage[r][k] \/ (r = q /\ k = j)
    BY <2>2, ResolvedPlaces
  <2>4. \A o \in Providers : queueOf[o] # None => queueOf'[o] = queueOf[o]
    BY <2>2, ResolvedPlaces
  <2> QED BY <2>1, <2>3, <2>4, QueueAssumption DEF PlaceInv, Known
<1>5. CASE StopDrain \/ ImportDrain
  <2>1. Shrinks /\ \A q \in Mapped, j \in Jobs : stage'[q][j] # "pending"
    BY <1>5, StopQueuesShrinks, MappedTyped DEF StopDrain, ImportDrain
  <2>2. \A q \in Queues : (\E p \in Providers : queueOf[p] = q) <=> q \in Mapped
    BY QueueAssumption DEF Mapped
  <2>3. UNCHANGED <<retired, zombies>>
    BY <1>5 DEF StopDrain, ImportDrain
  <2>4. Mapped \cup stop.waits \cup imp.waits \subseteq stop'.waits \cup imp'.waits
    <3>1. CASE StopDrain
      BY <3>1 DEF StopDrain, DrainInv
    <3>2. CASE ImportDrain
      BY <3>2 DEF ImportDrain, DrainInv, TypeOK, ImpType
    <3> QED BY <1>5, <3>1, <3>2
  <2> QED BY <1>0, <2>1, <2>2, <2>3, <2>4 DEF PlaceInv, Known, Shrinks
<1>6. CASE StopRetire \/ ImportDrained
  <2>1. UNCHANGED <<stage, queueOf, zombies>>
    BY <1>6 DEF StopRetire, ImportDrained
  <2>2. \A q \in retired \cup stop.waits \cup imp.waits :
            Busy(q) \/ q \in retired =>
                q \in retired' \cup stop'.waits \cup imp'.waits
    <3>1. CASE StopRetire
      BY <3>1 DEF StopRetire, Retire
    <3>2. CASE ImportDrained
      BY <3>2 DEF ImportDrained, Retire
    <3> QED BY <1>6, <3>1, <3>2
  <2>3. \A q \in Queues, j \in Jobs : stage[q][j] # "none" => Busy(q)
    BY DEF Busy
  <2> QED BY <1>0, <2>1, <2>2, <2>3 DEF PlaceInv, Known
<1> QED BY <1>1, <1>2, <1>3, <1>4, <1>5, <1>6, MapMoves

LEMMA UniqueStep ==
    ASSUME TypeOK, JobInv, CallInv, UniqueInv, FreeInv, [Next]_vars
    PROVE  UniqueInv'
<1>0. past.missed \subseteq past'.missed
  BY MissedGrows
<1>1. ASSUME Shrinks, UNCHANGED zombies PROVE UniqueInv'
  BY <1>0, <1>1 DEF UniqueInv, Shrinks
<1>2. CASE Pruning
  <2>1. PICK id \in Jobs \cup {NewJob}, aged \in Aged : PruneRetired(id, aged)
    BY <1>2 DEF Pruning
  <2>2. \A j \in Jobs \ past.missed, q \in Queues :
            stage[q][j] # "none" /\ zombies'[j] # None => zombies'[j] = q
    BY <2>1, PruneKeeps
  <2> QED BY <1>0, <1>2, <2>2 DEF UniqueInv, Pruning
<1>3. ASSUME NEW k \in Jobs, ReleaseZombieJob(k) PROVE UniqueInv'
  <2>1. \A j \in Jobs : zombies'[j] = zombies[j] \/ zombies'[j] = None
    BY <1>3 DEF ReleaseZombieJob, TypeOK
  <2> QED BY <1>0, <1>3, <2>1 DEF UniqueInv, ReleaseZombieJob
<1>4. CASE CallEnqueues \/ CompensationEnqueues
  <2>1. UNCHANGED <<zombies, past>>
    BY <1>4, EnqueuesFrame
  <2>2. PICK j \in Jobs, p \in Providers :
            EnqueueResolved(j, p) /\ (j \notin past.missed => Free(j))
    <3>1. CASE CallEnqueues
      BY <3>1 DEF CallEnqueues, EnqueueAdmitted, FreeInv, CallInv
    <3>2. CASE CompensationEnqueues
      BY <3>2 DEF CompensationEnqueues, CompensationEnqueue, FreeInv, JobInv
    <3> QED BY <1>4, <3>1, <3>2
  <2>3. PICK q \in Queues : \A r \in Queues, k \in Jobs :
                   stage'[r][k] = stage[r][k] \/ (r = q /\ k = j)
    BY <2>2, ResolvedPlaces
  <2> QED BY <2>1, <2>2, <2>3 DEF UniqueInv, Free
<1>5. CASE StopDrain \/ ImportDrain
  BY <1>1, <1>5, StopQueuesShrinks DEF StopDrain, ImportDrain
<1>6. CASE StopRetire \/ ImportDrained
  BY <1>1, <1>6 DEF StopRetire, ImportDrained, Shrinks
<1>7. CASE Steady
  BY <1>1, <1>7 DEF Steady
<1> QED BY <1>2, <1>3, <1>4, <1>5, <1>6, <1>7, MapMoves

-----------------------------------------------------------------------------
(***************************************************************************)
(* Calls, reservations and the drains.                                     *)
(***************************************************************************)

LEMMA CallFrame ==
    ASSUME [Next]_vars
    PROVE  \/ UNCHANGED <<enq, reserved>> \/ EnqueueNext \/ ImportRequeue
           \/ \E c \in Changers : CompensationReserve(c) \/ CompensationRelease(c)
<1>1. CASE ExecutionNext
  <2>1. ASSUME NEW q \in Queues, NEW j \in Jobs,
               \/ Dispatch(q, j) \/ Progress(q, j) \/ Deployed(q, j)
               \/ DeployFails(q, j) \/ Fails(q, j) \/ Cancelled(q, j) \/ Leave(q, j)
        PROVE  UNCHANGED <<enq, reserved>>
    BY <2>1 DEF Dispatch, Progress, Deployed, DeployFails, Fails, Cancelled, Leave,
         procs, manager
  <2>2. ASSUME NEW q \in Queues, DispatchUnavailable(q) PROVE UNCHANGED <<enq, reserved>>
    BY <2>2 DEF DispatchUnavailable
  <2>3. ASSUME NEW j \in Jobs, FailPending(j) \/ ReleaseZombieJob(j)
        PROVE  UNCHANGED <<enq, reserved>>
    BY <2>3 DEF FailPending, ReleaseZombieJob, procs
  <2> QED BY <1>1, <2>1, <2>2, <2>3 DEF ExecutionNext
<1>2. CASE LifecycleNext
  <2>1. CASE Launch \/ LaunchCheck \/ LaunchDefer \/ LaunchRecheck
    BY <2>1 DEF Launch, LaunchCheck, LaunchDefer, LaunchRecheck, manager
  <2>2. CASE Exit \/ Undefer \/ Detach \/ DetachTimesOut \/ StopWaited
    BY <2>2 DEF Exit, Undefer, Detach, DetachTimesOut, StopWaited, manager
  <2>3. ASSUME NEW s \in Starters,
               \/ StartOps(s) \/ StartRefused(s) \/ StartWaited(s) \/ StartCheck(s)
        PROVE  UNCHANGED <<enq, reserved>>
    BY <2>3 DEF StartOps, StartRefused, StartWaited, StartCheck, manager
  <2>4. ASSUME NEW s \in Starters, StartDefer(s) \/ StartRecheck(s) \/ StartOpen(s)
        PROVE  UNCHANGED <<enq, reserved>>
    BY <2>4 DEF StartDefer, StartRecheck, StartOpen, manager
  <2>5. CASE StopCompensation \/ StopBlocks \/ StopDrain \/ StopRetire \/ StopClear
    BY <2>5 DEF StopCompensation, StopBlocks, StopDrain, StopRetire, StopClear, manager
  <2> QED BY <1>2, <2>1, <2>2, <2>3, <2>4, <2>5 DEF LifecycleNext
<1>3. CASE ImportNext
  <2>1. CASE ImportSample \/ BeginConfigImportHold \/ ImportDrain \/ ImportDrained
    BY <2>1 DEF ImportSample, BeginConfigImportHold, ImportDrain, ImportDrained, manager
  <2>2. CASE ImportLock \/ ImportCommit \/ EndConfigImportHold \/ ImportOpen
    BY <2>2 DEF ImportLock, ImportCommit, EndConfigImportHold, ImportOpen, manager
  <2>3. CASE ImportResume \/ ImportScan
    BY <2>3 DEF ImportResume, ImportScan, manager
  <2> QED BY <1>3, <2>1, <2>2, <2>3 DEF ImportNext
<1>4. CASE RuleNext
  <2>1. ASSUME NEW c \in Changers, NEW j \in Jobs, DisableRule(c, j) \/ DeleteRule(c, j)
        PROVE  UNCHANGED <<enq, reserved>>
    BY <2>1 DEF DisableRule, DeleteRule, manager
  <2>2. ASSUME NEW c \in Changers,
               \/ RuleDisabled(c) \/ BlockJobsForRule(c) \/ CancelJobsForRule(c)
               \/ RuleWaited(c) \/ RuleDeleted(c) \/ RuleDeleteFails(c)
               \/ CompensationWaited(c) \/ CompensationFails(c)
               \/ CompensationRequeue(c) \/ CompensationInFlight(c)
               \/ CompensationEnqueue(c)
        PROVE  UNCHANGED <<enq, reserved>>
    BY <2>2 DEF RuleDisabled, BlockJobsForRule, CancelJobsForRule, RuleWaited,
         RuleDeleted, RuleDeleteFails, CompensationWaited, CompensationFails,
         CompensationRequeue, CompensationInFlight, CompensationEnqueue, manager
  <2> QED BY <1>4, <2>1, <2>2 DEF RuleNext
<1>5. CASE UNCHANGED vars
  BY <1>5 DEF vars, procs, manager
<1> QED BY <1>1, <1>2, <1>3, <1>4, <1>5 DEF Next

\* A call moves alone.
OneCall(e) == \A f \in Enqueuers \ {e} : enq'[f] = enq[f]

LEMMA CallMoves ==
    ASSUME TypeOK, NEW e \in Enqueuers
    PROVE  /\ \A pc : enq' = [enq EXCEPT ![e].pc = pc] =>
                 /\ OneCall(e) /\ enq'[e].pc = pc /\ enq'[e].job = enq[e].job
                 /\ enq'[e].kind = enq[e].kind
           /\ enq' = [enq EXCEPT ![e] = Idle] =>
                 OneCall(e) /\ enq'[e].pc = "idle" /\ enq'[e].kind = "scan"
           /\ \A kind, j, seen : Call(e, kind, j, seen) =>
                 /\ OneCall(e) /\ enq'[e].pc = "reserve" /\ enq'[e].job = j
                 /\ enq'[e].kind = kind
<1>1. enq \in [Enqueuers -> CallType] /\ enq[e] \in CallType
  BY DEF TypeOK
<1>2. ASSUME NEW pc, enq' = [enq EXCEPT ![e].pc = pc]
      PROVE  /\ OneCall(e) /\ enq'[e].pc = pc /\ enq'[e].job = enq[e].job
             /\ enq'[e].kind = enq[e].kind
  <2>1. enq'[e] = [enq[e] EXCEPT !.pc = pc] /\ OneCall(e)
    BY <1>1, <1>2 DEF OneCall
  <2> QED BY <1>1, <2>1 DEF CallType
<1>3. enq' = [enq EXCEPT ![e] = Idle] =>
          OneCall(e) /\ enq'[e].pc = "idle" /\ enq'[e].kind = "scan"
  BY <1>1 DEF OneCall, Idle
<1>4. ASSUME NEW kind, NEW j, NEW seen, Call(e, kind, j, seen)
      PROVE  /\ OneCall(e) /\ enq'[e].pc = "reserve" /\ enq'[e].job = j
             /\ enq'[e].kind = kind
  BY <1>1, <1>4 DEF Call, OneCall
<1> QED BY <1>2, <1>3, <1>4

\* The next call of an import's end, if it makes one.
LEMMA RequeueCall ==
    ASSUME TypeOK, ImportRequeue
    PROVE  \/ UNCHANGED enq
           \/ \E j \in Jobs, seen \in Status : Call("import", "scan", j, seen)
<1>1. \A t \in imp.todo : t[1] \in Jobs /\ t[2] \in Status
  BY DEF TypeOK, ImpType
<1> QED BY <1>1 DEF ImportRequeue

LEMMA CallStep ==
    ASSUME ByName, TypeOK, CallInv, [Next]_vars PROVE CallInv'
<1>1. CASE UNCHANGED enq
  BY <1>1 DEF CallInv
<1>2. ASSUME NEW e \in Enqueuers, OneCall(e), enq'[e].kind # "create",
             enq'[e].pc = "idle" \/ enq'[e].job \in Jobs
      PROVE  CallInv'
  BY <1>2 DEF CallInv, OneCall
<1>3. ASSUME NEW e \in Enqueuers, NEW j \in Jobs, Enqueue(e, j) PROVE CallInv'
  <2>1. PICK kind \in Kinds : Call(e, kind, j, row[j])
    BY <1>3 DEF Enqueue
  <2> QED BY <1>2, <2>1, CallMoves DEF ByName
<1>4. ASSUME NEW e \in Enqueuers,
             \/ Reserve(e) \/ Transition(e) \/ ResolveFails(e) \/ EnqueueAdmitted(e)
             \/ Release(e)
      PROVE  CallInv'
  <2>1. \/ enq' = [enq EXCEPT ![e] = Idle]
        \/ /\ enq[e].pc # "idle"
           /\ \E pc \in {"transition", "enqueue", "release"} :
                  enq' = [enq EXCEPT ![e].pc = pc]
    BY <1>4 DEF Reserve, Transition, ResolveFails, EnqueueAdmitted, Release
  <2> QED BY <1>2, <2>1, CallMoves DEF CallInv
<1>5. CASE ImportRequeue
  <2>1. "import" \in Enqueuers
    BY DEF Enqueuers
  <2> QED BY <1>1, <1>2, <1>5, <2>1, RequeueCall, CallMoves
<1>6. CASE \E c \in Changers : CompensationReserve(c) \/ CompensationRelease(c)
  BY <1>1, <1>6 DEF CompensationReserve, CompensationRelease
<1> QED BY <1>1, <1>3, <1>4, <1>5, <1>6, CallFrame DEF EnqueueNext

LEMMA DrainStep ==
    ASSUME TypeOK, DrainInv, [Next]_vars PROVE DrainInv'
<1>1. ASSUME UNCHANGED <<stop, imp>> PROVE DrainInv'
  BY <1>1 DEF DrainInv
<1>2. CASE UNCHANGED life
  BY <1>1, <1>2 DEF life
<1>3. CASE LifecycleNext
  <2>1. CASE \/ Launch \/ LaunchCheck \/ LaunchDefer \/ LaunchRecheck \/ Exit
             \/ Undefer \/ DetachTimesOut \/ StopWaited
    BY <1>1, <2>1, LifeFrame
  <2>2. CASE Detach
    BY <2>2 DEF Detach, DrainInv, TypeOK, StopType
  <2>3. ASSUME NEW s \in Starters,
               \/ StartOps(s) \/ StartRefused(s) \/ StartWaited(s) \/ StartCheck(s)
               \/ StartDefer(s) \/ StartRecheck(s)
        PROVE  DrainInv'
    BY <1>1, <2>3, LifeFrame
  <2>4. ASSUME NEW s \in Starters, StartOpen(s) PROVE DrainInv'
    BY <2>4, OpenFrame, LifeFrame DEF DrainInv
  <2>5. CASE StopCompensation \/ StopBlocks \/ StopDrain \/ StopRetire \/ StopClear
    BY <2>5 DEF StopCompensation, StopBlocks, StopDrain, StopRetire, StopClear,
         DrainInv, TypeOK, StopType
  <2> QED BY <1>3, <2>1, <2>2, <2>3, <2>4, <2>5 DEF LifecycleNext
<1>4. CASE ImportNext
  <2>1. UNCHANGED stop
    BY <1>4, LifeFrame DEF ImportNext
  <2>2. CASE \/ ImportSample \/ BeginConfigImportHold \/ ImportLock \/ ImportCommit
             \/ EndConfigImportHold
    BY <2>1, <2>2 DEF ImportSample, BeginConfigImportHold, ImportLock, ImportCommit,
         EndConfigImportHold, DrainInv, TypeOK, ImpType
  <2>3. CASE ImportOpen \/ ImportResume \/ ImportScan \/ ImportRequeue
    BY <2>1, <2>3 DEF ImportOpen, ImportResume, ImportScan, ImportRequeue,
         DrainInv, TypeOK, ImpType
  <2>4. CASE ImportDrain \/ ImportDrained
    BY <2>1, <2>4 DEF ImportDrain, ImportDrained, DrainInv, TypeOK, ImpType
  <2> QED BY <1>4, <2>2, <2>3, <2>4 DEF ImportNext
<1> QED BY <1>2, <1>3, <1>4, LifeMoves

\* What the steps of other requests leave to c.
LEMMA KeepsStay ==
    ASSUME TypeOK, [Next]_vars, NEW c \in Changers, Keeps(c)'
    PROVE  \/ Keeps(c) /\ rule'[c].job = rule[c].job
           \/ CompensationReserve(c) /\ rule'[c].job = rule[c].job
<1>1. CASE UNCHANGED <<rule, blocked>>
  BY <1>1 DEF Keeps
<1>2. CASE StopCompensation \/ StopBlocks
  BY <1>2, StopMoves DEF Keeps, NoChange
<1>3. ASSUME NEW d \in Changers \ {c},
             \/ \E j \in Jobs : DisableRule(d, j) \/ DeleteRule(d, j)
             \/ RuleDisabled(d) \/ BlockJobsForRule(d) \/ CancelJobsForRule(d)
             \/ RuleWaited(d) \/ RuleDeleted(d) \/ RuleDeleteFails(d)
             \/ CompensationWaited(d) \/ CompensationFails(d)
             \/ CompensationRequeue(d) \/ CompensationInFlight(d)
             \/ CompensationReserve(d) \/ CompensationEnqueue(d)
             \/ CompensationRelease(d)
      PROVE  Keeps(c) /\ rule'[c].job = rule[c].job
  BY <1>3, RequestMoves, BeginMoves, PassingMoves DEF Moves, Alone, Keeps
<1>4. CASE \/ \E j \in Jobs : DisableRule(c, j) \/ DeleteRule(c, j)
           \/ BlockJobsForRule(c) \/ CancelJobsForRule(c)
  BY <1>4, BeginMoves DEF Keeps
<1>5. CASE \/ RuleDisabled(c) \/ RuleWaited(c) \/ RuleDeleted(c) \/ RuleDeleteFails(c)
           \/ CompensationWaited(c) \/ CompensationFails(c)
           \/ CompensationRequeue(c) \/ CompensationInFlight(c)
           \/ CompensationRelease(c)
  BY <1>5, RequestMoves DEF Moves, Keeps
<1>6. CASE CompensationReserve(c)
  BY <1>6, RequestMoves DEF Moves, Keeps
<1>7. CASE CompensationEnqueue(c)
  BY <1>7, RequestMoves, PassingMoves DEF Moves, Keeps
<1> QED BY <1>1, <1>2, <1>3, <1>4, <1>5, <1>6, <1>7, RuleFrame DEF RuleNext

LEMMA HoldsStay ==
    ASSUME TypeOK, [Next]_vars, NEW e \in Enqueuers, Holds(e)'
    PROVE  /\ enq'[e].job = enq[e].job
           /\ \/ Holds(e)
              \/ Reserve(e) /\ enq' = [enq EXCEPT ![e].pc = "transition"]
           /\ enq'[e].pc \in {"transition", "enqueue"} =>
                 \/ enq[e].pc \in {"transition", "enqueue"}
                 \/ Reserve(e) /\ enq' = [enq EXCEPT ![e].pc = "transition"]
<1>1. CASE UNCHANGED enq
  BY <1>1 DEF Holds
<1>2. ASSUME NEW f \in Enqueuers \ {e}, OneCall(f)
      PROVE  enq'[e] = enq[e]
  BY <1>2 DEF OneCall
<1>3. ASSUME NEW f \in Enqueuers, NEW j \in Jobs, Enqueue(f, j)
      PROVE  f # e /\ enq'[e] = enq[e]
  <2>1. PICK kind \in Kinds : Call(f, kind, j, row[j])
    BY <1>3 DEF Enqueue
  <2> QED BY <1>2, <2>1, CallMoves DEF Holds
<1>4. ASSUME NEW f \in Enqueuers \ {e},
             \/ Reserve(f) \/ Transition(f) \/ ResolveFails(f) \/ EnqueueAdmitted(f)
             \/ Release(f)
      PROVE  enq'[e] = enq[e]
  <2>1. \/ enq' = [enq EXCEPT ![f] = Idle]
        \/ \E pc \in {"transition", "enqueue", "release"} :
               enq' = [enq EXCEPT ![f].pc = pc]
    BY <1>4 DEF Reserve, Transition, ResolveFails, EnqueueAdmitted, Release
  <2> QED BY <1>2, <2>1, CallMoves
<1>5. CASE Reserve(e)
  <2>1. \/ enq' = [enq EXCEPT ![e] = Idle]
        \/ enq' = [enq EXCEPT ![e].pc = "transition"]
    BY <1>5 DEF Reserve
  <2> QED BY <1>5, <2>1, CallMoves DEF Holds
<1>6. CASE Transition(e) \/ ResolveFails(e) \/ EnqueueAdmitted(e)
  <2>1. /\ enq[e].pc \in {"transition", "enqueue"}
        /\ \E pc \in {"enqueue", "release"} : enq' = [enq EXCEPT ![e].pc = pc]
    BY <1>6 DEF Transition, ResolveFails, EnqueueAdmitted
  <2> QED BY <2>1, CallMoves DEF Holds
<1>7. CASE Release(e)
  BY <1>7, CallMoves DEF Release, Holds
<1>8. CASE ImportRequeue
  <2>1. "import" \in Enqueuers
    BY DEF Enqueuers
  <2>2. \/ UNCHANGED enq
        \/ \E j \in Jobs, seen \in Status : Call("import", "scan", j, seen)
    BY <1>8, RequeueCall
  <2>3. ASSUME NEW j \in Jobs, NEW seen \in Status, Call("import", "scan", j, seen)
        PROVE  enq'[e] = enq[e]
    BY <2>1, <2>3, <1>2, CallMoves DEF Holds
  <2> QED BY <1>1, <2>2, <2>3 DEF Holds
<1>9. CASE \E c \in Changers : CompensationReserve(c) \/ CompensationRelease(c)
  BY <1>1, <1>9 DEF CompensationReserve, CompensationRelease
<1> QED
  BY <1>1, <1>3, <1>4, <1>5, <1>6, <1>7, <1>8, <1>9, CallFrame DEF EnqueueNext, Holds

\* A reservation ends only with its holder.
LEMMA ReservedStays ==
    ASSUME TypeOK, CallInv, [Next]_vars, NEW j \in reserved, j \notin reserved'
    PROVE  \/ \E e \in Enqueuers : Release(e) /\ enq[e].job = j
           \/ \E c \in Changers : CompensationRelease(c) /\ rule[c].job = j
<1>1. ASSUME NEW e \in Enqueuers, Release(e) PROVE enq[e].job = j
  BY <1>1 DEF Release, Guarded, CallInv
<1>2. ASSUME NEW c \in Changers, CompensationRelease(c) PROVE rule[c].job = j
  BY <1>2 DEF CompensationRelease
<1>3. ASSUME NEW e \in Enqueuers,
             Reserve(e) \/ Transition(e) \/ ResolveFails(e) \/ EnqueueAdmitted(e)
      PROVE  FALSE
  BY <1>3 DEF Reserve, Transition, ResolveFails, EnqueueAdmitted, manager
<1>4. ASSUME NEW e \in Enqueuers, NEW k \in Jobs, Enqueue(e, k) PROVE FALSE
  BY <1>4 DEF Enqueue, manager
<1>5. CASE ImportRequeue
  BY <1>5 DEF ImportRequeue, manager
<1>6. ASSUME NEW c \in Changers, CompensationReserve(c) PROVE FALSE
  BY <1>6 DEF CompensationReserve
<1> QED BY <1>1, <1>2, <1>3, <1>4, <1>5, <1>6, CallFrame DEF EnqueueNext

LEMMA ReservesFree ==
    ASSUME TypeOK, CallInv, PlaceInv, UniqueInv, NEW e \in Enqueuers, Reserve(e),
           enq' = [enq EXCEPT ![e].pc = "transition"], enq[e].job \notin past'.missed
    PROVE  /\ enq[e].job \notin reserved /\ enq[e].job \in reserved'
           /\ Free(enq[e].job)'
<1> DEFINE j == enq[e].job
<1>1. enq' # [enq EXCEPT ![e] = Idle]
  <2>1. enq'[e].pc = "transition"
    BY CallMoves
  <2>2. enq' = [enq EXCEPT ![e] = Idle] => enq'[e].pc = "idle"
    BY CallMoves
  <2> QED BY <2>1, <2>2
<1>2. j \in Jobs /\ Guarded(e) = j
  BY DEF Reserve, CallInv, Guarded
<1>3. /\ ~IsJobActive(j) /\ reserved' = reserved \cup {j}
      /\ past'.missed = past.missed \cup (Unseen \cap {j})
  BY <1>1, <1>2 DEF Reserve, Overlook, TypeOK, PastType
<1>4. zombies[j] = None /\ j \notin reserved
  BY <1>2, <1>3 DEF IsJobActive, KnownEarly
<1>5. ASSUME NEW q \in Queues, stage[q][j] # "none" PROVE FALSE
  <2>1. q \notin Mapped /\ q \notin retired
    BY <1>2, <1>3, <1>5 DEF IsJobActive, KnownEarly
  <2>2. q \notin stop.waits \cup imp.waits
    BY <1>2, <1>3, <1>5 DEF Unseen
  <2>3. Known(q, j)
    BY <1>2, <1>3, <1>5 DEF PlaceInv
  <2> QED BY <1>4, <2>1, <2>2, <2>3, QueueAssumption DEF Known, Mapped
<1>6. zombies'[j] = None /\ UNCHANGED stage
  <2>1. PICK aged \in Aged : PruneRetired(j, aged)
    BY <1>2 DEF Reserve
  <2> QED BY <1>2, <1>3, <1>4, <1>5, <2>1, PruneKeeps DEF Reserve
<1> QED BY <1>3, <1>4, <1>5, <1>6 DEF Free

LEMMA CompensationReservesFree ==
    ASSUME TypeOK, JobInv, PlaceInv, NEW c \in Changers, CompensationReserve(c),
           rule'[c].pc = "enqueue", rule[c].job \notin past'.missed
    PROVE  /\ rule[c].job \notin reserved /\ rule[c].job \in reserved'
           /\ Free(rule[c].job)'
<1> DEFINE j == rule[c].job
<1>1. j \in Jobs
  BY DEF CompensationReserve, JobInv
<1>2. ~Unblock(c) /\ ~Retry(c)
  BY UnblockIsMove, RetryMoves DEF Moves
<1>3. /\ reserved' = reserved \cup {j}
      /\ past'.missed =
            past.missed \cup {k \in {j} : IsJobActive(k) \/ k \in Unseen}
      /\ UNCHANGED <<stage, zombies>>
  BY <1>2 DEF CompensationReserve, Overlook, TypeOK, PastType
<1>4. ~IsJobActive(j) /\ j \notin Unseen /\ j \notin past.missed
  BY <1>3
<1>5. zombies[j] = None /\ j \notin reserved
  BY <1>1, <1>4 DEF IsJobActive, KnownEarly
<1>6. ASSUME NEW q \in Queues, stage[q][j] # "none" PROVE FALSE
  <2>1. q \notin Mapped /\ q \notin retired
    BY <1>1, <1>4, <1>6 DEF IsJobActive, KnownEarly
  <2>2. q \notin stop.waits \cup imp.waits
    BY <1>1, <1>4, <1>6 DEF Unseen
  <2>3. Known(q, j)
    BY <1>1, <1>4, <1>6 DEF PlaceInv
  <2> QED BY <1>5, <2>1, <2>2, <2>3, QueueAssumption DEF Known, Mapped
<1>7. zombies'[j] = None /\ \A q \in Queues : stage'[q][j] = "none"
  BY <1>3, <1>5, <1>6
<1>8. j \notin reserved /\ j \in reserved'
  BY <1>3, <1>5
<1>9. rule'[c].job = j
  BY RequestMoves DEF Moves
<1>10. Free(j)'
  BY <1>7, <1>9 DEF Free
<1> QED BY <1>8, <1>10

\* Who holds a reservation after a step held it before, or finds it free.
LEMMA HolderStays ==
    ASSUME TypeOK, CallInv, PlaceInv, UniqueInv, [Next]_vars, NEW e \in Enqueuers,
           Holds(e)', enq'[e].job \notin past'.missed
    PROVE  /\ enq'[e].job = enq[e].job
           /\ \/ Holds(e)
              \/ /\ Reserve(e) /\ enq' = [enq EXCEPT ![e].pc = "transition"]
                 /\ enq[e].job \notin reserved /\ enq[e].job \in reserved'
BY HoldsStay, ReservesFree

LEMMA KeeperStays ==
    ASSUME TypeOK, JobInv, PlaceInv, [Next]_vars, NEW c \in Changers,
           Keeps(c)', rule'[c].job \notin past'.missed
    PROVE  /\ rule'[c].job = rule[c].job
           /\ \/ Keeps(c)
              \/ /\ CompensationReserve(c)
                 /\ rule[c].job \notin reserved /\ rule[c].job \in reserved'
<1>1. CASE Keeps(c) /\ rule'[c].job = rule[c].job
  BY <1>1
<1>2. CASE CompensationReserve(c) /\ rule'[c].job = rule[c].job
  <2>1. rule'[c].pc = "enqueue"
    BY <1>2, RequestMoves DEF Moves, Keeps
  <2> QED BY <1>2, <2>1, CompensationReservesFree
<1> QED BY <1>1, <1>2, KeepsStay

LEMMA ReserveStep ==
    ASSUME TypeOK, JobInv, CallInv, PlaceInv, UniqueInv, ReserveInv, [Next]_vars
    PROVE  ReserveInv'
<1>0. past.missed \subseteq past'.missed
  BY MissedGrows
<1>1. ASSUME NEW e \in Enqueuers, Holds(e)', enq'[e].job \notin past'.missed
      PROVE  enq'[e].job \in reserved'
  <2>1. enq'[e].job = enq[e].job
    BY <1>1, HolderStays
  <2>2. CASE Holds(e)
    <3>1. enq[e].job \in reserved
      BY <1>0, <1>1, <2>1, <2>2 DEF ReserveInv
    <3>2. ASSUME NEW f \in Enqueuers, Release(f), enq[f].job = enq[e].job PROVE FALSE
      <4>1. f = e
        BY <1>0, <1>1, <2>1, <2>2, <3>2 DEF ReserveInv, Release, Holds
      <4> QED BY <1>1, <3>2, <4>1, CallMoves DEF Release, Holds
    <3>3. ASSUME NEW c \in Changers, CompensationRelease(c), rule[c].job = enq[e].job
          PROVE  FALSE
      BY <1>0, <1>1, <2>1, <2>2, <3>3 DEF ReserveInv, CompensationRelease, Keeps
    <3> QED BY <2>1, <3>1, <3>2, <3>3, ReservedStays
  <2> QED BY <1>1, <2>1, <2>2, HolderStays
<1>2. ASSUME NEW c \in Changers, Keeps(c)', rule'[c].job \notin past'.missed
      PROVE  rule'[c].job \in reserved'
  <2>1. rule'[c].job = rule[c].job
    BY <1>2, KeeperStays
  <2>2. CASE Keeps(c)
    <3>1. rule[c].job \in reserved
      BY <1>0, <1>2, <2>1, <2>2 DEF ReserveInv
    <3>2. ASSUME NEW f \in Enqueuers, Release(f), enq[f].job = rule[c].job PROVE FALSE
      BY <1>0, <1>2, <2>1, <2>2, <3>2 DEF ReserveInv, Release, Holds
    <3>3. ASSUME NEW d \in Changers, CompensationRelease(d), rule[d].job = rule[c].job
          PROVE  FALSE
      <4>1. d = c
        BY <1>0, <1>2, <2>1, <2>2, <3>3 DEF ReserveInv, CompensationRelease, Keeps
      <4> QED BY <1>2, <3>3, <4>1, RequestMoves DEF Moves, Keeps
    <3> QED BY <2>1, <3>1, <3>2, <3>3, ReservedStays
  <2> QED BY <1>2, <2>1, <2>2, KeeperStays
<1>3. ASSUME NEW e \in Enqueuers, NEW f \in Enqueuers, Holds(e)', Holds(f)',
             enq'[e].job = enq'[f].job, enq'[e].job \notin past'.missed
      PROVE  e = f
  <2>1. CASE Holds(e) /\ Holds(f)
    BY <1>0, <1>3, <2>1, HolderStays DEF ReserveInv
  <2>2. CASE Holds(e) /\ ~Holds(f)
    BY <1>0, <1>3, <2>2, HolderStays DEF ReserveInv
  <2>3. CASE ~Holds(e) /\ Holds(f)
    BY <1>0, <1>3, <2>3, HolderStays DEF ReserveInv
  <2>4. CASE ~Holds(e) /\ ~Holds(f)
    <3>1. /\ Reserve(e) /\ enq' = [enq EXCEPT ![e].pc = "transition"]
          /\ enq[e].pc = "reserve" /\ enq[f].pc = "reserve"
      BY <1>3, <2>4, HolderStays DEF Reserve
    <3>2. OneCall(e)
      BY <3>1, CallMoves
    <3> QED BY <1>3, <3>1, <3>2 DEF OneCall, Holds
  <2> QED BY <2>1, <2>2, <2>3, <2>4
<1>4. ASSUME NEW c \in Changers, NEW d \in Changers, Keeps(c)', Keeps(d)',
             rule'[c].job = rule'[d].job, rule'[c].job \notin past'.missed
      PROVE  c = d
  <2>1. CASE Keeps(c) /\ Keeps(d)
    BY <1>0, <1>4, <2>1, KeeperStays DEF ReserveInv
  <2>2. CASE Keeps(c) /\ ~Keeps(d)
    BY <1>0, <1>4, <2>2, KeeperStays DEF ReserveInv
  <2>3. CASE ~Keeps(c) /\ Keeps(d)
    BY <1>0, <1>4, <2>3, KeeperStays DEF ReserveInv
  <2>4. CASE ~Keeps(c) /\ ~Keeps(d)
    <3>1. CompensationReserve(c) /\ rule[c].pc = "reserve" /\ rule[d].pc = "reserve"
      BY <1>4, <2>4, KeeperStays DEF CompensationReserve
    <3>2. Alone(c)
      BY <3>1, RequestMoves DEF Moves
    <3> QED BY <1>4, <3>1, <3>2 DEF Alone, Keeps
  <2> QED BY <2>1, <2>2, <2>3, <2>4
<1>5. ASSUME NEW e \in Enqueuers, NEW c \in Changers, Holds(e)', Keeps(c)',
             enq'[e].job = rule'[c].job, enq'[e].job \notin past'.missed
      PROVE  FALSE
  <2>1. CASE Holds(e) /\ Keeps(c)
    BY <1>0, <1>5, <2>1, HolderStays, KeeperStays DEF ReserveInv
  <2>2. CASE Holds(e) /\ ~Keeps(c)
    BY <1>0, <1>5, <2>2, HolderStays, KeeperStays DEF ReserveInv
  <2>3. CASE ~Holds(e) /\ Keeps(c)
    BY <1>0, <1>5, <2>3, HolderStays, KeeperStays DEF ReserveInv
  <2>4. CASE ~Holds(e) /\ ~Keeps(c)
    <3>1. Reserve(e) /\ CompensationReserve(c)
      BY <1>5, <2>4, HolderStays, KeeperStays
    <3>2. rule'[c].pc = rule[c].pc /\ rule[c].pc = "reserve"
      BY <3>1 DEF Reserve, CompensationReserve
    <3> QED BY <1>5, <3>2 DEF Keeps
  <2> QED BY <2>1, <2>2, <2>3, <2>4
<1> QED BY <1>1, <1>2, <1>3, <1>4, <1>5 DEF ReserveInv, Holds, Keeps

\* What is in no queue gets into one only by being enqueued.
LEMMA FreeStays ==
    ASSUME TypeOK, JobInv, CallInv, UniqueInv, [Next]_vars, NEW j \in Jobs, Free(j),
           j \notin past.missed
    PROVE  \/ Free(j)'
           \/ \E e \in Enqueuers : EnqueueAdmitted(e) /\ enq[e].job = j
           \/ \E c \in Changers : /\ CompensationEnqueue(c) /\ rule[c].job = j
                                  /\ rule' = Passing(c)
<1>1. ASSUME Shrinks, UNCHANGED zombies PROVE Free(j)'
  BY <1>1 DEF Free, Shrinks
<1>2. CASE Pruning
  <2>1. PICK id \in Jobs \cup {NewJob}, aged \in Aged : PruneRetired(id, aged)
    BY <1>2 DEF Pruning
  <2> QED BY <1>2, <2>1, PruneKeeps DEF Free, Pruning
<1>3. ASSUME NEW k \in Jobs, ReleaseZombieJob(k) PROVE Free(j)'
  BY <1>3 DEF ReleaseZombieJob, Free, TypeOK
<1>4. CASE CallEnqueues
  <2>1. PICK e \in Enqueuers, p \in Providers :
            EnqueueAdmitted(e) /\ EnqueueResolved(enq[e].job, p)
    BY <1>4 DEF CallEnqueues
  <2>2. enq[e].job \in Jobs /\ UNCHANGED zombies
    BY <2>1 DEF EnqueueAdmitted, CallInv
  <2>3. enq[e].job = j \/ \A r \in Queues : stage'[r][j] = stage[r][j]
    BY <2>1, <2>2, ResolvedPlaces
  <2> QED BY <2>1, <2>2, <2>3 DEF Free
<1>5. CASE CompensationEnqueues
  <2>1. PICK c \in Changers, p \in Providers :
            /\ CompensationEnqueue(c) /\ EnqueueResolved(rule[c].job, p)
            /\ rule' = Passing(c)
    BY <1>5 DEF CompensationEnqueues
  <2>2. rule[c].job \in Jobs /\ UNCHANGED zombies
    BY <2>1 DEF CompensationEnqueue, JobInv
  <2>3. rule[c].job = j \/ \A r \in Queues : stage'[r][j] = stage[r][j]
    BY <2>1, <2>2, ResolvedPlaces
  <2> QED BY <2>1, <2>2, <2>3 DEF Free
<1>6. CASE StopDrain \/ ImportDrain
  BY <1>1, <1>6, StopQueuesShrinks DEF StopDrain, ImportDrain
<1>7. CASE StopRetire \/ ImportDrained
  BY <1>1, <1>7 DEF StopRetire, ImportDrained, Shrinks
<1>8. CASE Steady
  BY <1>1, <1>8 DEF Steady
<1> QED BY <1>2, <1>3, <1>4, <1>5, <1>6, <1>7, <1>8, MapMoves

\* A compensation gets to its enqueueing only from its reservation.
LEMMA EnqueueComesFromReserve ==
    ASSUME TypeOK, [Next]_vars, NEW c \in Changers, Keeps(c), rule'[c].pc = "enqueue"
    PROVE  rule[c].pc = "enqueue"
<1>1. CASE UNCHANGED <<rule, blocked>>
  BY <1>1
<1>2. CASE StopCompensation \/ StopBlocks
  BY <1>2, StopMoves DEF NoChange
<1>3. ASSUME NEW d \in Changers \ {c},
             \/ \E j \in Jobs : DisableRule(d, j) \/ DeleteRule(d, j)
             \/ RuleDisabled(d) \/ BlockJobsForRule(d) \/ CancelJobsForRule(d)
             \/ RuleWaited(d) \/ RuleDeleted(d) \/ RuleDeleteFails(d)
             \/ CompensationWaited(d) \/ CompensationFails(d)
             \/ CompensationRequeue(d) \/ CompensationInFlight(d)
             \/ CompensationReserve(d) \/ CompensationEnqueue(d)
             \/ CompensationRelease(d)
      PROVE  rule'[c].pc = rule[c].pc
  BY <1>3, RequestMoves, BeginMoves, PassingMoves DEF Moves, Alone
<1>4. CASE CompensationEnqueue(c)
  BY <1>4 DEF CompensationEnqueue
<1>5. CASE CompensationRelease(c)
  BY <1>5, RequestMoves DEF Moves
<1>6. ASSUME \/ \E j \in Jobs : DisableRule(c, j) \/ DeleteRule(c, j)
             \/ RuleDisabled(c) \/ BlockJobsForRule(c) \/ CancelJobsForRule(c)
             \/ RuleWaited(c) \/ RuleDeleted(c) \/ RuleDeleteFails(c)
             \/ CompensationWaited(c) \/ CompensationFails(c)
             \/ CompensationRequeue(c) \/ CompensationInFlight(c)
             \/ CompensationReserve(c)
      PROVE  FALSE
  BY <1>6, RequestMoves, BeginMoves DEF Keeps
<1> QED BY <1>1, <1>2, <1>3, <1>4, <1>5, <1>6, RuleFrame DEF RuleNext

LEMMA FreeStep ==
    ASSUME TypeOK, JobInv, CallInv, PlaceInv, UniqueInv, ReserveInv, FreeInv,
           [Next]_vars
    PROVE  FreeInv'
<1>0. past.missed \subseteq past'.missed
  BY MissedGrows
<1>1. ASSUME NEW e \in Enqueuers, enq'[e].pc \in {"transition", "enqueue"},
             enq'[e].job \notin past'.missed
      PROVE  Free(enq[e].job)' /\ enq'[e].job = enq[e].job
  <2>0. Holds(e)'
    BY <1>1 DEF Holds
  <2>1. enq'[e].job = enq[e].job
    BY <2>0, HoldsStay
  <2>2. CASE enq[e].pc \in {"transition", "enqueue"}
    <3>1. Free(enq[e].job) /\ enq[e].job \in Jobs
      BY <1>0, <1>1, <2>1, <2>2 DEF FreeInv, CallInv
    <3>2. ASSUME NEW f \in Enqueuers, EnqueueAdmitted(f), enq[f].job = enq[e].job
          PROVE  FALSE
      <4>1. f = e
        BY <1>0, <1>1, <2>1, <2>2, <3>2 DEF ReserveInv, EnqueueAdmitted, Holds
      <4>2. enq' = [enq EXCEPT ![e].pc = "release"]
        BY <3>2, <4>1 DEF EnqueueAdmitted
      <4>3. enq'[e].pc = "release"
        BY <4>2, CallMoves
      <4> QED BY <1>1, <4>3
    <3>3. ASSUME NEW c \in Changers, CompensationEnqueue(c), rule[c].job = enq[e].job
          PROVE  FALSE
      BY <1>0, <1>1, <2>1, <2>2, <3>3 DEF ReserveInv, CompensationEnqueue, Holds, Keeps
    <3> QED BY <1>0, <1>1, <2>1, <3>1, <3>2, <3>3, FreeStays
  <2>3. CASE Reserve(e) /\ enq' = [enq EXCEPT ![e].pc = "transition"]
    BY <1>1, <2>1, <2>3, ReservesFree
  <2> QED BY <1>1, <2>0, <2>1, <2>2, <2>3, HoldsStay
<1>2. ASSUME NEW c \in Changers, rule'[c].pc = "enqueue", rule'[c].job \notin past'.missed
      PROVE  Free(rule[c].job)' /\ rule'[c].job = rule[c].job
  <2>0. Keeps(c)'
    BY <1>2 DEF Keeps
  <2>1. rule'[c].job = rule[c].job
    BY <1>2, <2>0, KeeperStays
  <2>2. CASE Keeps(c)
    <3>1. rule[c].pc = "enqueue"
      BY <1>2, <2>2, EnqueueComesFromReserve
    <3>2. Free(rule[c].job) /\ rule[c].job \in Jobs
      BY <1>0, <1>2, <2>1, <3>1 DEF FreeInv, JobInv
    <3>3. ASSUME NEW f \in Enqueuers, EnqueueAdmitted(f), enq[f].job = rule[c].job
          PROVE  FALSE
      BY <1>0, <1>2, <2>1, <2>2, <3>3 DEF ReserveInv, EnqueueAdmitted, Holds, Keeps
    <3>4. ASSUME NEW d \in Changers, CompensationEnqueue(d), rule[d].job = rule[c].job,
                 rule' = Passing(d)
          PROVE  FALSE
      <4>1. d = c
        BY <1>0, <1>2, <2>1, <2>2, <3>4 DEF ReserveInv, CompensationEnqueue, Keeps
      <4> QED BY <1>2, <3>4, <4>1, PassingMoves
    <3> QED BY <1>0, <1>2, <2>1, <3>2, <3>3, <3>4, FreeStays
  <2>3. CASE CompensationReserve(c)
    BY <1>2, <2>1, <2>3, CompensationReservesFree
  <2> QED BY <1>2, <2>0, <2>1, <2>2, <2>3, KeeperStays
<1> QED BY <1>1, <1>2 DEF FreeInv, Free

-----------------------------------------------------------------------------
(***************************************************************************)
(* The window of an import and the drain of a rule.                        *)
(***************************************************************************)

\* Something is enqueued only into an open queue.
LEMMA EnqueuesWhenActive ==
    ASSUME TypeOK, JobInv, CallInv, [Next]_vars
    PROVE  Shrinks \/ (active /\ UNCHANGED <<active, imp, past>>)
<1>1. CASE Pruning
  BY <1>1 DEF Pruning, Shrinks
<1>2. CASE \E j \in Jobs : ReleaseZombieJob(j)
  BY <1>2 DEF ReleaseZombieJob, Shrinks
<1>3. CASE CallEnqueues \/ CompensationEnqueues
  BY <1>3, EnqueuesFrame
<1>4. CASE StopDrain \/ ImportDrain
  BY <1>4, StopQueuesShrinks DEF StopDrain, ImportDrain
<1>5. CASE StopRetire \/ ImportDrained
  BY <1>5 DEF StopRetire, ImportDrained, Shrinks
<1> QED BY <1>1, <1>2, <1>3, <1>4, <1>5, MapMoves DEF Steady

\* How a step changes what an import's drain relies on.
ImportSteady ==
    /\ imp'.pc = imp.pc /\ imp'.late = imp.late /\ imp'.waits = imp.waits
    /\ imp'.prior = imp.prior /\ imp'.zombies = imp.zombies /\ active' = active

LEMMA ImportMoves ==
    ASSUME TypeOK, [Next]_vars
    PROVE  \/ ImportSteady
           \/ StopDrain /\ UNCHANGED imp
           \/ \E s \in Starters : StartOpen(s)
           \/ ImportDrain \/ ImportDrained
           \/ /\ imp.pc = "lock" /\ imp'.pc = "window" /\ imp'.late = imp.late
              /\ active' = active
           \/ /\ imp.pc = "window" /\ imp'.pc = "end" /\ imp'.late = imp.late
              /\ active' = active
           \/ imp'.pc \notin AfterDrain
<1>1. CASE UNCHANGED life
  BY <1>1 DEF life, ImportSteady
<1>2. CASE LifecycleNext
  <2>1. CASE StopDrain
    BY <2>1 DEF StopDrain
  <2>2. CASE \E s \in Starters : StartOpen(s)
    BY <2>2
  <2>3. CASE ~StopDrain /\ ~\E s \in Starters : StartOpen(s)
    <3>1. UNCHANGED <<active, imp>>
      BY <1>2, <2>3, LifeFrame DEF LifecycleNext
    <3> QED BY <3>1 DEF ImportSteady
  <2> QED BY <2>1, <2>2, <2>3
<1>3. CASE ImportNext
  <2>1. CASE ImportSample \/ BeginConfigImportHold
    BY <2>1 DEF ImportSample, BeginConfigImportHold, AfterDrain, TypeOK, ImpType
  <2>2. CASE ImportLock
    BY <2>2 DEF ImportLock, TypeOK, ImpType, manager
  <2>3. CASE ImportCommit
    BY <2>3 DEF ImportCommit, TypeOK, ImpType, manager
  <2>4. CASE EndConfigImportHold
    BY <2>4 DEF EndConfigImportHold, AfterDrain, TypeOK, ImpType
  <2>5. CASE ImportOpen
    BY <2>5 DEF ImportOpen, AfterDrain, TypeOK, ImpType
  <2>6. CASE ImportResume
    BY <2>6 DEF ImportResume, AfterDrain, TypeOK, ImpType
  <2>7. CASE ImportScan
    BY <2>7 DEF ImportScan, AfterDrain, TypeOK, ImpType
  <2>8. CASE ImportRequeue
    <3>1. imp.pc = "requeue"
      BY <2>8 DEF ImportRequeue
    <3>2. CASE imp' = [imp EXCEPT !.pc = "idle"]
      BY <3>2 DEF AfterDrain, TypeOK, ImpType
    <3>3. ASSUME NEW t \in imp.todo, imp' = [imp EXCEPT !.todo = imp.todo \ {t}]
          PROVE  imp'.pc = "requeue"
      BY <3>1, <3>3 DEF TypeOK, ImpType
    <3> QED BY <2>8, <3>2, <3>3 DEF ImportRequeue, AfterDrain
  <2> QED
    BY <1>3, <2>1, <2>2, <2>3, <2>4, <2>5, <2>6, <2>7, <2>8 DEF ImportNext
<1> QED BY <1>1, <1>2, <1>3, LifeMoves

LEMMA CloseStep ==
    ASSUME TypeOK, JobInv, CallInv, CloseInv, [Next]_vars
    PROVE  CloseInv'
<1>1. ASSUME active' = active,
             imp'.pc \in AfterDrain /\ ~imp'.late => imp.pc \in AfterDrain /\ ~imp.late
      PROVE  CloseInv'
  <2> SUFFICES ASSUME imp'.pc \in AfterDrain, ~imp'.late
               PROVE  ~active' /\ \A p \in Providers : queueOf'[p] = None
    BY DEF CloseInv
  <2>1. ~active /\ \A p \in Providers : queueOf[p] = None
    BY <1>1 DEF CloseInv
  <2>2. ~(CallEnqueues \/ CompensationEnqueues)
    BY <2>1, EnqueuesFrame
  <2>3. CASE StopDrain \/ ImportDrain
    BY <1>1, <2>1, <2>3 DEF StopDrain, ImportDrain, StopQueues
  <2>4. CASE UNCHANGED queueOf
    BY <1>1, <2>1, <2>4
  <2> QED
    BY <2>2, <2>3, <2>4, MapMoves DEF Steady, Pruning, ReleaseZombieJob, StopRetire,
       ImportDrained
<1>2. CASE StopDrain \/ ImportDrain
  BY <1>2 DEF StopDrain, ImportDrain, StopQueues, CloseInv
<1>3. ASSUME NEW s \in Starters, StartOpen(s) PROVE CloseInv'
  BY <1>3, OpenFrame DEF CloseInv
<1>4. CASE ImportDrained
  BY <1>1, <1>4 DEF ImportDrained, AfterDrain, TypeOK, ImpType
<1>5. CASE imp'.pc \notin AfterDrain
  BY <1>5 DEF CloseInv
<1> QED
  BY <1>1, <1>2, <1>3, <1>4, <1>5, ImportMoves DEF ImportSteady, AfterDrain

LEMMA WindowStep ==
    ASSUME TypeOK, JobInv, CallInv, PlaceInv, CloseInv, WindowInv, [Next]_vars
    PROVE  WindowInv'
<1>0. past.missed \subseteq past'.missed
  BY MissedGrows
<1>1. ASSUME imp'.late = imp.late, imp.pc \in AfterDrain,
             \/ ImportSteady \/ UNCHANGED imp
             \/ imp.pc = "lock" /\ imp'.pc = "window"
             \/ imp'.pc = "end"
      PROVE  WindowInv'
  <2>1. CASE imp.late
    BY <1>1, <2>1 DEF WindowInv
  <2>2. CASE ~imp.late
    <3>1. Shrinks
      BY <1>1, <2>2, EnqueuesWhenActive DEF CloseInv
    <3> QED BY <1>0, <1>1, <2>2, <3>1 DEF WindowInv, Shrinks, ImportSteady
  <2> QED BY <1>1, <2>1, <2>2 DEF TypeOK, ImpType
<1>2. CASE ImportDrain
  <2>1. /\ imp'.pc = "wait" /\ imp'.waits = Mapped /\ imp'.prior = retired
        /\ imp'.zombies = \E j \in Jobs : zombies[j] # None
        /\ past'.missed = past.missed \cup Unseen
    BY <1>2 DEF ImportDrain, TypeOK, ImpType
  <2>2. Shrinks
    BY <1>2, StopQueuesShrinks DEF ImportDrain
  <2>3. ASSUME ~imp'.zombies, NEW q \in Queues, NEW j \in Jobs \ past'.missed,
               stage'[q][j] # "none"
        PROVE  q \in imp'.waits \cup imp'.prior
    <3>1. stage[q][j] # "none"
      BY <2>2, <2>3 DEF Shrinks
    <3>2. j \notin past.missed /\ j \notin Unseen
      BY <2>1, <2>3
    <3>3. q \notin stop.waits \cup imp.waits
      BY <3>1, <3>2 DEF Unseen
    <3>4. zombies[j] = None
      BY <2>1, <2>3
    <3>5. Known(q, j)
      BY <3>1, <3>2 DEF PlaceInv
    <3> QED BY <2>1, <3>3, <3>4, <3>5, QueueAssumption DEF Known, Mapped
  <2> QED BY <2>1, <2>3 DEF WindowInv
<1>3. CASE ImportDrained
  <2>1. imp.pc = "wait" /\ UNCHANGED <<stage, past>>
    BY <1>3 DEF ImportDrained
  <2>2. PICK timedOut \in BOOLEAN :
            /\ imp'.pc = IF Drained(imp.waits, imp.prior, imp.zombies, timedOut)
                         THEN "lock" ELSE "end"
            /\ imp'.late = imp.late
    BY <1>3 DEF ImportDrained, TypeOK, ImpType
  <2>3. CASE imp'.pc = "end"
    BY <2>3 DEF WindowInv
  <2>4. CASE imp'.pc = "lock"
    <3>1. ~imp.zombies /\ \A q \in imp.waits \cup imp.prior : ~Busy(q)
      BY <2>2, <2>4 DEF Drained
    <3> QED BY <2>1, <2>2, <2>4, <3>1 DEF WindowInv, Busy
  <2> QED BY <2>2, <2>3, <2>4
<1>4. ASSUME NEW s \in Starters, StartOpen(s) PROVE WindowInv'
  BY <1>4, OpenFrame DEF WindowInv, AfterDrain
<1>5. CASE imp'.pc \notin AfterDrain
  BY <1>5 DEF WindowInv, AfterDrain
<1>6. CASE imp.pc \notin AfterDrain /\ imp'.pc = imp.pc
  BY <1>5, <1>6
<1>7. CASE ImportSteady \/ (StopDrain /\ UNCHANGED imp)
  BY <1>1, <1>6, <1>7 DEF ImportSteady
<1>8. CASE /\ imp.pc \in {"lock", "window"} /\ imp'.late = imp.late
           /\ \/ imp.pc = "lock" /\ imp'.pc = "window"
              \/ imp'.pc = "end"
  BY <1>1, <1>8 DEF AfterDrain
<1>9. \/ ImportSteady
      \/ StopDrain /\ UNCHANGED imp
      \/ \E s \in Starters : StartOpen(s)
      \/ ImportDrain \/ ImportDrained
      \/ imp.pc = "lock" /\ imp'.pc = "window" /\ imp'.late = imp.late
      \/ imp.pc = "window" /\ imp'.pc = "end" /\ imp'.late = imp.late
      \/ imp'.pc \notin AfterDrain
  BY ImportMoves
<1> QED BY <1>2, <1>3, <1>4, <1>5, <1>7, <1>8, <1>9

LEMMA BarrierStep ==
    ASSUME TypeOK, BarrierInv, [Next]_vars
    PROVE  BarrierInv'
<1> SUFFICES ASSUME NEW c \in Changers, Draining(c)', ~rule'[c].passed
             PROVE  c \in blocked'
  BY DEF BarrierInv, Draining
<1>1. ASSUME rule'[c].pc = rule[c].pc, rule'[c].passed = rule[c].passed,
             c \in blocked => c \in blocked'
      PROVE  c \in blocked'
  BY <1>1 DEF BarrierInv, Draining
<1>2. CASE UNCHANGED <<rule, blocked>>
  BY <1>1, <1>2
<1>3. CASE StopCompensation
  BY <1>1, <1>3, StopMoves DEF StopCompensation, NoChange, Draining
<1>4. CASE StopBlocks
  <2>1. rule'[c] # NoChange
    BY DEF NoChange, Draining
  <2>2. /\ rule'[c].pc = rule[c].pc
        /\ rule'[c].passed = (rule[c].passed \/ Draining(c))
    BY <1>4, <2>1, StopMoves
  <2>3. Draining(c)
    BY <2>2 DEF Draining
  <2> QED BY <2>2, <2>3
<1>5. ASSUME NEW d \in Changers \ {c}, NEW places, Moves(d, places)
      PROVE  c \in blocked'
  BY <1>1, <1>5 DEF Moves, Alone
<1>6. ASSUME NEW d \in Changers \ {c},
             \/ \E j \in Jobs : DisableRule(d, j) \/ DeleteRule(d, j)
             \/ BlockJobsForRule(d) \/ CancelJobsForRule(d)
      PROVE  c \in blocked'
  BY <1>1, <1>6, BeginMoves DEF Alone
<1>7. ASSUME NEW d \in Changers, CompensationEnqueue(d), rule' = Passing(d)
      PROVE  c \in blocked'
  <2>1. UNCHANGED blocked
    BY <1>7 DEF CompensationEnqueue
  <2>2. c # d
    BY <1>7, PassingMoves DEF Draining
  <2>3. rule'[c].pc = rule[c].pc /\ ~rule[c].passed
    BY <1>7, <2>2, PassingMoves
  <2> QED BY <2>1, <2>3 DEF BarrierInv, Draining
<1>8. CASE BlockJobsForRule(c)
  BY <1>8, BeginMoves
<1>9. CASE CancelJobsForRule(c)
  <2>1. rule[c].pc = "cancel" /\ ~rule[c].passed /\ UNCHANGED blocked
    BY <1>9, BeginMoves DEF Draining
  <2> QED BY <2>1 DEF BarrierInv, Draining
<1>10. CASE RuleWaited(c)
  <2>1. rule[c].pc = "wait" /\ rule'[c].pc = "delete" /\ rule'[c].passed = rule[c].passed
    BY <1>10, RequestMoves DEF Moves, Draining
  <2>2. ~Unblock(c) /\ ~Compensate(c)
    <3>1. ~Unblock(c)
      BY <2>1, UnblockIsMove DEF Moves
    <3>2. ~Compensate(c)
      BY <2>1, CompensateMoves DEF Moves
    <3> QED BY <3>1, <3>2
  <2>3. UNCHANGED blocked
    BY <1>10, <2>2 DEF RuleWaited
  <2> QED BY <2>1, <2>3 DEF BarrierInv, Draining
<1>11. ASSUME \/ \E j \in Jobs : DisableRule(c, j) \/ DeleteRule(c, j)
              \/ RuleDisabled(c) \/ RuleDeleted(c) \/ RuleDeleteFails(c)
              \/ CompensationWaited(c) \/ CompensationFails(c)
              \/ CompensationRequeue(c) \/ CompensationInFlight(c)
              \/ CompensationReserve(c) \/ CompensationRelease(c)
       PROVE  FALSE
  BY <1>11, RequestMoves, BeginMoves DEF Moves, Draining
<1>12. ASSUME NEW d \in Changers \ {c},
              \/ RuleDisabled(d) \/ RuleWaited(d) \/ RuleDeleted(d)
              \/ RuleDeleteFails(d) \/ CompensationWaited(d) \/ CompensationFails(d)
              \/ CompensationRequeue(d) \/ CompensationInFlight(d)
              \/ CompensationReserve(d) \/ CompensationRelease(d)
       PROVE  c \in blocked'
  BY <1>5, <1>12, RequestMoves
<1>13. ASSUME NEW d \in Changers, CompensationEnqueue(d), Moves(d, {"again", "release"})
       PROVE  c \in blocked'
  <2>1. c # d
    BY <1>13 DEF Moves, Draining
  <2> QED BY <1>5, <1>13, <2>1
<1> QED
  BY <1>2, <1>3, <1>4, <1>6, <1>7, <1>8, <1>9, <1>10, <1>11, <1>12, <1>13,
     RuleFrame, RequestMoves DEF RuleNext

\* How a request gets to its wait and to its deletion.
LEMMA WaitMoves ==
    ASSUME TypeOK, [Next]_vars, NEW c \in Changers, rule'[c].pc \in {"wait", "delete"}
    PROVE  \/ /\ rule'[c].pc = rule[c].pc /\ rule'[c].job = rule[c].job
              /\ rule'[c].waits = rule[c].waits
              /\ rule[c].passed => rule'[c].passed
           \/ CancelJobsForRule(c)
           \/ RuleWaited(c) /\ rule'[c].pc = "delete"
<1> DEFINE Kept == /\ rule'[c].pc = rule[c].pc /\ rule'[c].job = rule[c].job
                   /\ rule'[c].waits = rule[c].waits
                   /\ rule[c].passed => rule'[c].passed
<1>1. CASE UNCHANGED <<rule, blocked>>
  BY <1>1
<1>2. CASE StopCompensation \/ StopBlocks
  <2>1. rule'[c] # NoChange
    BY DEF NoChange
  <2> QED BY <1>2, <2>1, StopMoves
<1>3. ASSUME NEW d \in Changers \ {c}, Alone(d) PROVE Kept
  BY <1>3 DEF Alone
<1>4. ASSUME NEW d \in Changers \ {c},
             \/ \E j \in Jobs : DisableRule(d, j) \/ DeleteRule(d, j)
             \/ BlockJobsForRule(d) \/ CancelJobsForRule(d)
      PROVE  Kept
  BY <1>3, <1>4, BeginMoves
<1>5. ASSUME NEW d \in Changers \ {c},
             \/ RuleDisabled(d) \/ RuleWaited(d) \/ RuleDeleted(d)
             \/ RuleDeleteFails(d) \/ CompensationWaited(d) \/ CompensationFails(d)
             \/ CompensationRequeue(d) \/ CompensationInFlight(d)
             \/ CompensationReserve(d) \/ CompensationRelease(d)
      PROVE  Kept
  BY <1>3, <1>5, RequestMoves DEF Moves
<1>6. ASSUME NEW d \in Changers \ {c}, CompensationEnqueue(d) PROVE Kept
  <2>1. CASE rule' = Passing(d)
    BY <2>1, PassingMoves
  <2>2. CASE Moves(d, {"again", "release"})
    BY <1>3, <2>2 DEF Moves
  <2> QED BY <1>6, <2>1, <2>2, RequestMoves
<1>7. ASSUME \/ \E j \in Jobs : DisableRule(c, j) \/ DeleteRule(c, j)
             \/ BlockJobsForRule(c)
             \/ RuleDisabled(c) \/ RuleDeleted(c) \/ RuleDeleteFails(c)
             \/ CompensationWaited(c) \/ CompensationFails(c)
             \/ CompensationRequeue(c) \/ CompensationInFlight(c)
             \/ CompensationReserve(c) \/ CompensationRelease(c)
      PROVE  FALSE
  BY <1>7, RequestMoves, BeginMoves DEF Moves
<1>8. ASSUME CompensationEnqueue(c) PROVE FALSE
  <2>1. CASE rule' = Passing(c)
    BY <2>1, PassingMoves
  <2>2. CASE Moves(c, {"again", "release"})
    BY <2>2 DEF Moves
  <2> QED BY <1>8, <2>1, <2>2, RequestMoves
<1>9. CASE RuleWaited(c)
  BY <1>9, RequestMoves DEF Moves
<1> QED
  BY <1>1, <1>2, <1>4, <1>5, <1>6, <1>7, <1>8, <1>9, RuleFrame DEF RuleNext

\* Nothing is enqueued for a rule whose barrier is up and was not passed.
LEMMA BarrierHolds ==
    ASSUME TypeOK, JobInv, CallInv, BarrierInv, [Next]_vars, NEW c \in Changers,
           rule[c].pc \in {"wait", "delete"}, ~rule'[c].passed, ~rule[c].passed,
           rule'[c].pc \in {"wait", "delete"}
    PROVE  \A q \in Queues :
               /\ stage'[q][rule[c].job] # "none" => stage[q][rule[c].job] # "none"
               /\ stage'[q][rule[c].job] = "pending" =>
                     stage[q][rule[c].job] = "pending"
<1>0. rule[c].job \in Jobs /\ c \in blocked /\ Draining(c)
  BY DEF JobInv, BarrierInv, Draining
<1>1. CASE Shrinks
  BY <1>0, <1>1 DEF Shrinks
<1>2. CASE CallEnqueues
  <2>1. PICK e \in Enqueuers, p \in Providers :
            /\ EnqueueAdmitted(e) /\ EnqueueAdmissible(enq[e].job)
            /\ EnqueueResolved(enq[e].job, p)
    BY <1>2 DEF CallEnqueues
  <2>2. enq[e].job \in Jobs
    BY <2>1 DEF EnqueueAdmitted, CallInv
  <2>3. enq[e].job # rule[c].job
    BY <1>0, <2>1 DEF EnqueueAdmissible, IsRuleBlocked
  <2> QED BY <1>0, <2>1, <2>2, <2>3, ResolvedPlaces
<1>3. CASE CompensationEnqueues
  <2>1. PICK d \in Changers, p \in Providers :
            /\ CompensationEnqueue(d) /\ EnqueueResolved(rule[d].job, p)
            /\ rule' = Passing(d)
    BY <1>3 DEF CompensationEnqueues
  <2>2. rule[d].job \in Jobs /\ rule[d].pc = "enqueue"
    BY <2>1 DEF CompensationEnqueue, JobInv
  <2>3. c # d
    BY <2>2
  <2>4. rule'[c].passed = (rule[c].passed \/ (rule[c].job = rule[d].job /\ Draining(c)))
    BY <2>1, <2>3, PassingMoves
  <2>5. rule[c].job # rule[d].job
    BY <1>0, <2>4
  <2> QED BY <1>0, <2>1, <2>2, <2>5, ResolvedPlaces
<1>4. CASE Pruning \/ StopRetire \/ ImportDrained \/ \E j \in Jobs : ReleaseZombieJob(j)
  BY <1>4 DEF Pruning, StopRetire, ImportDrained, ReleaseZombieJob
<1>5. CASE StopDrain \/ ImportDrain
  BY <1>1, <1>5, StopQueuesShrinks DEF StopDrain, ImportDrain
<1> QED BY <1>1, <1>2, <1>3, <1>4, <1>5, MapMoves DEF Steady

LEMMA RuleDrainStep ==
    ASSUME TypeOK, JobInv, CallInv, PlaceInv, BarrierInv, RuleDrainInv, [Next]_vars
    PROVE  RuleDrainInv'
<1>0. past.missed \subseteq past'.missed
  BY MissedGrows
<1> SUFFICES ASSUME NEW c \in Changers, ~rule'[c].passed,
                    rule'[c].job \notin past'.missed,
                    rule'[c].pc \in {"wait", "delete"}
             PROVE  /\ rule'[c].pc = "wait" => \A q \in Queues :
                           /\ stage'[q][rule'[c].job] # "pending"
                           /\ stage'[q][rule'[c].job] # "none" => q \in rule'[c].waits
                    /\ rule'[c].pc = "delete" =>
                           \A q \in Queues : stage'[q][rule'[c].job] = "none"
  BY DEF RuleDrainInv
<1>1. CASE /\ rule'[c].pc = rule[c].pc /\ rule'[c].job = rule[c].job
           /\ rule'[c].waits = rule[c].waits
           /\ rule[c].passed => rule'[c].passed
  <2>1. ~rule[c].passed /\ rule[c].job \notin past.missed
    BY <1>0, <1>1
  <2>2. /\ rule[c].pc = "wait" => \A q \in Queues :
               /\ stage[q][rule[c].job] # "pending"
               /\ stage[q][rule[c].job] # "none" => q \in rule[c].waits
        /\ rule[c].pc = "delete" => \A q \in Queues : stage[q][rule[c].job] = "none"
    BY <2>1 DEF RuleDrainInv
  <2>3. \A q \in Queues :
            /\ stage'[q][rule[c].job] # "none" => stage[q][rule[c].job] # "none"
            /\ stage'[q][rule[c].job] = "pending" => stage[q][rule[c].job] = "pending"
    BY <1>1, <2>1, BarrierHolds
  <2> QED BY <1>1, <2>2, <2>3
<1>2. CASE CancelJobsForRule(c)
  <2> DEFINE j == rule[c].job
  <2>1. /\ rule'[c].pc = "wait" /\ rule'[c].job = j /\ rule'[c].waits = Awaited(j)
        /\ j \notin Unseen /\ rule[c].pc = "cancel"
    BY <1>2, BeginMoves
  <2>2. j \in Jobs /\ j \notin past.missed
    BY <1>0, <2>1 DEF JobInv
  <2>3. ASSUME NEW q \in Queues, stage'[q][j] # "none"
        PROVE  q \in Awaited(j) /\ stage'[q][j] # "pending"
    <3>1. stage'[q][j] = IF q \in Mapped /\ stage[q][j] = "pending" THEN "none"
                         ELSE stage[q][j]
      BY <1>2, <2>2 DEF CancelJobsForRule, CollectCancellation, TypeOK
    <3>2. stage[q][j] # "none" /\ ~(q \in Mapped /\ stage[q][j] = "pending")
      BY <2>3, <3>1
    <3>3. stage[q][j] # "pending"
      BY <2>2, <3>2, QueueAssumption DEF PlaceInv, Mapped
    <3>4. stage[q][j] \in Executing
      BY <2>2, <3>2, <3>3 DEF TypeOK, Stages, Executing
    <3>5. q \notin stop.waits \cup imp.waits
      BY <2>1, <2>2, <3>2 DEF Unseen
    <3>6. Known(q, j)
      BY <2>2, <3>2 DEF PlaceInv
    <3>7. q \in Mapped \cup retired \/ zombies[j] = q
      BY <3>5, <3>6, QueueAssumption DEF Known, Mapped
    <3> QED BY <3>1, <3>3, <3>4, <3>7, QueueAssumption DEF Awaited
  <2> QED BY <2>1, <2>3
<1>3. CASE RuleWaited(c) /\ rule'[c].pc = "delete"
  <2>1. /\ rule[c].pc = "wait" /\ rule'[c].job = rule[c].job
        /\ rule'[c].passed = rule[c].passed
    BY <1>3, RequestMoves DEF Moves
  <2>2. ~Unblock(c) /\ ~Compensate(c)
    <3>1. ~Unblock(c)
      BY <1>3, UnblockIsMove DEF Moves
    <3>2. ~Compensate(c)
      BY <1>3, CompensateMoves DEF Moves
    <3> QED BY <3>1, <3>2
  <2>3. AllLeft(c) /\ UNCHANGED stage
    BY <1>3, <2>2 DEF RuleWaited, TypeOK, RuleType
  <2>4. rule[c].job \in Jobs /\ rule[c].job \notin past.missed /\ ~rule[c].passed
    BY <1>0, <2>1 DEF JobInv
  <2>5. ASSUME NEW q \in Queues PROVE stage[q][rule[c].job] = "none"
    <3>1. /\ stage[q][rule[c].job] # "pending"
          /\ stage[q][rule[c].job] # "none" => q \in rule[c].waits
      BY <2>1, <2>4 DEF RuleDrainInv
    <3> QED BY <2>3, <2>4, <3>1 DEF AllLeft, Executing, TypeOK, Stages
  <2> QED BY <1>3, <2>1, <2>3, <2>5
<1> QED BY <1>1, <1>2, <1>3, WaitMoves

-----------------------------------------------------------------------------
(***************************************************************************)
(* The refinement: Dispatch begins an issuance, the four ways an execution *)
(* can end end it, the transaction of an import is the window; a check that*)
(* overlooks an execution gives its job up, a start that opens the queue   *)
(* behind the drain breaches the import.                                   *)
(***************************************************************************)

Issuing(j) == {q \in Queues : stage[q][j] = "running"}
Window     == imp.pc = "window"
SameGate   == /\ \A j \in Jobs : Issuing(j)' = Issuing(j)
              /\ Window' = Window

LEMMA GateFrame ==
    ASSUME SameGate, past'.missed = past.missed, imp'.late = imp.late
    PROVE  UNCHANGED Gate!gateVars
BY DEF Gate!gateVars, Issuing, Window, SameGate

LEMMA GateOverlooks ==
    ASSUME SameGate, imp'.late = imp.late, NEW js \in SUBSET Jobs,
           past'.missed = past.missed \cup js
    PROVE  Gate!Next
<1>1. Gate!Overlook(js)
  BY DEF Gate!Overlook, Issuing, Window, SameGate
<1> QED BY <1>1 DEF Gate!Next

LEMMA GateEnds ==
    ASSUME TypeOK, NEW q \in Queues, NEW j \in Jobs, stage[q][j] = "running",
           Leaves(q, j), UNCHANGED <<imp, past>>
    PROVE  Gate!Next
<1>1. /\ \A k \in Jobs : Issuing(k)' = IF k = j THEN Issuing(j) \ {q} ELSE Issuing(k)
      /\ q \in Issuing(j)
  BY DEF Leaves, TypeOK, Issuing
<1>2. Gate!End(j, q)
  BY <1>1 DEF Gate!End, Issuing
<1> QED BY <1>2 DEF Gate!Next

LEMMA ResolvedIssuing ==
    ASSUME TypeOK, NEW j \in Jobs, NEW p \in Providers, EnqueueResolved(j, p)
    PROVE  \A k \in Jobs : Issuing(k)' = Issuing(k)
BY ResolvedPlaces DEF Issuing

LEMMA GateStep ==
    ASSUME TypeOK, JobInv, CallInv, UniqueInv, CloseInv, WindowInv, [Next]_vars
    PROVE  [Gate!Next]_(Gate!gateVars)
<1>1. ASSUME UNCHANGED <<stage, imp, past>>
      PROVE  [Gate!Next]_(Gate!gateVars)
  BY GateFrame, <1>1 DEF SameGate, Issuing, Window
<1>2. CASE EnqueueNext
  <2>1. ASSUME NEW e \in Enqueuers, NEW j \in Jobs, Enqueue(e, j)
        PROVE  UNCHANGED <<stage, imp, past>>
    BY <2>1 DEF Enqueue, manager
  <2>2. ASSUME NEW e \in Enqueuers, Transition(e) \/ ResolveFails(e) \/ Release(e)
        PROVE  UNCHANGED <<stage, imp, past>>
    BY <2>2 DEF Transition, ResolveFails, Release, manager
  <2>3. ASSUME NEW e \in Enqueuers, Reserve(e)
        PROVE  [Gate!Next]_(Gate!gateVars)
    <3>1. UNCHANGED <<stage, imp>>
      BY <2>3 DEF Reserve
    <3>2. \/ UNCHANGED past
          \/ past'.missed = past.missed \cup (Unseen \cap {Guarded(e)})
      BY <2>3 DEF Reserve, Overlook, TypeOK, PastType
    <3>3. Unseen \cap {Guarded(e)} \in SUBSET Jobs
      BY DEF Unseen
    <3> QED BY <1>1, <3>1, <3>2, <3>3, GateOverlooks DEF SameGate, Issuing, Window
  <2>4. ASSUME NEW e \in Enqueuers, EnqueueAdmitted(e)
        PROVE  [Gate!Next]_(Gate!gateVars)
    <3>1. UNCHANGED <<imp, past>>
      BY <2>4 DEF EnqueueAdmitted
    <3>2. ASSUME NEW p \in Providers, EnqueueResolved(enq[e].job, p)
          PROVE  [Gate!Next]_(Gate!gateVars)
      <4>1. enq[e].job \in Jobs
        BY <2>4 DEF EnqueueAdmitted, CallInv
      <4>2. SameGate
        BY <3>1, <3>2, <4>1, ResolvedIssuing DEF SameGate, Window
      <4> QED BY <3>1, <4>2, GateFrame
    <3>3. UNCHANGED stage \/ \E p \in Providers : EnqueueResolved(enq[e].job, p)
      BY <2>4 DEF EnqueueAdmitted
    <3> QED BY <1>1, <3>1, <3>2, <3>3
  <2> QED BY <1>1, <1>2, <2>1, <2>2, <2>3, <2>4 DEF EnqueueNext
<1>3. CASE ExecutionNext
  <2>1. ASSUME NEW q \in Queues, NEW j \in Jobs, Dispatch(q, j)
        PROVE  [Gate!Next]_(Gate!gateVars)
    <3>0. stage[q][j] = "pending" /\ q \in Mapped /\ UNCHANGED <<imp, past>>
      BY <2>1 DEF Dispatch, procs
    <3>1. \A k \in Jobs : Issuing(k)' = IF k = j THEN Issuing(j) \cup {q} ELSE Issuing(k)
      BY <2>1 DEF Dispatch, TypeOK, Issuing
    <3>2. Issuing(j) = {} \/ j \in past.missed
      BY <3>0 DEF Issuing, UniqueInv
    <3>3. ~Window \/ imp.late
      BY <3>0 DEF Window, Mapped, CloseInv, AfterDrain
    <3>4. Gate!Begin(j, q)
      BY <3>0, <3>1, <3>2, <3>3 DEF Gate!Begin, Issuing, Window
    <3> QED BY <3>4 DEF Gate!Next
  <2>2. ASSUME NEW q \in Queues, NEW j \in Jobs,
               Deployed(q, j) \/ DeployFails(q, j) \/ Fails(q, j) \/ Cancelled(q, j)
        PROVE  Gate!Next
    <3>1. stage[q][j] = "running" /\ Leaves(q, j) /\ UNCHANGED <<imp, past>>
      BY <2>2 DEF Deployed, DeployFails, Fails, Cancelled, procs
    <3> QED BY <3>1, GateEnds
  <2>3. ASSUME NEW q \in Queues, NEW j \in Jobs, Leave(q, j) PROVE UNCHANGED Gate!gateVars
    <3>1. \A k \in Jobs : Issuing(k)' = Issuing(k)
      BY <2>3 DEF Leave, TypeOK, Issuing
    <3>2. UNCHANGED <<imp, past>>
      BY <2>3 DEF Leave, procs
    <3> QED BY <3>1, <3>2, GateFrame DEF SameGate, Window
  <2>4. ASSUME NEW q \in Queues, DispatchUnavailable(q) PROVE UNCHANGED Gate!gateVars
    <3>1. \A k \in Jobs : Issuing(k)' = Issuing(k)
      BY <2>4 DEF DispatchUnavailable, TypeOK, Issuing
    <3>2. UNCHANGED <<imp, past>>
      BY <2>4 DEF DispatchUnavailable
    <3> QED BY <3>1, <3>2, GateFrame DEF SameGate, Window
  <2>5. ASSUME NEW q \in Queues, NEW j \in Jobs, Progress(q, j)
        PROVE  UNCHANGED <<stage, imp, past>>
    BY <2>5 DEF Progress, procs, manager
  <2>6. ASSUME NEW j \in Jobs, FailPending(j) \/ ReleaseZombieJob(j)
        PROVE  UNCHANGED <<stage, imp, past>>
    BY <2>6 DEF FailPending, ReleaseZombieJob, procs
  <2> QED
    BY <1>1, <1>3, <2>1, <2>2, <2>3, <2>4, <2>5, <2>6 DEF ExecutionNext
<1>4. CASE LifecycleNext
  <2>1. CASE Launch \/ LaunchCheck \/ LaunchDefer \/ LaunchRecheck
    BY <1>1, <2>1 DEF Launch, LaunchCheck, LaunchDefer, LaunchRecheck, manager
  <2>2. CASE Exit \/ Undefer \/ Detach \/ DetachTimesOut \/ StopWaited
    BY <1>1, <2>2 DEF Exit, Undefer, Detach, DetachTimesOut, StopWaited, manager
  <2>3. ASSUME NEW s \in Starters,
               \/ StartOps(s) \/ StartRefused(s) \/ StartWaited(s) \/ StartCheck(s)
               \/ StartDefer(s) \/ StartRecheck(s)
        PROVE  UNCHANGED <<stage, imp, past>>
    BY <2>3 DEF StartOps, StartRefused, StartWaited, StartCheck, StartDefer,
         StartRecheck, manager
  <2>4. ASSUME NEW s \in Starters, StartOpen(s)
        PROVE  [Gate!Next]_(Gate!gateVars)
    <3>1. UNCHANGED stage /\ past'.missed = past.missed /\ imp'.pc = imp.pc
      BY <2>4, OpenFrame DEF StartOpen, TypeOK, PastType
    <3>2. imp'.late = imp.late \/ imp'.late = TRUE
      BY <2>4, OpenFrame DEF TypeOK, ImpType
    <3>3. CASE imp'.late = imp.late
      BY <3>1, <3>3, GateFrame DEF SameGate, Issuing, Window
    <3>4. CASE imp'.late = TRUE
      <4>1. Gate!Breach
        BY <3>1, <3>4 DEF Gate!Breach
      <4> QED BY <4>1 DEF Gate!Next
    <3> QED BY <3>2, <3>3, <3>4
  <2>5. CASE StopCompensation \/ StopBlocks \/ StopRetire \/ StopClear
    BY <1>1, <2>5 DEF StopCompensation, StopBlocks, StopRetire, StopClear, manager
  <2>6. CASE StopDrain
    BY <2>6, StopQueuesShrinks, GateFrame DEF StopDrain, SameGate, Issuing, Window
  <2> QED BY <1>1, <1>4, <2>1, <2>2, <2>3, <2>4, <2>5, <2>6 DEF LifecycleNext
<1>5. CASE ImportNext
  <2>1. ASSUME UNCHANGED stage, past'.missed = past.missed, imp'.late = imp.late,
               imp.pc # "window", imp'.pc # "window"
        PROVE  [Gate!Next]_(Gate!gateVars)
    BY <2>1, GateFrame DEF SameGate, Issuing, Window
  <2>2. CASE ImportSample \/ BeginConfigImportHold
    BY <2>1, <2>2 DEF ImportSample, BeginConfigImportHold, manager, TypeOK, ImpType
  <2>3. CASE ImportDrain
    <3>1. SameGate
      BY <2>3, StopQueuesShrinks DEF ImportDrain, SameGate, Issuing, Window, TypeOK, ImpType
    <3>2. imp'.late = imp.late /\ past'.missed = past.missed \cup Unseen
      BY <2>3 DEF ImportDrain, TypeOK, ImpType
    <3>3. Unseen \in SUBSET Jobs
      BY DEF Unseen
    <3> QED BY <3>1, <3>2, <3>3, GateOverlooks
  <2>4. CASE ImportDrained
    BY <2>1, <2>4 DEF ImportDrained, TypeOK, ImpType
  <2>5. CASE ImportLock
    <3>1. /\ imp.pc = "lock" /\ imp'.pc = "window" /\ imp'.late = imp.late
          /\ UNCHANGED <<stage, past>>
      BY <2>5 DEF ImportLock, TypeOK, ImpType, manager
    <3>2. imp.late \/ \A j \in Jobs \ past.missed : Issuing(j) = {}
      BY <3>1 DEF Issuing, WindowInv
    <3>3. Gate!OpenWindow
      BY <3>1, <3>2 DEF Gate!OpenWindow, Issuing
    <3> QED BY <3>3 DEF Gate!Next
  <2>6. CASE ImportCommit
    <3>1. /\ imp.pc = "window" /\ imp'.pc = "end" /\ imp'.late = imp.late
          /\ UNCHANGED <<stage, past>>
      BY <2>6 DEF ImportCommit, TypeOK, ImpType, manager
    <3>2. Gate!CloseWindow
      BY <3>1 DEF Gate!CloseWindow
    <3> QED BY <3>2 DEF Gate!Next
  <2>7. CASE EndConfigImportHold
    <3>1. /\ imp.pc = "end" /\ imp'.pc = "open" /\ imp'.late = FALSE
          /\ UNCHANGED <<stage, past>>
      BY <2>7 DEF EndConfigImportHold, TypeOK, ImpType, manager
    <3>2. Gate!Mend
      BY <3>1 DEF Gate!Mend
    <3> QED BY <3>2 DEF Gate!Next
  <2>8. CASE ImportOpen
    BY <2>1, <2>8 DEF ImportOpen, TypeOK, ImpType, PastType
  <2>9. CASE ImportResume
    BY <2>1, <2>9 DEF ImportResume, TypeOK, ImpType, PastType
  <2>10. CASE ImportScan
    BY <2>1, <2>10 DEF ImportScan, TypeOK, ImpType, manager
  <2>11. CASE ImportRequeue
    <3>1. imp.pc = "requeue" /\ UNCHANGED <<stage, past>>
      BY <2>11 DEF ImportRequeue, manager
    <3>2. CASE imp' = [imp EXCEPT !.pc = "idle"]
      BY <2>1, <3>1, <3>2 DEF TypeOK, ImpType
    <3>3. ASSUME NEW t \in imp.todo, imp' = [imp EXCEPT !.todo = imp.todo \ {t}]
          PROVE  [Gate!Next]_(Gate!gateVars)
      BY <2>1, <3>1, <3>3 DEF TypeOK, ImpType
    <3> QED BY <2>11, <3>2, <3>3 DEF ImportRequeue
  <2> QED
    BY <1>5, <2>2, <2>3, <2>4, <2>5, <2>6, <2>7, <2>8, <2>9, <2>10, <2>11
    DEF ImportNext
<1>6. CASE RuleNext
  <2>1. ASSUME NEW c \in Changers, NEW j \in Jobs, DisableRule(c, j) \/ DeleteRule(c, j)
        PROVE  UNCHANGED <<stage, imp, past>>
    BY <2>1 DEF DisableRule, DeleteRule, manager
  <2>2. ASSUME NEW c \in Changers,
               \/ RuleDisabled(c) \/ BlockJobsForRule(c) \/ RuleWaited(c)
               \/ RuleDeleted(c) \/ RuleDeleteFails(c) \/ CompensationWaited(c)
               \/ CompensationFails(c) \/ CompensationRequeue(c)
               \/ CompensationInFlight(c) \/ CompensationRelease(c)
        PROVE  UNCHANGED <<stage, imp, past>>
    BY <2>2 DEF RuleDisabled, BlockJobsForRule, RuleWaited, RuleDeleted,
         RuleDeleteFails, CompensationWaited, CompensationFails, CompensationRequeue,
         CompensationInFlight, CompensationRelease, manager
  <2>3. ASSUME NEW c \in Changers, CancelJobsForRule(c) PROVE UNCHANGED Gate!gateVars
    <3>1. rule[c].job \in Jobs /\ UNCHANGED <<imp, past>>
      BY <2>3 DEF CancelJobsForRule, JobInv
    <3> QED BY <2>3, <3>1, CancelShrinks, GateFrame DEF SameGate, Issuing, Window
  <2>4. ASSUME NEW c \in Changers, CompensationReserve(c)
        PROVE  [Gate!Next]_(Gate!gateVars)
    <3> DEFINE js == {k \in {rule[c].job} : IsJobActive(k) \/ k \in Unseen}
    <3>1. UNCHANGED <<stage, imp>> /\ rule[c].job \in Jobs
      BY <2>4 DEF CompensationReserve, JobInv
    <3>2. UNCHANGED past \/ past'.missed = past.missed \cup js
      BY <2>4 DEF CompensationReserve, Overlook, TypeOK, PastType
    <3>3. js \in SUBSET Jobs
      BY <3>1
    <3> HIDE DEF js
    <3> QED BY <1>1, <3>1, <3>2, <3>3, GateOverlooks DEF SameGate, Issuing, Window
  <2>5. ASSUME NEW c \in Changers, CompensationEnqueue(c)
        PROVE  [Gate!Next]_(Gate!gateVars)
    <3>1. UNCHANGED <<imp, past>> /\ rule[c].job \in Jobs
      BY <2>5 DEF CompensationEnqueue, JobInv
    <3>2. ASSUME NEW p \in Providers, EnqueueResolved(rule[c].job, p)
          PROVE  [Gate!Next]_(Gate!gateVars)
      <4>1. SameGate
        BY <3>1, <3>2, ResolvedIssuing DEF SameGate, Window
      <4> QED BY <3>1, <4>1, GateFrame
    <3>3. UNCHANGED stage \/ \E p \in Providers : EnqueueResolved(rule[c].job, p)
      BY <2>5 DEF CompensationEnqueue
    <3> QED BY <1>1, <3>1, <3>2, <3>3
  <2> QED BY <1>1, <1>6, <2>1, <2>2, <2>3, <2>4, <2>5 DEF RuleNext
<1>7. CASE UNCHANGED vars
  BY <1>1, <1>7 DEF vars, manager, procs
<1> QED BY <1>2, <1>3, <1>4, <1>5, <1>6, <1>7 DEF Next

-----------------------------------------------------------------------------
LEMMA InitJobs == Init => JobsInv
<1> SUFFICES ASSUME Init PROVE JobsInv
  OBVIOUS
<1>1. DrainInv /\ CallInv /\ PlaceInv /\ UniqueInv
  BY DEF Init, DrainInv, CallInv, PlaceInv, UniqueInv, Idle
<1>2. ReserveInv /\ FreeInv
  BY DEF Init, ReserveInv, FreeInv, Holds, Keeps, Idle, NoChange
<1>3. CloseInv /\ WindowInv /\ BarrierInv /\ RuleDrainInv
  BY DEF Init, CloseInv, WindowInv, BarrierInv, RuleDrainInv, AfterDrain, Draining,
     NoChange
<1> QED BY <1>1, <1>2, <1>3 DEF JobsInv

\* Both invariants hold of every behaviour of the certificate queue with its
\* lifecycle, imports, callers and rule changes, however these overlap.
THEOREM QueueInvariant == ASSUME ByName PROVE Spec => [](LifeInv /\ JobsInv)
<1>1. LifeInv /\ JobsInv /\ [Next]_vars => JobsInv'
  <2> SUFFICES ASSUME LifeInv, JobsInv, [Next]_vars PROVE JobsInv'
    OBVIOUS
  <2>0. /\ TypeOK /\ JobInv /\ DrainInv /\ CallInv /\ PlaceInv /\ UniqueInv
        /\ ReserveInv /\ FreeInv /\ CloseInv /\ WindowInv /\ BarrierInv
        /\ RuleDrainInv
    BY DEF LifeInv, JobsInv
  <2>1. DrainInv'      BY <2>0, DrainStep
  <2>2. CallInv'       BY <2>0, CallStep
  <2>3. PlaceInv'      BY <2>0, PlaceStep
  <2>4. UniqueInv'     BY <2>0, UniqueStep
  <2>5. ReserveInv'    BY <2>0, ReserveStep
  <2>6. FreeInv'       BY <2>0, FreeStep
  <2>7. CloseInv'      BY <2>0, CloseStep
  <2>8. WindowInv'     BY <2>0, WindowStep
  <2>9. BarrierInv'    BY <2>0, BarrierStep
  <2>10. RuleDrainInv' BY <2>0, RuleDrainStep
  <2> QED
    BY <2>1, <2>2, <2>3, <2>4, <2>5, <2>6, <2>7, <2>8, <2>9, <2>10 DEF JobsInv
<1> QED BY <1>1, InitLife, InitJobs, LifeStep, PTL DEF Spec

\* No certificate job is ever executed by two queues at once, for any number of
\* pauses, retirements, retries, imports and rule changes and all their overlaps,
\* unless a check has overlooked its execution, as SingleExecution says.
THEOREM JobsExecuteOnce == ASSUME ByName PROVE Spec => []SingleExecution
<1>1. JobsInv => SingleExecution
  BY DEF JobsInv, UniqueInv, SingleExecution
<1> QED BY <1>1, QueueInvariant, PTL

\* While an import replaces the rows the queue is closed and empty and no
\* execution writes, although the lifecycle may stop and start meanwhile; unless
\* a start opened it behind the drain or the drain overlooked the execution.
THEOREM ImportsAreIsolated == ASSUME ByName PROVE Spec => []ImportIsolated
<1>1. JobsInv => ImportIsolated
  <2> SUFFICES ASSUME JobsInv, imp.pc = "window", ~imp.late
               PROVE  /\ ~active
                      /\ \A q \in Queues, j \in Jobs : stage[q][j] # "pending"
                      /\ \A q \in Queues, j \in Jobs \ past.missed :
                             stage[q][j] # "running"
    BY DEF ImportIsolated
  <2>1. ~active /\ \A p \in Providers : queueOf[p] = None
    BY DEF JobsInv, CloseInv, AfterDrain
  <2>2. ASSUME NEW q \in Queues, NEW j \in Jobs, stage[q][j] = "pending" PROVE FALSE
    <3>1. \E p \in Providers : queueOf[p] = q
      BY <2>2 DEF JobsInv, PlaceInv
    <3> QED BY <2>1, <3>1, QueueAssumption
  <2>3. \A q \in Queues, j \in Jobs \ past.missed : stage[q][j] # "running"
    BY DEF JobsInv, WindowInv
  <2> QED BY <2>1, <2>2, <2>3
<1> QED BY <1>1, QueueInvariant, PTL

\* A rule is deleted only when no execution works for it any more, whichever
\* queue, retired queue or forgotten queue it was in, with the exceptions that
\* RuleDrained states.
THEOREM RulesAreDrained == ASSUME ByName PROVE Spec => []RuleDrained
<1>1. JobsInv => RuleDrained
  BY DEF JobsInv, RuleDrainInv, RuleDrained
<1> QED BY <1>1, QueueInvariant, PTL

\* The queue implements the gate its users rely on: at most one issuance of a
\* job, none in the window of an import, but for what the gate announces.
THEOREM QueueImplementsGate == ASSUME ByName PROVE Spec => GateKept
<1>1. Init => Gate!Init
  BY DEF Init, Gate!Init
<1>2. LifeInv /\ JobsInv /\ [Next]_vars => [Gate!Next]_(Gate!gateVars)
  BY GateStep DEF LifeInv, JobsInv
<1> QED BY <1>1, <1>2, QueueInvariant, PTL DEF Spec, GateKept, Gate!Spec
=============================================================================
