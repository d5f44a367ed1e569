------------------------------ MODULE CAQueue ------------------------------
(***************************************************************************)
(* The certificate queue manager (internal/services/caqueue.go) with       *)
(* everybody who opens, closes and fills it:                               *)
(*                                                                         *)
(*   - the resident task cert-issuance, whose Run starts the lifecycle     *)
(*     (StartACME), pumps the queues and stops the lifecycle (StopACME);   *)
(*   - a configuration import, which raises the hold, drains the queues,   *)
(*     replaces the rows and gives everything back (finish);               *)
(*   - callers of EnqueueIfActive: scans, retries, renewals, creations;    *)
(*   - rules that are disabled or deleted, with the compensation of a      *)
(*     deletion that could not be carried out;                             *)
(*   - the executions themselves, which may ignore their cancelled context.*)
(*                                                                         *)
(* A critical section of m.mu (or of the hold's lock) is one step; so is a *)
(* row update, which the code guards with WHERE status IN (...).  Waits    *)
(* with a deadline end when what they wait for ends, or time out.          *)
(* One rule has one job, so that a rule is named by its job.               *)
(*                                                                         *)
(* The drains of PauseAndDrain have a gap: a queue that is taken out of    *)
(* m.queues becomes a retired queue only after the wait, and nobody who    *)
(* looks for executions in between finds the ones it has.  The history     *)
(* past, imp.late and rule.passed record when such a gap, or a check that  *)
(* was overtaken, was really met; the properties name them as their only   *)
(* exceptions.                                                             *)
(***************************************************************************)
EXTENDS Naturals, FiniteSets

CONSTANTS Jobs,       \* rows of cert_jobs
          NewJob,     \* the job id 0 that a creation passes to EnqueueIfActive
          Providers,  \* rows of ca_providers
          Queues,     \* caQueue objects, reused once nothing refers to them
          None,       \* no queue
          Callers,    \* goroutines that enqueue
          Kinds,      \* what they do: "scan", "retry", "create"
          Changers,   \* requests that disable or delete a rule
          MaxConcurrent, \* provider.MaxConcurrent
          MaxCalls, MaxStarts, MaxImports, MaxRules, \* bounds of a run,
          MaxOps                 \* and of calls, imports and rule changes together

ASSUME QueueAssumption ==
    /\ NewJob \notin Jobs /\ None \notin Queues
    /\ Kinds \subseteq {"scan", "retry", "create"}
    /\ MaxConcurrent \in Nat \ {0}
    /\ {MaxCalls, MaxStarts, MaxImports, MaxRules, MaxOps} \subseteq Nat
    /\ "import" \notin Callers

VARIABLES
    active,     \* CAQueueManager.active
    queueOf,    \* m.queues, by provider
    stage,      \* per queue and job: pending item, execution, or "none"
    stopped,    \* queues whose ctx is cancelled (caQueue.stopping)
    cancelled,  \* executions whose own ctx was cancelled
    retired,    \* m.retiredQueues
    zombies,    \* m.zombieJobs: the queue whose execution is waited for
    reserved,   \* m.reservedJobs
    blocked,    \* m.blockedRules: the requests whose token is in it
    compAlive,  \* m.compensationCtx is not cancelled
    row,        \* cert_jobs.status
    hold,       \* configImportHold and certIssuanceStartDeferred
    acme,       \* runtimeLifecycle: certService # nil, acmeOps, start calls
    daemon,     \* where the Run of cert-issuance is
    failing,    \* items its pump took from a queue whose provider is gone
    stop,       \* the goroutine of stopACMEWithin that runs queue.Stop
    imp,        \* the import session
    rule,       \* per request, the rule being disabled or deleted
    enq,        \* calls of EnqueueIfActive under way
    used,       \* bounds: calls, starts, imports and rule changes so far
    past        \* history: what the checks have overlooked

manager == <<active, queueOf, stage, stopped, cancelled, retired, zombies,
             reserved, blocked, compAlive>>
procs   == <<acme, daemon, failing, stop, imp, rule, enq>>
vars    == <<manager, row, hold, procs, used, past>>

Status      == {"none", "queued", "creating", "downloaded", "issued", "failed",
                "disabled"}
NonTerminal == {"queued", "creating", "downloaded"}
Stages      == {"none", "pending", "running", "leaving"}
Executing   == {"running", "leaving"}
Starters    == {"daemon", "import"}
Enqueuers   == Callers \cup {"import"}

HoldType == [depth : 0..1, pendingStart : BOOLEAN, certDeferred : BOOLEAN]

AcmeType == [worker : BOOLEAN, ops : Starters \cup {"free"},
             call : [Starters -> {"idle", "ops", "wait", "check", "defer",
                                  "recheck", "open"}],
             refused : BOOLEAN]

StopType == [pc : {"idle", "compensation", "blocks", "drain", "wait", "clear"},
             waits : SUBSET Queues]

ImpType == [pc : {"idle", "begin", "drain", "wait", "lock", "window", "end",
                  "open", "start", "scan", "requeue"},
            was : BOOLEAN, waits : SUBSET Queues, prior : SUBSET Queues,
            zombies : BOOLEAN, pending : BOOLEAN, cert : BOOLEAN,
            late : BOOLEAN,  \* history: a start has opened the drained queue
            todo : SUBSET (Jobs \X Status)]

RulePcs == {"idle", "disable", "block", "cancel", "wait", "delete", "drain",
            "drainWait", "requeue", "inFlight", "reserve", "enqueue", "release",
            "again", "abandoned"}

RuleType == [pc : RulePcs,
             op : {"disable", "delete"}, job : Jobs \cup {NewJob},
             waits : SUBSET Queues,
             snap : Status,     \* the row's status in the snapshot of DeleteRule
             doomed : BOOLEAN,  \* the ctx of its compensation is cancelled
             passed : BOOLEAN]  \* history: its barrier or drain was passed

CallType == [pc : {"idle", "reserve", "transition", "enqueue", "release"},
             kind : {"scan", "retry", "create"},
             job : Jobs \cup {NewJob}, seen : Status]

UsedType == [calls : 0..MaxCalls, starts : 0..MaxStarts, imports : 0..MaxImports,
             rules : 0..MaxRules]

PastType == [missed : SUBSET Jobs,  \* jobs whose execution a check overlooked
             closed : BOOLEAN]      \* an import has closed what it saw closed

\* Every variable has its type; hold.depth is never more than one, so holds
\* of two imports never add up.
TypeOK ==
    /\ active \in BOOLEAN /\ compAlive \in BOOLEAN
    /\ queueOf \in [Providers -> Queues \cup {None}]
    /\ stage \in [Queues -> [Jobs -> Stages]]
    /\ stopped \subseteq Queues /\ retired \subseteq Queues
    /\ cancelled \subseteq Queues \X Jobs
    /\ zombies \in [Jobs -> Queues \cup {None}]
    /\ reserved \subseteq Jobs \cup {NewJob} /\ blocked \subseteq Changers
    /\ row \in [Jobs -> Status]
    /\ hold \in HoldType /\ acme \in AcmeType
    /\ daemon \in {"off", "check", "defer", "recheck", "pump", "undefer",
                   "detach", "stopWait"}
    /\ failing \subseteq Jobs
    /\ stop \in StopType /\ imp \in ImpType /\ rule \in [Changers -> RuleType]
    /\ enq \in [Enqueuers -> CallType]
    /\ used \in UsedType /\ past \in PastType

Idle == [pc |-> "idle", kind |-> "scan", job |-> NewJob, seen |-> "none"]

NoChange == [pc |-> "idle", op |-> "disable", job |-> NewJob, waits |-> {},
             snap |-> "none", doomed |-> FALSE, passed |-> FALSE]

Init ==
    /\ active = FALSE /\ compAlive = TRUE
    /\ queueOf = [p \in Providers |-> None]
    /\ stage = [q \in Queues |-> [j \in Jobs |-> "none"]]
    /\ stopped = {} /\ cancelled = {} /\ retired = {} /\ reserved = {}
    /\ blocked = {}
    /\ zombies = [j \in Jobs |-> None]
    /\ row = [j \in Jobs |-> "queued"]
    /\ hold = [depth |-> 0, pendingStart |-> FALSE, certDeferred |-> FALSE]
    /\ acme = [worker |-> FALSE, ops |-> "free",
               call |-> [s \in Starters |-> "idle"], refused |-> FALSE]
    /\ daemon = "off" /\ failing = {}
    /\ stop = [pc |-> "idle", waits |-> {}]
    /\ imp = [pc |-> "idle", was |-> FALSE, waits |-> {}, prior |-> {},
              zombies |-> FALSE, pending |-> FALSE, cert |-> FALSE, late |-> FALSE,
              todo |-> {}]
    /\ rule = [c \in Changers |-> NoChange]
    /\ enq = [e \in Enqueuers |-> Idle]
    /\ used = [calls |-> 0, starts |-> 0, imports |-> 0, rules |-> 0]
    /\ past = [missed |-> {}, closed |-> FALSE]

-----------------------------------------------------------------------------
(***************************************************************************)
(* What the manager's own maps say.                                        *)
(***************************************************************************)

Mapped == {queueOf[p] : p \in Providers} \ {None}

\* A queue object nothing refers to any more; newCAQueue makes such a one.
Unused(q) ==
    /\ q \notin Mapped \cup retired \cup stop.waits \cup imp.waits \cup imp.prior
    /\ \A c \in Changers : q \notin rule[c].waits
    /\ \A j \in Jobs : stage[q][j] = "none" /\ zombies[j] # q

Busy(q) == \E j \in Jobs : stage[q][j] # "none"

\* isJobActiveLocked answers from the zombies, the reservations and the
\* current queues before it looks at the retired queues and prunes them.
KnownEarly(id) ==
    \/ id \in reserved
    \/ id \in Jobs /\ (zombies[id] # None
                        \/ \E q \in Mapped : stage[q][id] # "none")

\* Defective: the retired queues are not looked at.
IsJobActive_RetiredForgotten(id) == KnownEarly(id)

IsJobActive(id) ==
    \/ KnownEarly(id)
    \/ id \in Jobs /\ \E q \in retired : stage[q][id] # "none"

\* The pruning: a retired queue without executions is forgotten, one that has
\* outlived every execution budget hands its jobs to the zombies.
PruneRetired(id, aged) ==
    IF KnownEarly(id)
    THEN UNCHANGED <<retired, zombies>>
    ELSE /\ retired' = {q \in retired : Busy(q)} \ aged
         /\ zombies' = [j \in Jobs |->
                IF zombies[j] = None /\ \E q \in aged : stage[q][j] # "none"
                THEN CHOOSE q \in aged : stage[q][j] # "none"
                ELSE zombies[j]]

Aged == {a \in SUBSET retired : \A q \in a : Busy(q)}

\* releaseZombieJob: the goroutine that waits for the execution's done channel.
ReleaseZombieJob(j) ==
    /\ zombies[j] # None /\ stage[zombies[j]][j] \notin Executing
    /\ zombies' = [zombies EXCEPT ![j] = None]
    /\ UNCHANGED <<active, queueOf, stage, stopped, cancelled, retired, reserved,
                   blocked, compAlive, row, hold, procs, used, past>>

IsRuleBlocked(j) == \E c \in blocked : rule[c].job = j

\* Defective: a closed queue still admits.
EnqueueAdmissible_PauseIgnored(j) == ~IsRuleBlocked(j)

EnqueueAdmissible(j) == active /\ ~IsRuleBlocked(j)

\* enqueueResolvedLocked and caQueue.enqueue: the provider's queue, or a new
\* one, gets the item unless the job is already in it.
EnqueueResolved(j, p) ==
    \E q \in Queues :
        /\ IF queueOf[p] # None THEN q = queueOf[p] ELSE Unused(q)
        /\ queueOf' = [queueOf EXCEPT ![p] = q]
        /\ stopped' = IF queueOf[p] = None THEN stopped \ {q} ELSE stopped
        /\ stage' = IF stage[q][j] = "none"
                    THEN [stage EXCEPT ![q] = [stage[q] EXCEPT ![j] = "pending"]]
                    ELSE stage

\* stopQueuesLocked and the first section of PauseAndDrain: nothing is admitted
\* any more, pending items are dropped, every queue's ctx is cancelled.
StopQueues ==
    /\ active' = FALSE
    /\ stage' = [q \in Queues |->
           IF q \in Mapped
           THEN [j \in Jobs |-> IF stage[q][j] = "pending" THEN "none"
                                ELSE stage[q][j]]
           ELSE stage[q]]
    /\ stopped' = stopped \cup Mapped
    /\ queueOf' = [p \in Providers |-> None]

\* Between the two sections of a drain nobody finds the executions it waits for.
Unseen == {j \in Jobs : \E q \in stop.waits \cup imp.waits : stage[q][j] # "none"}

Overlook(js) == past' = [past EXCEPT !.missed = @ \cup js]

\* The last section of PauseAndDrain: what still runs is registered as retired.
\* The wait before it ends when all executions have left, or at its deadline.
Retire(waits) == retired' = retired \cup {q \in waits : Busy(q)}

\* Defective: the queues retired by an earlier drain are not asked.
Drained_RetiredForgotten(waits, prior, hadZombies, timedOut) ==
    /\ ~timedOut /\ ~hadZombies
    /\ \A q \in waits : ~Busy(q)

\* The answer of PauseAndDrain.
Drained(waits, prior, hadZombies, timedOut) ==
    /\ ~timedOut /\ ~hadZombies
    /\ \A q \in waits \cup prior : ~Busy(q)

-----------------------------------------------------------------------------
(***************************************************************************)
(* EnqueueIfActive.  A scan reads the row and migrates it only from the    *)
(* status it read, a retry likewise; a creation upserts the row from the   *)
(* statuses upsertQueuedCertJob lists and passes job id 0 to the guard; a  *)
(* disabled row belongs to a disabled rule here, which the upsert refuses. *)
(***************************************************************************)

Guarded(e) == IF enq[e].kind = "create" THEN NewJob ELSE enq[e].job

ScanFrom   == {"queued", "failed", "issued"}
RetryFrom  == Status \ {"none", "disabled"}
CreateFrom == {"issued", "failed", "downloaded"}

Readable(kind) == CASE kind = "scan" -> ScanFrom
                    [] kind = "retry" -> RetryFrom
                    [] kind = "create" -> Status \ {"none", "disabled"}

MoreOps == used.calls + used.imports + used.rules < MaxOps

Call(e, kind, j, seen) ==
    enq' = [enq EXCEPT ![e] = [pc |-> "reserve", kind |-> kind, job |-> j,
                               seen |-> seen]]

Enqueue(e, j) ==
    /\ e \in Callers /\ enq[e].pc = "idle" /\ used.calls < MaxCalls /\ MoreOps
    /\ \E kind \in Kinds : row[j] \in Readable(kind) /\ Call(e, kind, j, row[j])
    /\ used' = [used EXCEPT !.calls = @ + 1]
    /\ UNCHANGED <<manager, row, hold, acme, daemon, failing, stop, imp, rule, past>>

\* First section: in flight, closed or blocked answers changed=false.
Reserve(e) ==
    /\ enq[e].pc = "reserve"
    /\ \E aged \in Aged : PruneRetired(Guarded(e), aged)
    /\ IF IsJobActive(Guarded(e)) \/ ~EnqueueAdmissible(enq[e].job)
       THEN enq' = [enq EXCEPT ![e] = Idle] /\ UNCHANGED <<reserved, past>>
       ELSE /\ reserved' = reserved \cup {Guarded(e)}
            /\ enq' = [enq EXCEPT ![e].pc = "transition"]
            /\ Overlook(Unseen \cap {Guarded(e)})
    /\ UNCHANGED <<active, queueOf, stage, stopped, cancelled, blocked, compAlive,
                   row, hold, acme, daemon, failing, stop, imp, rule, used>>

\* The transition closure, outside the lock.
Transition(e) ==
    /\ enq[e].pc = "transition"
    /\ LET j == enq[e].job
           from == IF enq[e].kind = "create" THEN CreateFrom ELSE {enq[e].seen}
       IN  IF row[j] \in from
           THEN /\ row' = [row EXCEPT ![j] = "queued"]
                /\ enq' = [enq EXCEPT ![e].pc = "enqueue"]
           ELSE /\ enq' = [enq EXCEPT ![e].pc = "release"]
                /\ UNCHANGED row
    /\ UNCHANGED <<manager, hold, acme, daemon, failing, stop, imp, rule, used, past>>

\* resolveEnqueueProvider fails, outside the lock: the job is failed unless it
\* only waits for its deployment.
ResolveFails(e) ==
    /\ enq[e].pc = "enqueue"
    /\ row' = [row EXCEPT ![enq[e].job] =
                   IF @ \in {"queued", "creating"} THEN "failed" ELSE @]
    /\ enq' = [enq EXCEPT ![e].pc = "release"]
    /\ UNCHANGED <<manager, hold, acme, daemon, failing, stop, imp, rule, used, past>>

\* Second section: closed or blocked meanwhile leaves the row to a later scan.
EnqueueAdmitted(e) ==
    /\ enq[e].pc = "enqueue"
    /\ IF EnqueueAdmissible(enq[e].job)
       THEN \E p \in Providers : EnqueueResolved(enq[e].job, p)
       ELSE UNCHANGED <<queueOf, stage, stopped>>
    /\ enq' = [enq EXCEPT ![e].pc = "release"]
    /\ UNCHANGED <<active, cancelled, retired, zombies, reserved, blocked,
                   compAlive, row, hold, acme, daemon, failing, stop, imp, rule, used, past>>

Release(e) ==
    /\ enq[e].pc = "release"
    /\ reserved' = reserved \ {Guarded(e)}
    /\ enq' = [enq EXCEPT ![e] = Idle]
    /\ UNCHANGED <<active, queueOf, stage, stopped, cancelled, retired, zombies,
                   blocked, compAlive, row, hold, acme, daemon, failing, stop, imp, rule,
                   used, past>>

-----------------------------------------------------------------------------
(***************************************************************************)
(* Dispatch and execution.  The pump is the Run of cert-issuance.          *)
(***************************************************************************)

Pumping == daemon = "pump" /\ acme.call["daemon"] = "idle" /\ failing = {}

\* tick and prepareExecutionLocked.  The rate gate only delays.
Dispatch(q, j) ==
    /\ Pumping
    /\ q \in Mapped \ stopped /\ stage[q][j] = "pending"
    /\ Cardinality({k \in Jobs : stage[q][k] \in Executing}) < MaxConcurrent
    /\ stage' = [stage EXCEPT ![q] = [stage[q] EXCEPT ![j] = "running"]]
    /\ UNCHANGED <<active, queueOf, stopped, cancelled, retired, zombies, reserved,
                   blocked, compAlive, row, hold, procs, used, past>>

\* tick or refreshProviderLocked finds the provider disabled or deleted.
DispatchUnavailable(q) ==
    /\ Pumping
    /\ q \in Mapped \ stopped
    /\ \E j \in Jobs : stage[q][j] = "pending"
    /\ failing' = {j \in Jobs : stage[q][j] = "pending"}
    /\ stage' = [stage EXCEPT ![q] = [j \in Jobs |->
           IF stage[q][j] = "pending" THEN "none" ELSE stage[q][j]]]
    /\ UNCHANGED <<active, queueOf, stopped, cancelled, retired, zombies, reserved,
                   blocked, compAlive, row, hold, acme, daemon, stop, imp, rule,
                   enq, used, past>>

\* failPendingProviderUnavailable: in one section of m.mu, a job that is neither
\* in flight again nor past "queued" is failed.
FailPending(j) ==
    /\ j \in failing
    /\ \E aged \in Aged : PruneRetired(j, aged)
    /\ row' = [row EXCEPT ![j] = IF ~IsJobActive(j) /\ @ = "queued" THEN "failed"
                                 ELSE @]
    /\ failing' = failing \ {j}
    /\ UNCHANGED <<active, queueOf, stage, stopped, cancelled, reserved, blocked,
                   compAlive, hold, acme, daemon, stop, imp, rule, enq, used, past>>

\* Issue writes its progress: from any status that is not terminal.
Progress(q, j) ==
    /\ stage[q][j] = "running" /\ row[j] \in NonTerminal
    /\ \E s \in {"creating", "downloaded"} : row' = [row EXCEPT ![j] = s]
    /\ UNCHANGED <<manager, hold, procs, used, past>>

Leaves(q, j) == stage' = [stage EXCEPT ![q] = [stage[q] EXCEPT ![j] = "leaving"]]

\* The deployment confirms the row, or fails and leaves it to the deployment
\* retries; a row that is gone or settled by somebody else is left alone.
Deployed(q, j) ==
    /\ stage[q][j] = "running" /\ row[j] \notin {"queued", "creating"}
    /\ row' = [row EXCEPT ![j] = IF @ = "downloaded" THEN "issued" ELSE @]
    /\ Leaves(q, j)
    /\ UNCHANGED <<active, queueOf, stopped, cancelled, retired, zombies, reserved,
                   blocked, compAlive, hold, procs, used, past>>

DeployFails(q, j) ==
    /\ stage[q][j] = "running" /\ row[j] = "downloaded"
    /\ Leaves(q, j)
    /\ UNCHANGED <<active, queueOf, stopped, cancelled, retired, zombies, reserved,
                   blocked, compAlive, row, hold, procs, used, past>>

\* handleQueueExecutionError with nothing produced: failJob(..., false).
Fails(q, j) ==
    /\ stage[q][j] = "running"
    /\ row' = [row EXCEPT ![j] = IF @ \in NonTerminal THEN "failed" ELSE @]
    /\ Leaves(q, j)
    /\ UNCHANGED <<active, queueOf, stopped, cancelled, retired, zombies, reserved,
                   blocked, compAlive, hold, procs, used, past>>

\* handleExecutionCancellation.  A stopped queue puts the row back
\* (requeueCanceledJob), and so does an execution that lost its role; a
\* cancelled job or an expired budget fails it; a row whose certificate is
\* stored keeps waiting for its deployment.
Cancelled(q, j) ==
    /\ stage[q][j] = "running"
    /\ \E to \in IF q \in stopped THEN {"queued"} ELSE {"queued", "failed"} :
           row' = [row EXCEPT ![j] = IF @ \in {"queued", "creating"} THEN to ELSE @]
    /\ Leaves(q, j)
    /\ UNCHANGED <<active, queueOf, stopped, cancelled, retired, zombies, reserved,
                   blocked, compAlive, hold, procs, used, past>>

\* The deferred end of execute: only now the job leaves the queue's maps.
Leave(q, j) ==
    /\ stage[q][j] = "leaving"
    /\ stage' = [stage EXCEPT ![q] = [stage[q] EXCEPT ![j] = "none"]]
    /\ cancelled' = cancelled \ {<<q, j>>}
    /\ UNCHANGED <<active, queueOf, stopped, retired, zombies, reserved, blocked,
                   compAlive, row, hold, procs, used, past>>

-----------------------------------------------------------------------------
(***************************************************************************)
(* The Run of cert-issuance: startCertIssuanceLifecycle, the pump, and     *)
(* stopCertIssuanceLifecycle, which always runs.                           *)
(***************************************************************************)

Launch ==
    /\ daemon = "off" /\ used.starts < MaxStarts
    /\ daemon' = "check"
    /\ acme' = [acme EXCEPT !.refused = FALSE]
    /\ used' = [used EXCEPT !.starts = @ + 1]
    /\ UNCHANGED <<manager, row, hold, failing, stop, imp, rule, enq, past>>

BeginStart(s) == acme' = [acme EXCEPT !.call = [acme.call EXCEPT ![s] = "ops"]]

LaunchCheck ==
    /\ daemon = "check"
    /\ IF hold.depth = 0 THEN daemon' = "pump" /\ BeginStart("daemon")
       ELSE daemon' = "defer" /\ UNCHANGED acme
    /\ UNCHANGED <<manager, row, hold, failing, stop, imp, rule, enq, used, past>>

LaunchDefer ==
    /\ daemon = "defer"
    /\ hold' = [hold EXCEPT !.certDeferred = TRUE]
    /\ daemon' = "recheck"
    /\ UNCHANGED <<manager, row, acme, failing, stop, imp, rule, enq, used, past>>

\* Defective: an import that ended between the check and the mark is not noticed.
LaunchRecheck_NotTaken ==
    /\ daemon = "recheck"
    /\ daemon' = "pump"
    /\ UNCHANGED <<manager, row, hold, acme, failing, stop, imp, rule, enq, used, past>>

\* takeDeferredCertIssuanceStartIfReleased
LaunchRecheck ==
    /\ daemon = "recheck"
    /\ daemon' = "pump"
    /\ IF hold.depth = 0 /\ hold.certDeferred
       THEN hold' = [hold EXCEPT !.certDeferred = FALSE] /\ BeginStart("daemon")
       ELSE UNCHANGED <<hold, acme>>
    /\ UNCHANGED <<manager, row, failing, stop, imp, rule, enq, used, past>>

Exit ==
    /\ Pumping
    /\ daemon' = "undefer"
    /\ UNCHANGED <<manager, row, hold, acme, failing, stop, imp, rule, enq, used, past>>

Undefer ==
    /\ daemon = "undefer"
    /\ hold' = [hold EXCEPT !.certDeferred = FALSE]
    /\ daemon' = "detach"
    /\ UNCHANGED <<manager, row, acme, failing, stop, imp, rule, enq, used, past>>

\* stopACMEWithin takes the start/stop mutex, detaches the worker and starts
\* the goroutine that stops the queue, or joins the stop under way.
Detach ==
    /\ daemon = "detach" /\ acme.ops = "free"
    /\ daemon' = "stopWait"
    /\ IF stop.pc = "idle"
       THEN /\ acme' = [acme EXCEPT !.worker = FALSE, !.ops = "daemon"]
            /\ stop' = [stop EXCEPT !.pc = "compensation"]
       ELSE /\ acme' = [acme EXCEPT !.ops = "daemon"] /\ UNCHANGED stop
    /\ UNCHANGED <<manager, row, hold, failing, imp, rule, enq, used, past>>

\* The mutex is held by a start for too long: a stop under way is waited for, and
\* without one the stop is skipped.
DetachTimesOut ==
    /\ daemon = "detach" /\ acme.ops # "free"
    /\ daemon' = "off"
    /\ UNCHANGED <<manager, row, hold, acme, failing, stop, imp, rule, enq, used, past>>

\* The stop has finished, or the wait for it timed out and it goes on.
StopWaited ==
    /\ daemon = "stopWait"
    /\ daemon' = "off"
    /\ acme' = [acme EXCEPT !.ops = "free"]
    /\ UNCHANGED <<manager, row, hold, failing, stop, imp, rule, enq, used, past>>

-----------------------------------------------------------------------------
(***************************************************************************)
(* StartACME, called by the Run and by the end of an import.               *)
(***************************************************************************)

Calling(s, where) == acme.call[s] = where
Goto(s, where)    == [acme.call EXCEPT ![s] = where]

StartOps(s) ==
    /\ Calling(s, "ops") /\ acme.ops = "free"
    /\ acme' = IF acme.worker
               THEN [acme EXCEPT !.call = Goto(s, "idle")]
               ELSE [acme EXCEPT !.call = Goto(s, "wait"), !.ops = s]
    /\ UNCHANGED <<manager, row, hold, daemon, failing, stop, imp, rule, enq, used, past>>

\* A stop of the previous generation is under way for too long: refused.
StartRefused(s) ==
    /\ stop.pc # "idle"
    /\ \/ Calling(s, "wait")
       \/ Calling(s, "ops") /\ acme.ops # "free"
    /\ acme' = [acme EXCEPT !.call = Goto(s, "idle"), !.refused = TRUE,
                            !.ops = IF @ = s THEN "free" ELSE @]
    /\ UNCHANGED <<manager, row, hold, daemon, failing, stop, imp, rule, enq, used, past>>

StartWaited(s) ==
    /\ Calling(s, "wait") /\ stop.pc = "idle"
    /\ acme' = [acme EXCEPT !.call = Goto(s, "check")]
    /\ UNCHANGED <<manager, row, hold, daemon, failing, stop, imp, rule, enq, used, past>>

\* CAQueueManager.Start: startUnlessConfigImportHold, three sections of the
\* hold's lock, then startIgnoringHold.
StartCheck(s) ==
    /\ Calling(s, "check")
    /\ acme' = [acme EXCEPT !.call =
                    Goto(s, IF hold.depth = 0 THEN "open" ELSE "defer")]
    /\ UNCHANGED <<manager, row, hold, daemon, failing, stop, imp, rule, enq, used, past>>

StartDefer(s) ==
    /\ Calling(s, "defer")
    /\ hold' = [hold EXCEPT !.pendingStart = TRUE]
    /\ acme' = [acme EXCEPT !.call = Goto(s, "recheck")]
    /\ UNCHANGED <<manager, row, daemon, failing, stop, imp, rule, enq, used, past>>

Started(s) == [acme EXCEPT !.call = Goto(s, "idle"), !.worker = TRUE, !.ops = "free"]

\* takeDeferredCAQueueStartIfReleased
StartRecheck(s) ==
    /\ Calling(s, "recheck")
    /\ IF hold.depth = 0
       THEN /\ hold' = [hold EXCEPT !.pendingStart = FALSE]
            /\ acme' = IF hold.pendingStart
                       THEN [acme EXCEPT !.call = Goto(s, "open")] ELSE Started(s)
       ELSE acme' = Started(s) /\ UNCHANGED hold
    /\ UNCHANGED <<manager, row, daemon, failing, stop, imp, rule, enq, used, past>>

\* From the import's drain to the end of its hold.
AfterDrain == {"wait", "lock", "window", "end"}

\* startIgnoringHold; then StartACME creates the worker and returns.  A start that
\* has seen no hold opens the queue also when an import has drained it meanwhile.
StartOpen(s) ==
    /\ Calling(s, "open")
    /\ active' = TRUE /\ compAlive' = TRUE
    /\ acme' = Started(s)
    /\ imp' = [imp EXCEPT !.late = @ \/ imp.pc \in AfterDrain]
    /\ past' = [past EXCEPT !.closed = FALSE]
    /\ UNCHANGED <<queueOf, stage, stopped, cancelled, retired, zombies, reserved,
                   blocked, row, hold, daemon, failing, stop, rule, enq, used>>

-----------------------------------------------------------------------------
(***************************************************************************)
(* CAQueueManager.Stop, in the goroutine stopACMEWithin starts.            *)
(***************************************************************************)

Compensating(c) == rule[c].pc \in {"drain", "drainWait", "requeue", "inFlight",
                                   "reserve", "enqueue", "release", "again"}

\* A request that has raised its barrier and not come to its end.
Draining(c) == rule[c].pc \in {"cancel", "wait", "delete"}

StopCompensation ==
    /\ stop.pc = "compensation"
    /\ compAlive' = FALSE
    /\ rule' = [c \in Changers |->
                   [rule[c] EXCEPT !.doomed = @ \/ Compensating(c)]]
    /\ stop' = [stop EXCEPT !.pc = "blocks"]
    /\ UNCHANGED <<active, queueOf, stage, stopped, cancelled, retired, zombies,
                   reserved, blocked, row, hold, acme, daemon, failing, imp, enq,
                   used, past>>

\* compensationWG.Wait, releaseAllRuleBlocks
StopBlocks ==
    /\ stop.pc = "blocks" /\ \A c \in Changers : ~Compensating(c)
    /\ blocked' = {}
    /\ rule' = [c \in Changers |->
                   IF rule[c].pc = "abandoned" THEN NoChange
                   ELSE [rule[c] EXCEPT !.passed = @ \/ Draining(c)]]
    /\ stop' = [stop EXCEPT !.pc = "drain"]
    /\ UNCHANGED <<active, queueOf, stage, stopped, cancelled, retired, zombies,
                   reserved, compAlive, row, hold, acme, daemon, failing, imp, enq,
                   used, past>>

StopDrain ==
    /\ stop.pc = "drain"
    /\ StopQueues
    /\ stop' = [pc |-> "wait", waits |-> Mapped]
    /\ UNCHANGED <<cancelled, retired, zombies, reserved, blocked, compAlive, row,
                   hold, acme, daemon, failing, imp, rule, enq, used, past>>

StopRetire ==
    /\ stop.pc = "wait"
    /\ Retire(stop.waits)
    /\ stop' = [pc |-> "clear", waits |-> {}]
    /\ UNCHANGED <<active, queueOf, stage, stopped, cancelled, zombies, reserved,
                   blocked, compAlive, row, hold, acme, daemon, failing, imp, rule,
                   enq, used, past>>

\* A deferred start is void; then the worker is stopped and the stop is done.
StopClear ==
    /\ stop.pc = "clear"
    /\ hold' = [hold EXCEPT !.pendingStart = FALSE]
    /\ stop' = [stop EXCEPT !.pc = "idle"]
    /\ UNCHANGED <<manager, row, acme, daemon, failing, imp, rule, enq, used, past>>

-----------------------------------------------------------------------------
(***************************************************************************)
(* The import session's side: IsActive, BeginConfigImportHold,             *)
(* PauseAndDrain, the replacement of the rows, and finish.                 *)
(***************************************************************************)

ImportSample ==
    /\ imp.pc = "idle" /\ used.imports < MaxImports /\ MoreOps
    /\ imp' = [imp EXCEPT !.pc = "begin", !.was = active]
    /\ used' = [used EXCEPT !.imports = @ + 1]
    /\ UNCHANGED <<manager, row, hold, acme, daemon, failing, stop, rule, enq, past>>

\* Defective: the session and its drain both raise the hold.
BeginConfigImportHold_Twice ==
    /\ imp.pc = "begin"
    /\ hold' = [hold EXCEPT !.depth = @ + 2]
    /\ imp' = [imp EXCEPT !.pc = "drain"]
    /\ UNCHANGED <<manager, row, acme, daemon, failing, stop, rule, enq, used, past>>

BeginConfigImportHold ==
    /\ imp.pc = "begin"
    /\ hold' = [hold EXCEPT !.depth = @ + 1]
    /\ imp' = [imp EXCEPT !.pc = "drain"]
    /\ UNCHANGED <<manager, row, acme, daemon, failing, stop, rule, enq, used, past>>

ImportDrain ==
    /\ imp.pc = "drain"
    /\ StopQueues
    /\ imp' = [imp EXCEPT !.pc = "wait", !.waits = Mapped, !.prior = retired,
                          !.zombies = \E j \in Jobs : zombies[j] # None]
    /\ past' = [missed |-> past.missed \cup Unseen,
                closed |-> past.closed \/ (active /\ ~imp.was)]
    /\ UNCHANGED <<cancelled, retired, zombies, reserved, blocked, compAlive, row,
                   hold, acme, daemon, failing, stop, rule, enq, used>>

\* Not drained: the import is refused and gives the queue back at once.
ImportDrained ==
    /\ imp.pc = "wait"
    /\ Retire(imp.waits)
    /\ \E timedOut \in BOOLEAN :
           imp' = [imp EXCEPT !.pc = IF Drained(imp.waits, imp.prior, imp.zombies,
                                                timedOut)
                                     THEN "lock" ELSE "end",
                              !.waits = {}, !.prior = {}, !.zombies = FALSE]
    /\ UNCHANGED <<active, queueOf, stage, stopped, cancelled, zombies, reserved,
                   blocked, compAlive, row, hold, acme, daemon, failing, stop, rule,
                   enq, used, past>>

\* The import holds caddyOpMu for its transaction, and a rule change holds it
\* except while it waits for executions (and its compensation does not need it).
CaddyOpHeld ==
    \/ imp.pc = "window"
    \/ \E c \in Changers : rule[c].pc \in {"disable", "block", "delete"}

ImportLock ==
    /\ imp.pc = "lock" /\ ~CaddyOpHeld
    /\ imp' = [imp EXCEPT !.pc = "window"]
    /\ UNCHANGED <<manager, row, hold, acme, daemon, failing, stop, rule, enq, used, past>>

\* The import's transaction commits rows of the backup, or is rolled back.
ImportCommit ==
    /\ imp.pc = "window"
    /\ \/ UNCHANGED row
       \/ \E j \in Jobs, s \in {"queued", "downloaded", "issued"} :
              row[j] # "none" /\ row' = [row EXCEPT ![j] = s]
    /\ imp' = [imp EXCEPT !.pc = "end"]
    /\ UNCHANGED <<manager, hold, acme, daemon, failing, stop, rule, enq, used, past>>

\* Defective: the deferred start of the lifecycle is cleared and not made up for.
EndConfigImportHold_StartLost ==
    /\ imp.pc = "end"
    /\ hold' = [depth |-> hold.depth - 1, pendingStart |-> FALSE,
                certDeferred |-> FALSE]
    /\ imp' = [imp EXCEPT !.pc = "open", !.late = FALSE, !.pending = hold.pendingStart]
    /\ UNCHANGED <<manager, row, acme, daemon, failing, stop, rule, enq, used, past>>

\* EndConfigImportHold, its critical section: the last session takes both
\* deferred starts with it.
EndConfigImportHold ==
    /\ imp.pc = "end"
    /\ hold' = [depth |-> hold.depth - 1, pendingStart |-> FALSE,
                certDeferred |-> FALSE]
    /\ imp' = [imp EXCEPT !.pc = "open", !.late = FALSE, !.pending = hold.pendingStart,
                          !.cert = hold.certDeferred]
    /\ UNCHANGED <<manager, row, acme, daemon, failing, stop, rule, enq, used, past>>

\* The rest of it, outside the lock: startIgnoringHold, then StartACME.
ImportOpen ==
    /\ imp.pc = "open"
    /\ IF imp.pending
       THEN active' = TRUE /\ compAlive' = TRUE
            /\ past' = [past EXCEPT !.closed = FALSE]
       ELSE UNCHANGED <<active, compAlive, past>>
    /\ IF imp.cert THEN BeginStart("import") ELSE UNCHANGED acme
    /\ imp' = [imp EXCEPT !.pc = "start", !.pending = FALSE, !.cert = FALSE]
    /\ UNCHANGED <<queueOf, stage, stopped, cancelled, retired, zombies, reserved,
                   blocked, row, hold, daemon, failing, stop, rule, enq, used>>

\* Resume, only if the queue was open when the import began.
ImportResume ==
    /\ imp.pc = "start" /\ Calling("import", "idle")
    /\ IF imp.was
       THEN active' = TRUE /\ imp' = [imp EXCEPT !.pc = "scan"]
            /\ past' = [past EXCEPT !.closed = FALSE]
       ELSE imp' = [imp EXCEPT !.pc = "idle"] /\ UNCHANGED <<active, past>>
    /\ UNCHANGED <<queueOf, stage, stopped, cancelled, retired, zombies, reserved,
                   blocked, compAlive, row, hold, acme, daemon, failing, stop, rule,
                   enq, used>>

\* requeueLifecycleStrandedJobs and requeueNonTerminalCertJobs.
ImportScan ==
    /\ imp.pc = "scan"
    /\ imp' = [imp EXCEPT !.pc = "requeue", !.was = FALSE,
                          !.todo = {<<j, row[j]>> : j \in
                                    {k \in Jobs : row[k] \in {"queued", "creating"}}}]
    /\ UNCHANGED <<manager, row, hold, acme, daemon, failing, stop, rule, enq, used, past>>

ImportRequeue ==
    /\ imp.pc = "requeue" /\ enq["import"].pc = "idle"
    /\ IF imp.todo = {}
       THEN imp' = [imp EXCEPT !.pc = "idle"] /\ UNCHANGED enq
       ELSE \E t \in imp.todo :
                /\ imp' = [imp EXCEPT !.todo = @ \ {t}]
                /\ Call("import", "scan", t[1], t[2])
    /\ UNCHANGED <<manager, row, hold, acme, daemon, failing, stop, rule, used, past>>

-----------------------------------------------------------------------------
(***************************************************************************)
(* DisableRule and DeleteRule, and the compensation of a deletion that     *)
(* could not be carried out (StartRuleDeletionCompensation).               *)
(***************************************************************************)

HasRunningJobForRule(j) ==
    \/ zombies[j] # None
    \/ \E q \in Mapped \cup retired : stage[q][j] \in Executing

\* Both are refused while an execution is known; one that is dispatched behind
\* this check is left to the cancellation.
DisableRule(c, j) ==
    /\ rule[c].pc = "idle" /\ used.rules < MaxRules /\ MoreOps
    /\ ~CaddyOpHeld
    /\ row[j] # "none" /\ ~HasRunningJobForRule(j)
    /\ rule' = [rule EXCEPT ![c] = [NoChange EXCEPT !.pc = "disable", !.job = j]]
    /\ used' = [used EXCEPT !.rules = @ + 1]
    /\ UNCHANGED <<manager, row, hold, acme, daemon, failing, stop, imp, enq, past>>

DeleteRule(c, j) ==
    /\ rule[c].pc = "idle" /\ used.rules < MaxRules /\ MoreOps
    /\ ~CaddyOpHeld
    /\ row[j] # "none" /\ ~HasRunningJobForRule(j)
    /\ rule' = [rule EXCEPT ![c] = [NoChange EXCEPT !.pc = "block", !.op = "delete",
                                                    !.job = j, !.snap = row[j]]]
    /\ used' = [used EXCEPT !.rules = @ + 1]
    /\ UNCHANGED <<manager, row, hold, acme, daemon, failing, stop, imp, enq, past>>

Step(c, where) ==
    rule' = [rule EXCEPT ![c] = [rule[c] EXCEPT !.pc = where, !.waits = {}]]

\* The rows are disabled with the rule, or the transaction or the apply fails
\* and nothing has changed.
RuleDisabled(c) ==
    /\ rule[c].pc = "disable"
    /\ \/ /\ row' = [row EXCEPT ![rule[c].job] =
                         IF @ = "failed" THEN @ ELSE "disabled"]
          /\ Step(c, "block")
       \/ rule' = [rule EXCEPT ![c] = NoChange] /\ UNCHANGED row
    /\ UNCHANGED <<manager, hold, acme, daemon, failing, stop, imp, enq, used, past>>

BlockJobsForRule(c) ==
    /\ rule[c].pc = "block"
    /\ blocked' = blocked \cup {c}
    /\ Step(c, "cancel")
    /\ UNCHANGED <<active, queueOf, stage, stopped, cancelled, retired, zombies,
                   reserved, compAlive, row, hold, acme, daemon, failing, stop, imp,
                   enq, used, past>>

\* collectCancellationLocked: pending items are dropped, executions of the current
\* and retired queues are cancelled.
CollectCancellation(j) ==
    /\ stage' = [q \in Queues |->
           IF q \in Mapped /\ stage[q][j] = "pending"
           THEN [stage[q] EXCEPT ![j] = "none"] ELSE stage[q]]
    /\ cancelled' = cancelled \cup
           {<<q, j>> : q \in {r \in Mapped \cup retired : stage[r][j] \in Executing}}

\* Defective: executions are cancelled and, except for zombies, not waited for.
Awaited_ZombiesOnly(j) == {zombies[j]} \ {None}

\* The executions a cancellation waits for, the zombies' among them.
Awaited(j) == {r \in Mapped \cup retired : stage[r][j] \in Executing}
                  \cup ({zombies[j]} \ {None})

\* CancelJobsForRule.  The drain misses what another drain is waiting for.
CancelJobsForRule(c) ==
    /\ rule[c].pc \in {"cancel", "drain"}
    /\ CollectCancellation(rule[c].job)
    /\ rule' = [rule EXCEPT ![c] = [rule[c] EXCEPT
           !.pc = IF @ = "cancel" THEN "wait" ELSE "drainWait",
           !.waits = Awaited(rule[c].job),
           !.passed = @ \/ rule[c].job \in Unseen]]
    /\ UNCHANGED <<active, queueOf, stopped, retired, zombies, reserved, blocked,
                   compAlive, row, hold, acme, daemon, failing, stop, imp, enq, used,
                   past>>

AllLeft(c) == \A q \in rule[c].waits : stage[q][rule[c].job] \notin Executing

Unblock(c) ==
    /\ blocked' = blocked \ {c}
    /\ rule' = [rule EXCEPT ![c] = NoChange]

\* StartRuleDeletionCompensation: it takes the barrier over, unless the manager
\* has been stopped.
Compensate(c) ==
    IF compAlive THEN Step(c, "drain") /\ UNCHANGED blocked ELSE Unblock(c)

\* The wait is over or timed out.  A disabled rule stays disabled either way.
RuleWaited(c) ==
    /\ rule[c].pc = "wait" /\ ~CaddyOpHeld
    /\ \E timedOut \in BOOLEAN :
           /\ timedOut \/ AllLeft(c)
           /\ CASE rule[c].op = "disable" -> Unblock(c)
                [] rule[c].op = "delete" /\ timedOut -> Compensate(c)
                [] OTHER -> Step(c, "delete") /\ UNCHANGED blocked
    /\ UNCHANGED <<active, queueOf, stage, stopped, cancelled, retired, zombies,
                   reserved, compAlive, row, hold, acme, daemon, failing, stop, imp,
                   enq, used, past>>

RuleDeleted(c) ==
    /\ rule[c].pc = "delete"
    /\ row' = [row EXCEPT ![rule[c].job] = "none"]
    /\ Unblock(c)
    /\ UNCHANGED <<active, queueOf, stage, stopped, cancelled, retired, zombies,
                   reserved, compAlive, hold, acme, daemon, failing, stop, imp,
                   enq, used, past>>

\* The transaction or the apply failed and was rolled back.
RuleDeleteFails(c) ==
    /\ rule[c].pc = "delete"
    /\ Compensate(c)
    /\ UNCHANGED <<active, queueOf, stage, stopped, cancelled, retired, zombies,
                   reserved, compAlive, row, hold, acme, daemon, failing, stop, imp,
                   enq, used, past>>

\* An attempt that failed is repeated after the backoff; once Stop has cancelled
\* it, the goroutine ends and leaves the barrier to Stop.
Retry(c) ==
    Step(c, IF rule[c].doomed THEN "abandoned" ELSE "drain") /\ UNCHANGED blocked

\* compensateRuleDeletion: the executions have left, ...
CompensationWaited(c) ==
    /\ rule[c].pc = "drainWait" /\ AllLeft(c)
    /\ Step(c, "requeue")
    /\ UNCHANGED <<manager, row, hold, acme, daemon, failing, stop, imp, enq, used,
                   past>>

\* ... or have not in time, or a query or the restoring transaction fails.
CompensationFails(c) ==
    /\ rule[c].pc \in {"drainWait", "requeue"}
    /\ Retry(c)
    /\ UNCHANGED <<active, queueOf, stage, stopped, cancelled, retired, zombies,
                   reserved, compAlive, row, hold, acme, daemon, failing, stop, imp,
                   enq, used, past>>

\* What restoreCertJobsForRule makes of a row: it goes back to the snapshot, unless
\* its rule is gone or disabled or it has got a certificate.
Restored(c) ==
    LET now == row[rule[c].job]
    IN  IF now \in {"none", "disabled", "downloaded", "issued"} THEN now
        ELSE rule[c].snap

\* requeueCertJobsSnapshot: what is settled now or was settled in the snapshot is
\* left alone, a row whose certificate is stored stays, any other is queued.
CompensationRequeue(c) ==
    /\ rule[c].pc = "requeue"
    /\ IF {rule[c].snap, Restored(c)} \subseteq NonTerminal
       THEN /\ row' = [row EXCEPT ![rule[c].job] =
                           IF Restored(c) = "downloaded" THEN "downloaded"
                           ELSE "queued"]
            /\ Step(c, "inFlight")
            /\ UNCHANGED blocked
       ELSE row' = [row EXCEPT ![rule[c].job] = Restored(c)] /\ Unblock(c)
    /\ UNCHANGED <<active, queueOf, stage, stopped, cancelled, retired, zombies,
                   reserved, compAlive, hold, acme, daemon, failing, stop, imp,
                   enq, used, past>>

\* enqueueCompensation: in flight is skipped, ...
CompensationInFlight(c) ==
    /\ rule[c].pc = "inFlight"
    /\ \E aged \in Aged : PruneRetired(rule[c].job, aged)
    /\ IF IsJobActive(rule[c].job) THEN Unblock(c)
       ELSE Step(c, "reserve") /\ UNCHANGED blocked
    /\ UNCHANGED <<active, queueOf, stage, stopped, cancelled, reserved, compAlive,
                   row, hold, acme, daemon, failing, stop, imp, enq, used, past>>

\* ... a closed queue leaves the row to a later scan, a lost barrier is an error,
\* and whoever took the job since the look is not noticed, ...
CompensationReserve(c) ==
    /\ rule[c].pc = "reserve"
    /\ LET j == rule[c].job
       IN  \/ /\ ~active
              /\ Unblock(c) /\ UNCHANGED <<reserved, past>>
           \/ /\ active /\ ~IsRuleBlocked(j)
              /\ Retry(c) /\ UNCHANGED <<reserved, past>>
           \/ /\ active /\ IsRuleBlocked(j)
              /\ reserved' = reserved \cup {j}
              /\ Step(c, "enqueue") /\ UNCHANGED blocked
              /\ Overlook({k \in {j} : IsJobActive(k) \/ k \in Unseen})
    /\ UNCHANGED <<active, queueOf, stage, stopped, cancelled, retired, zombies,
                   compAlive, row, hold, acme, daemon, failing, stop, imp, enq,
                   used>>

\* Another request on the same rule, which has made its cancellation, does not
\* learn of the item that a compensation enqueues.
Passing(c) ==
    [d \in Changers |->
        IF d = c THEN [rule[d] EXCEPT !.pc = "release"]
        ELSE [rule[d] EXCEPT !.passed =
                  @ \/ (rule[d].job = rule[c].job /\ Draining(d))]]

\* ... and the item is enqueued if the queue is still open and the barrier is up,
\* unless no provider is left (the job is failed outside the lock).
CompensationEnqueue(c) ==
    /\ rule[c].pc = "enqueue"
    /\ LET j == rule[c].job
       IN  \/ /\ active /\ IsRuleBlocked(j)
              /\ \E p \in Providers : EnqueueResolved(j, p)
              /\ rule' = Passing(c) /\ UNCHANGED row
           \/ /\ active /\ ~IsRuleBlocked(j)
              /\ Step(c, "again") /\ UNCHANGED <<queueOf, stage, stopped, row>>
           \/ /\ ~active
              /\ Step(c, "release") /\ UNCHANGED <<queueOf, stage, stopped, row>>
           \/ /\ row' = [row EXCEPT ![j] =
                             IF @ \in {"queued", "creating"} THEN "failed" ELSE @]
              /\ Step(c, "release") /\ UNCHANGED <<queueOf, stage, stopped>>
    /\ UNCHANGED <<active, cancelled, retired, zombies, reserved, blocked,
                   compAlive, hold, acme, daemon, failing, stop, imp, enq, used,
                   past>>

CompensationRelease(c) ==
    /\ rule[c].pc \in {"release", "again"}
    /\ reserved' = reserved \ {rule[c].job}
    /\ IF rule[c].pc = "release" THEN Unblock(c) ELSE Retry(c)
    /\ UNCHANGED <<active, queueOf, stage, stopped, cancelled, retired, zombies,
                   compAlive, row, hold, acme, daemon, failing, stop, imp, enq,
                   used, past>>

-----------------------------------------------------------------------------
EnqueueNext ==
    \/ \E e \in Enqueuers, j \in Jobs : Enqueue(e, j)
    \/ \E e \in Enqueuers : \/ Reserve(e) \/ Transition(e) \/ ResolveFails(e)
                            \/ EnqueueAdmitted(e) \/ Release(e)

ExecutionNext ==
    \/ \E q \in Queues, j \in Jobs :
           \/ Dispatch(q, j) \/ Progress(q, j) \/ Deployed(q, j)
           \/ DeployFails(q, j) \/ Fails(q, j) \/ Cancelled(q, j) \/ Leave(q, j)
    \/ \E q \in Queues : DispatchUnavailable(q)
    \/ \E j \in Jobs : FailPending(j) \/ ReleaseZombieJob(j)

LifecycleNext ==
    \/ Launch \/ LaunchCheck \/ LaunchDefer \/ LaunchRecheck
    \/ Exit \/ Undefer \/ Detach \/ DetachTimesOut \/ StopWaited
    \/ \E s \in Starters : \/ StartOps(s) \/ StartRefused(s) \/ StartWaited(s)
                           \/ StartCheck(s) \/ StartDefer(s) \/ StartRecheck(s)
                           \/ StartOpen(s)
    \/ StopCompensation \/ StopBlocks \/ StopDrain \/ StopRetire \/ StopClear

ImportNext ==
    \/ ImportSample \/ BeginConfigImportHold \/ ImportDrain \/ ImportDrained
    \/ ImportLock \/ ImportCommit \/ EndConfigImportHold \/ ImportOpen
    \/ ImportResume \/ ImportScan \/ ImportRequeue

RuleNext ==
    \E c \in Changers :
        \/ \E j \in Jobs : DisableRule(c, j) \/ DeleteRule(c, j)
        \/ RuleDisabled(c) \/ BlockJobsForRule(c) \/ CancelJobsForRule(c)
        \/ RuleWaited(c) \/ RuleDeleted(c) \/ RuleDeleteFails(c)
        \/ CompensationWaited(c) \/ CompensationFails(c) \/ CompensationRequeue(c)
        \/ CompensationInFlight(c) \/ CompensationReserve(c)
        \/ CompensationEnqueue(c) \/ CompensationRelease(c)

Next == EnqueueNext \/ ExecutionNext \/ LifecycleNext \/ ImportNext \/ RuleNext

Spec == Init /\ [][Next]_vars

-----------------------------------------------------------------------------
(***************************************************************************)
(* The properties.                                                         *)
(***************************************************************************)

\* A certificate job is never executed by two queues at once, whatever pauses,
\* retirements, imports, retries and compensations came before: the promise
\* of the in-flight check of EnqueueIfActive and of the zombie protection.  The
\* exception: a check has overlooked an execution of the job, in a queue that a
\* drain had taken out and not yet registered as retired.
SingleExecution ==
    \A j \in Jobs \ past.missed, q, r \in Queues :
        stage[q][j] = "running" /\ stage[r][j] = "running" => q = r

\* While an import replaces the rows the queue is closed, nothing waits in it
\* and no execution that still writes is left: PauseAndDrain's answer and the
\* hold hold together until EndConfigImportHold.  The exceptions: a start that
\* had found no hold opened the queue behind the drain, or the drain overlooked
\* the execution, which a stop was waiting for.
ImportIsolated ==
    imp.pc = "window" /\ ~imp.late =>
        /\ ~active
        /\ \A q \in Queues, j \in Jobs : stage[q][j] # "pending"
        /\ \A q \in Queues, j \in Jobs \ past.missed : stage[q][j] # "running"

LifecycleSettled ==
    /\ daemon \in {"off", "pump"} /\ stop.pc = "idle"
    /\ \A s \in Starters : acme.call[s] = "idle"

Quiet == LifecycleSettled /\ imp.pc = "idle"

\* A start deferred to the end of an import is never left behind: once the
\* lifecycle and the import have settled, both intents have been honoured or
\* voided (EndConfigImportHold, the take...IfReleased functions, Stop).
IntentKept == Quiet => ~hold.pendingStart /\ ~hold.certDeferred

\* Once everything has settled, a Run of cert-issuance that was not refused has
\* a worker and an open queue, also when its start fell into an import.  The
\* exception: the queue was opened after an import had found it closed and before
\* that import closed it, so that the import did not open it again.
StartedIsOpen ==
    Quiet /\ daemon = "pump" /\ ~acme.refused =>
        acme.worker /\ (active \/ past.closed)

\* A rule is deleted only when no execution works for it: the drain of
\* CancelJobsForRule finds the executions of current, retired and forgotten
\* queues, or the deletion is given up and compensated.  The exceptions: a stop
\* has lifted its barrier, the compensation of another deletion of the rule has
\* enqueued behind it, or the drain fell into another drain's gap.
RuleDrained ==
    \A c \in Changers :
        rule[c].pc = "delete" /\ ~rule[c].passed /\ rule[c].job \notin past.missed =>
            \A q \in Queues : stage[q][rule[c].job] # "running"

\* What the manager's users may rely on, see IssueGate: a queue holds a job
\* while it executes it.
Gate == INSTANCE IssueGate WITH
            Holders  <- Queues,
            issuing  <- [j \in Jobs |-> {q \in Queues : stage[q][j] = "running"}],
            window   <- (imp.pc = "window"),
            adrift   <- past.missed,
            breached <- imp.late

\* The queue manager, its lifecycle, imports and rule changes implement the
\* gate: every dispatch finds the job free and no import window open, and a
\* window opens only after the last execution (PauseAndDrain, EnqueueIfActive),
\* but for the jobs and the windows the gate has given up.
GateKept == Gate!Spec
=============================================================================
