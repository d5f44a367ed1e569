---------------------------- MODULE ClusterSync ----------------------------
(***************************************************************************)
(* How a node of a cluster follows its master and how it changes sides     *)
(* (internal/services/cluster_sync.go, cluster_apply.go, cluster.go,       *)
(* cluster_status.go):                                                     *)
(*                                                                         *)
(*   - Pull, called by the sync loop and by the administrator: a request,  *)
(*     a transaction that replaces the rows, and what follows the commit   *)
(*     (branding file, bookkeeping, rule files, reload of Caddy), each of  *)
(*     which may fail;                                                     *)
(*   - the status column last_sync_error, which carries both messages and  *)
(*     the markers that make a later pull repeat what failed;              *)
(*   - Promote and BecomeSlave, which drain the pulls before they commit;  *)
(*   - the resident task cluster-sync, which starts and stops the loop.    *)
(*                                                                         *)
(* A snapshot is a number, and so is everything made from it: the rows,    *)
(* the files and the configuration Caddy runs.  Two snapshots may have the *)
(* same rows and differ in their rule files only.  0 is the node's own     *)
(* content, from before it followed anybody.                               *)
(***************************************************************************)
EXTENDS Naturals

CONSTANTS Snapshots,    \* how many versions the master publishes
          RowsOf,       \* the rows of each: the three hashed sections
          Faults,       \* which failures a run includes
          MaxFailures,  \* wafRepullMaxFailures
          Every,        \* wafRepullEvery
          MaxTrouble    \* failures and events (flips, manual pulls, switches
                        \* and restarts) in a behaviour

FaultKinds == {"transport", "invalid", "revoked", "rollback", "uncertain",
               "branding", "hashes", "ref", "files", "reload", "report",
               "drift", "flip", "load"}

ASSUME SyncAssumption ==
    /\ Snapshots \in Nat \ {0} /\ MaxFailures \in Nat /\ Every \in Nat \ {0}
    /\ MaxTrouble \in Nat
    /\ Faults \subseteq FaultKinds
    /\ RowsOf \in [0..Snapshots -> 0..Snapshots]
    /\ \A s \in 1..Snapshots : RowsOf[s] # 0

VARIABLES
    master,   \* what the master serves
    row,      \* global_config: role, registration, token, applied, error
    data,     \* the replaced rows, with the registration they came from
    book,     \* cluster_applied_sections and applied_waf_ref_hash
    disk,     \* certificate, branding and rule files
    running,  \* what Caddy runs
    sync,     \* SyncService: pullsStopped, state and retry counters
    loop,     \* the goroutine of run
    pull,     \* calls of Pull: the loop's and the administrator's
    task,     \* the resident task cluster-sync, as the engine drives it
    flip,     \* a call of Promote or BecomeSlave, under roleMu
    past,     \* history: a marker was overwritten, a bookkeeping is missing
    used      \* how much trouble so far

vars == <<master, row, data, book, disk, running, sync, loop, pull, task, flip, past,
          used>>

Content  == 0..Snapshots
Unset    == Snapshots + 1  \* nothing recorded
Regs     == 0..MaxTrouble + 1
Markers  == {"reload", "branding", "uncertain"}
Errors   == {"none", "error"} \cup Markers
Pullers  == {"loop", "manual"}
Reasons  == {"changed", "drifted", "certs", "wrote", "files", "reload",
             "branding", "uncertain", "tried", "unbooked"}
Results  == {"ok", "kept", "lost", "halt", "quiet"}
Effects  == {"branding", "hashes", "files", "load"}
PullPcs  == {"idle", "lock", "sent", "full", "check", "apply", "tx",
             "commit", "note", "write", "resume"} \cup Effects
Counter  == 0..MaxFailures + Every

RowType  == [role : {"slave", "master"}, reg : Regs, token : Regs,
             applied : Content, error : Errors]
DataType == [content : Content, from : Regs]
BookType == [sections : 0..Unset, files : 0..Unset]
DiskType == [certs : Content, branding : Content, files : Content]
SyncType == [stopped : BOOLEAN, state : {"stopped", "running", "halted"},
             reloadFails : Counter, fileFails : Counter]
LoopType == [pc : {"off", "load", "polled", "pull", "report", "write"},
             cancelled : BOOLEAN, reg : Regs, message : Errors \cup {"skip"},
             saw : Errors]
PullType == [pc : PullPcs, reg : Regs, token : Regs, since : Content,
             snap : Content, why : SUBSET Reasons, local : Content,
             result : Results, message : Errors \cup {"skip"},
             behind : BOOLEAN]
TaskType == [on : BOOLEAN, up : {"down", "up", "cancelled", "stopping"},
             engine : {"slave", "master"}]
FlipType == [pc : {"idle", "drain", "commit", "end", "resume"},
             kind : {"promote", "demote"}, wasOn : BOOLEAN]
PastType == [erased : BOOLEAN, unbooked : BOOLEAN, unseen : BOOLEAN]
UsedType == 0..MaxTrouble

NoPull == [pc |-> "idle", reg |-> 0, token |-> 0, since |-> 0, snap |-> 0,
           why |-> {}, local |-> 0, result |-> "ok", message |-> "skip",
           behind |-> FALSE]
NoLoop == [pc |-> "off", cancelled |-> FALSE, reg |-> 0, message |-> "skip",
           saw |-> "none"]
NoFlip == [pc |-> "idle", kind |-> "promote", wasOn |-> FALSE]

(***************************************************************************)
(* A slave that is registered and approved, not yet synchronised.          *)
(***************************************************************************)
Init ==
    /\ master = 1
    /\ row = [role |-> "slave", reg |-> 1, token |-> 1, applied |-> 0,
              error |-> "none"]
    /\ data = [content |-> 0, from |-> 0]
    /\ book = [sections |-> Unset, files |-> Unset]
    /\ disk = [certs |-> 0, branding |-> 0, files |-> 0]
    /\ running = 0
    /\ sync = [stopped |-> FALSE, state |-> "stopped", reloadFails |-> 0,
               fileFails |-> 0]
    /\ loop = NoLoop
    /\ pull = [p \in Pullers |-> NoPull]
    /\ task = [on |-> TRUE, up |-> "down", engine |-> "slave"]
    /\ flip = NoFlip
    /\ past = [erased |-> FALSE, unbooked |-> FALSE, unseen |-> FALSE]
    /\ used = 0

(***************************************************************************)
(* What the environment does, at most MaxTrouble times in a behaviour.  A  *)
(* loop whose context is cancelled fails for free.                         *)
(***************************************************************************)
Event       == used < MaxTrouble /\ used' = used + 1
Fault(kind) == kind \in Faults /\ Event

Interrupted(p) == p = "loop" /\ loop.cancelled

FaultOf(p, kind) ==
    \/ Interrupted(p) /\ UNCHANGED used
    \/ ~Interrupted(p) /\ Fault(kind)

Slave        == row.role = "slave"
Marked       == row.error \in Markers
InFlight(p)  == pull[p].pc \notin {"idle", "resume"}          \* in pullWG
Holding(p)   == pull[p].pc \notin {"idle", "resume", "lock"}  \* has pullMu
TxOpen       == \E p \in Pullers : pull[p].pc = "commit"
Drained      == \A p \in Pullers : ~InFlight(p)

Settling     == \E p \in Pullers : pull[p].pc \in Effects
Unbooked     == \E p \in Pullers : pull[p].pc \in {"branding", "hashes"}

(***************************************************************************)
(* The counters only matter through backoffDue: beyond MaxFailures they    *)
(* are kept modulo Every.                                                  *)
(***************************************************************************)
\* Defective variant: no retry after the first failures.
BackoffDue_GivesUp(n) == n <= MaxFailures
BackoffDue(n) == n <= MaxFailures \/ n % Every = 0
Bump(n) == IF n = MaxFailures + Every THEN MaxFailures + 1 ELSE n + 1
Persistent == sync.fileFails >= MaxFailures

(***************************************************************************)
(* last_sync_error.  Message is what recordSyncError decides to write      *)
(* after reading the column: an error that heals by itself ("kept") is     *)
(* combined with a marker, any other replaces it; a success clears the     *)
(* column unless a marker or a persistent failure must stay visible.       *)
(***************************************************************************)
\* Defective variant: a passing error replaces the marker.
Message_MarkerReplaced(result, tried) ==
    CASE result = "quiet"                 -> "skip"
      [] result \in {"lost", "halt", "kept"} -> "error"
      [] OTHER                            -> IF Marked THEN "skip" ELSE "none"

Message(result, tried) ==
    CASE result = "quiet"            -> "skip"
      [] result \in {"lost", "halt"} -> "error"
      [] result = "kept"             -> IF Marked THEN row.error ELSE "error"
      [] result = "ok" /\ Marked     -> "skip"
      [] result = "ok" /\ ~Marked /\ Persistent -> IF tried THEN "error" ELSE "skip"
      [] OTHER                       -> "none"

(***************************************************************************)
(* Two ways to lose a marker, kept as history: an error that needs the     *)
(* administrator replaces it, and so does a record of the loop that was    *)
(* decided before the marker was there.  Both end with the next reload.    *)
(***************************************************************************)
Erases(final) == past' = [past EXCEPT !.erased = @ \/ (Slave /\ Marked /\ final)]

PersistSyncError(message) ==
    row' = IF Slave THEN [row EXCEPT !.error = message] ELSE row

\* Defective variant: "leave it alone" is written.
Record_SkipWritten(message) == PersistSyncError(message)
Record(message) ==
    IF message = "skip" THEN UNCHANGED row ELSE PersistSyncError(message)

(***************************************************************************)
(* Start and Resume of the service, and the end of the loop (finishRun).   *)
(***************************************************************************)
StartLocked ==
    /\ sync' = [stopped |-> FALSE, state |-> "running", reloadFails |-> 0,
                fileFails |-> 0]
    /\ loop' = [NoLoop EXCEPT !.pc = "load"]

Start ==
    IF sync.state # "halted" /\ loop.pc = "off"
    THEN StartLocked ELSE UNCHANGED <<sync, loop>>

Resume ==
    IF sync.state = "halted" /\ loop.pc = "off"
    THEN StartLocked ELSE UNCHANGED <<sync, loop>>

FinishRun(state) == loop' = NoLoop /\ sync' = [sync EXCEPT !.state = state]

(***************************************************************************)
(* Pull.                                                                   *)
(***************************************************************************)
Goto(p, pc)   == pull' = [pull EXCEPT ![p].pc = pc]
Admit(p)      == pull' = [pull EXCEPT ![p].pc = "lock",  \* behind a drain?
                                      ![p].behind = flip.pc = "commit"]
Return(p, r)  == pull' = [pull EXCEPT ![p] =    \* only the outcome is left
                    [NoPull EXCEPT !.pc = "note", !.result = r,
                                   !.why = pull[p].why \cap {"tried"}]]

PullManual ==
    /\ Slave /\ pull["manual"].pc = "idle" /\ ~sync.stopped /\ Event
    /\ Admit("manual")
    /\ UNCHANGED <<master, row, data, book, disk, running, sync, loop, task, flip, past>>

PullRead(p) ==
    /\ pull[p].pc = "lock" /\ \A q \in Pullers : ~Holding(q)
    /\ \/ ~Slave /\ Return(p, "quiet")
       \/ Slave /\ row.token = 0 /\ Return(p, "lost")
       \/ /\ Slave /\ row.token # 0
          /\ pull' = [pull EXCEPT ![p].pc = "sent", ![p].reg = row.reg,
                                  ![p].token = row.token, ![p].since = row.applied]
    /\ UNCHANGED <<master, row, data, book, disk, running, sync, loop, task, flip, past,
                   used>>

(***************************************************************************)
(* The answer: a failure, a refusal of the token, 304 or the snapshot.     *)
(***************************************************************************)
PullFails(p) ==
    /\ pull[p].pc \in {"sent", "full"}
    /\ \/ FaultOf(p, "transport") /\ Return(p, "kept")
       \/ Fault("revoked") /\ Return(p, "halt")
       \/ pull[p].token # pull[p].reg /\ Return(p, "halt") /\ UNCHANGED used
    /\ UNCHANGED <<master, row, data, book, disk, running, sync, loop, task, flip, past>>

PullSnapshot(p) ==
    /\ pull[p].token = pull[p].reg
    /\ \/ pull[p].pc = "full"
       \/ pull[p].pc = "sent" /\ pull[p].since # master
    /\ pull' = [pull EXCEPT ![p].pc = "check", ![p].snap = master]
    /\ UNCHANGED <<master, row, data, book, disk, running, sync, loop, task, flip, past,
                   used>>

NotModified(p) == pull[p].pc = "sent" /\ pull[p].since = master
                     /\ pull[p].token = pull[p].reg
Repull         == Marked /\ BackoffDue(Bump(sync.reloadFails))
Retries        == IF Marked THEN Bump(sync.reloadFails) ELSE sync.reloadFails
Drifted        == book.sections # Unset /\ book.sections # data.content
FilesDrifted   == book.files # Unset /\ disk.files # book.files

PullRepull(p) ==
    /\ NotModified(p) /\ (Repull \/ Drifted)
    /\ sync' = [sync EXCEPT !.reloadFails = Retries]
    /\ Goto(p, "full")
    /\ UNCHANGED <<master, row, data, book, disk, running, loop, task, flip, past, used>>

PullUnchanged(p) ==
    /\ NotModified(p) /\ ~Repull /\ ~Drifted
    /\ \/ disk' = [disk EXCEPT !.branding = data.content] /\ UNCHANGED used
       \/ Fault("branding") /\ UNCHANGED disk
    /\ LET fails == IF FilesDrifted THEN Bump(sync.fileFails) ELSE 0 IN
       /\ sync' = [sync EXCEPT !.reloadFails = Retries, !.fileFails = fails]
       /\ IF FilesDrifted /\ BackoffDue(fails)
          THEN pull' = [pull EXCEPT ![p].pc = "full", ![p].why = {"tried"}]
          ELSE Return(p, "ok")
    /\ UNCHANGED <<master, row, data, book, running, loop, task, flip, past>>

(***************************************************************************)
(* The second look at the role and the credentials, and the integrity of   *)
(* the snapshot.                                                           *)
(***************************************************************************)
SameTopology(p) == Slave /\ row.reg = pull[p].reg /\ row.token = pull[p].token

PullCheck(p) ==
    /\ pull[p].pc = "check"
    /\ \/ ~SameTopology(p) /\ Return(p, "lost") /\ UNCHANGED used
       \/ /\ SameTopology(p) /\ Fault("invalid")
          /\ Return(p, "lost")
       \/ SameTopology(p) /\ Goto(p, "apply") /\ UNCHANGED used
    /\ UNCHANGED <<master, row, data, book, disk, running, sync, loop, task, flip, past>>

(***************************************************************************)
(* applySnapshot: what is read before the transaction, the transaction     *)
(* with its own check of the role, and the certificate files.              *)
(***************************************************************************)
Rows(p) == RowsOf[pull[p].snap]

PullApply(p) ==
    /\ pull[p].pc = "apply"
    /\ \/ sync.stopped /\ Return(p, "quiet")
       \/ /\ ~sync.stopped
          /\ LET same == book.sections = Rows(p)
                 why  == {r \in {"changed"} : ~(same /\ data.content = Rows(p))}
                         \cup {r \in {"drifted"} : same /\ data.content # Rows(p)}
                         \cup ({row.error} \cap Markers)
             IN pull' = [pull EXCEPT ![p].pc = "tx", ![p].local = data.content,
                                     ![p].why = pull[p].why \cup why]
    /\ UNCHANGED <<master, row, data, book, disk, running, sync, loop, task, flip, past,
                   used>>

PullTx(p) ==
    /\ pull[p].pc = "tx"
    /\ \/ ~SameTopology(p) /\ Return(p, "kept") /\ UNCHANGED <<disk, used>>
       \/ FaultOf(p, "rollback") /\ Return(p, "kept") /\ UNCHANGED disk
       \/ /\ SameTopology(p)
          /\ disk' = [disk EXCEPT !.certs = Rows(p)]
          /\ pull' = [pull EXCEPT ![p].pc = "commit", ![p].why = pull[p].why \cup
                          {r \in {"certs"} : disk.certs # Rows(p)}]
          /\ UNCHANGED used
    /\ UNCHANGED <<master, row, data, book, running, sync, loop, task, flip, past>>

Committed(p, error) ==
    /\ data' = [content |-> Rows(p), from |-> pull[p].reg]
    /\ past' = [past EXCEPT !.unseen = FALSE]
    /\ row'  = [row EXCEPT !.applied = pull[p].snap, !.error = error]

PullCommit(p) ==
    /\ pull[p].pc = "commit"
    /\ \/ /\ ~Interrupted(p) /\ Committed(p, "none") /\ Goto(p, "branding")
          /\ UNCHANGED <<disk, used>>
       \/ /\ FaultOf(p, "rollback") /\ Return(p, "kept")
          /\ disk' = [disk EXCEPT !.certs = pull[p].local]
          /\ UNCHANGED <<row, data, past>>
       \/ /\ FaultOf(p, "uncertain") /\ Return(p, "kept")
          /\ \/ Committed(p, "uncertain")
             \/ PersistSyncError("uncertain") /\ UNCHANGED <<data, past>>
          /\ UNCHANGED disk
    /\ UNCHANGED <<master, book, running, sync, loop, task, flip>>

(***************************************************************************)
(* What follows the commit.                                                *)
(***************************************************************************)
PullBranding(p) ==
    /\ pull[p].pc = "branding"
    /\ IF pull[p].why \cap {"changed", "branding", "reload", "uncertain"} = {}
       THEN Goto(p, "hashes") /\ UNCHANGED <<row, disk, used>>
       ELSE \/ /\ disk' = [disk EXCEPT !.branding = Rows(p)]
               /\ pull' = [pull EXCEPT ![p].pc = "hashes", ![p].why = pull[p].why
                      \cup {r \in {"wrote"} : disk.branding # Rows(p)}]
               /\ UNCHANGED <<row, used>>
            \/ /\ Fault("branding") /\ PersistSyncError("branding")
               /\ Goto(p, "hashes") /\ UNCHANGED disk
    /\ UNCHANGED <<master, data, book, running, sync, loop, task, flip, past>>

\* Defective variant: the reference of the rule files is not booked.
PullHashes_FilesLeftOut(p) ==
    /\ pull[p].pc = "hashes" /\ Goto(p, "files")
    /\ book' = [book EXCEPT !.sections = Rows(p)]
    /\ past' = [past EXCEPT !.unbooked = FALSE]
    /\ UNCHANGED <<master, row, data, disk, running, sync, loop, task, flip, used>>

PullHashes(p) ==
    /\ pull[p].pc = "hashes"
    /\ LET sections == IF "drifted" \in pull[p].why THEN pull[p].local ELSE Rows(p)
       IN \/ /\ book' = [sections |-> sections, files |-> pull[p].snap]
             /\ Goto(p, "files") /\ past' = [past EXCEPT !.unbooked = FALSE]
             /\ UNCHANGED used
          \/ /\ \/ FaultOf(p, "hashes") /\ UNCHANGED book
                \/ /\ FaultOf(p, "ref")
                   /\ book' = [book EXCEPT !.sections = sections]
             /\ pull' = [pull EXCEPT ![p].pc = "files",
                                     ![p].why = pull[p].why \cup {"unbooked"}]
             /\ past' = [past EXCEPT !.unbooked = TRUE]
    /\ UNCHANGED <<master, row, data, disk, running, sync, loop, task, flip>>

PullFiles(p) ==
    /\ pull[p].pc = "files"
    /\ IF FilesDrifted \/ ("unbooked" \in pull[p].why /\ disk.files # pull[p].snap)
       THEN \/ /\ disk' = [disk EXCEPT !.files = pull[p].snap]
               /\ pull' = [pull EXCEPT ![p].pc = "load",
                                       ![p].why = pull[p].why \cup {"files"}]
               /\ UNCHANGED used
            \/ FaultOf(p, "files") /\ Goto(p, "load") /\ UNCHANGED disk
       ELSE Goto(p, "load") /\ UNCHANGED <<disk, used>>
    /\ UNCHANGED <<master, row, data, book, running, sync, loop, task, flip, past>>

MustReload(p) == pull[p].why \cap {"changed", "certs", "wrote", "files", "reload",
                                   "uncertain"} # {}

PullLoad(p) ==
    /\ pull[p].pc = "load"
    /\ \/ MustReload(p) /\ running' = data.content /\ UNCHANGED <<row, used>>
       \/ ~MustReload(p) /\ UNCHANGED <<row, running, used>>
       \/ /\ MustReload(p) /\ Fault("reload") /\ PersistSyncError("reload")
          /\ UNCHANGED running
    /\ sync' = [sync EXCEPT
          !.fileFails   = IF FilesDrifted THEN sync.fileFails ELSE 0,
          !.reloadFails = IF row'.error \in Markers THEN sync.reloadFails ELSE 0]
    /\ past' = [past EXCEPT !.erased = past.erased /\ ~MustReload(p)]
    /\ Return(p, "ok")
    /\ UNCHANGED <<master, data, book, disk, loop, task, flip>>

PullNote(p) ==
    /\ pull[p].pc = "note"
    /\ pull' = [pull EXCEPT ![p].pc = "write",
                 ![p].message = Message(pull[p].result, "tried" \in pull[p].why)]
    /\ UNCHANGED <<master, row, data, book, disk, running, sync, loop, task, flip, past,
                   used>>

(***************************************************************************)
(* The record is written and the call returns: to the loop, which reports  *)
(* or ends, or to the handler, which resumes a halted loop after a success *)
(* as soon as no Stop holds lifecycleMu.                                   *)
(***************************************************************************)
PullWrite(p) ==
    /\ pull[p].pc = "write"
    /\ Record(pull[p].message) /\ Erases(pull[p].result \in {"lost", "halt"})
    /\ pull' = [pull EXCEPT ![p] =
                   IF p = "manual" /\ pull[p].result = "ok"
                   THEN [NoPull EXCEPT !.pc = "resume"] ELSE NoPull]
    /\ \/ p = "manual" /\ UNCHANGED <<sync, loop>>
       \/ p = "loop" /\ pull[p].result = "halt" /\ FinishRun("halted")
       \/ /\ p = "loop" /\ pull[p].result # "halt"
          /\ loop' = [loop EXCEPT !.pc = IF pull[p].result = "ok"
                                         THEN "report" ELSE "load"]
          /\ UNCHANGED sync
    /\ UNCHANGED <<master, data, book, disk, running, task, flip, used>>

PullResume ==
    /\ pull["manual"].pc = "resume" /\ task.up # "stopping"
    /\ Resume
    /\ Goto("manual", "idle")
    /\ UNCHANGED <<master, row, data, book, disk, running, task, flip, past, used>>

PullStep(p) ==
    \/ PullRead(p) \/ PullFails(p) \/ PullSnapshot(p)
    \/ PullRepull(p) \/ PullUnchanged(p) \/ PullCheck(p) \/ PullApply(p)
    \/ PullTx(p) \/ PullCommit(p) \/ PullBranding(p) \/ PullHashes(p)
    \/ PullFiles(p) \/ PullLoad(p) \/ PullNote(p) \/ PullWrite(p)

(***************************************************************************)
(* The sync loop (run): wait and read the state, then poll the             *)
(* registration or pull, report and record.  A round that finds the        *)
(* admission closed records nothing and waits again.                       *)
(***************************************************************************)
LoopUnchanged == UNCHANGED <<master, data, book, disk, running, task, flip>>

LoopEnds ==
    /\ loop.pc = "load" /\ (loop.cancelled \/ ~Slave)
    /\ FinishRun("stopped")
    /\ LoopUnchanged /\ UNCHANGED <<past, row, pull, used>>

\* The loop's own record is decided here and written in a later step.
LoopNote(result) ==
    loop' = [loop EXCEPT !.pc = "write", !.saw = row.error,
                         !.message = Message(result, FALSE)]

LoopLoad ==
    /\ loop.pc = "load" /\ ~loop.cancelled /\ Slave
    /\ \/ /\ row.token = 0
          /\ loop' = [loop EXCEPT !.pc = "polled", !.reg = row.reg]
          /\ UNCHANGED <<pull, used>>
       \/ /\ row.token # 0 /\ ~sync.stopped
          /\ loop' = [loop EXCEPT !.pc = "pull"] /\ Admit("loop")
          /\ UNCHANGED used
       \/ Fault("load") /\ LoopNote("kept") /\ UNCHANGED pull
    /\ LoopUnchanged /\ UNCHANGED <<past, row, sync>>

(***************************************************************************)
(* The master approved the registration it was asked about: its token is   *)
(* stored, whatever the row says by now, as long as it is a slave's.       *)
(***************************************************************************)
LoopPolled ==
    /\ loop.pc = "polled" /\ ~TxOpen
    /\ row' = IF Slave THEN [row EXCEPT !.token = loop.reg] ELSE row
    /\ loop' = [loop EXCEPT !.pc = "load"]
    /\ LoopUnchanged /\ UNCHANGED <<past, sync, pull, used>>

LoopReport ==
    /\ loop.pc = "report"
    /\ \/ LoopNote("ok") /\ UNCHANGED used
       \/ FaultOf("loop", "report") /\ LoopNote("kept")
    /\ LoopUnchanged /\ UNCHANGED <<past, row, sync, pull>>

LoopWrite ==
    /\ loop.pc = "write" /\ ~TxOpen
    /\ Record(loop.message) /\ Erases(loop.message # "skip" /\ loop.saw # row.error)
    /\ loop' = [loop EXCEPT !.pc = "load", !.message = "skip", !.saw = "none"]
    /\ LoopUnchanged /\ UNCHANGED <<sync, pull, used>>

LoopStep == LoopEnds \/ LoopLoad \/ LoopPolled \/ LoopReport \/ LoopWrite

(***************************************************************************)
(* The resident task: its Run starts the service and stops it when the     *)
(* engine cancels its context.                                             *)
(***************************************************************************)
Cancel(t) == [t EXCEPT !.up = IF t.up = "up" THEN "cancelled" ELSE t.up]

TaskUnchanged == UNCHANGED <<master, row, data, book, disk, running, pull, flip, past>>

Switch ==
    /\ Event
    /\ task' = IF task.on THEN [Cancel(task) EXCEPT !.on = FALSE]
               ELSE [task EXCEPT !.on = TRUE]
    /\ TaskUnchanged /\ UNCHANGED <<sync, loop>>

TaskStart ==
    /\ task.up = "down" /\ task.on /\ task.engine = "slave"
    /\ task' = [task EXCEPT !.up = "up"]
    /\ Start
    /\ TaskUnchanged /\ UNCHANGED used

TaskStop ==
    /\ task.up = "cancelled"
    /\ task' = [task EXCEPT !.up = "stopping"]
    /\ sync' = [sync EXCEPT !.stopped = TRUE]
    /\ loop' = [loop EXCEPT !.cancelled = loop.pc # "off"]
    /\ TaskUnchanged /\ UNCHANGED used

TaskStopped ==
    /\ task.up = "stopping" /\ loop.pc = "off" /\ Drained
    /\ task' = [task EXCEPT !.up = "down"]
    /\ sync' = [sync EXCEPT !.reloadFails = 0, !.fileFails = 0,
                   !.state = IF sync.state = "halted" THEN "halted" ELSE "stopped"]
    /\ TaskUnchanged /\ UNCHANGED <<loop, used>>

TaskStep == TaskStart \/ TaskStop \/ TaskStopped

(***************************************************************************)
(* Promote and BecomeSlave, one at a time under roleMu: close the          *)
(* admission, wait for the pulls, commit, and open the admission again on  *)
(* every path.                                                             *)
(***************************************************************************)
FlipUnchanged == UNCHANGED <<master, data, disk, running, loop, pull, past>>

Drain ==
    /\ flip.pc = "idle" /\ Event
    /\ sync' = [sync EXCEPT !.stopped = TRUE]

PromoteBegin ==
    /\ Slave /\ Drain
    /\ flip' = [pc |-> "drain", kind |-> "promote", wasOn |-> task.on]
    /\ task' = [Cancel(task) EXCEPT !.on = FALSE]
    /\ FlipUnchanged /\ UNCHANGED <<row, book>>

DemoteBegin ==
    /\ Drain
    /\ flip' = [pc |-> "drain", kind |-> "demote", wasOn |-> task.on]
    /\ FlipUnchanged /\ UNCHANGED <<row, book, task>>

\* Defective variant: the pulls in flight are not waited for.
FlipDrained_NotAwaited ==
    /\ flip.pc = "drain"
    /\ flip' = [flip EXCEPT !.pc = "commit"]
    /\ FlipUnchanged /\ UNCHANGED <<row, book, sync, task, used>>

FlipDrained ==
    /\ flip.pc = "drain" /\ Drained
    /\ flip' = [flip EXCEPT !.pc = "commit"]
    /\ FlipUnchanged /\ UNCHANGED <<row, book, sync, task, used>>

\* Defective variant: a failed flip does not admit pulls again.
FlipFails_LeftClosed ==
    /\ flip.pc \in {"drain", "commit"} /\ Fault("flip")
    /\ task' = [task EXCEPT !.on = task.on \/ (flip.kind = "promote" /\ flip.wasOn)]
    /\ flip' = NoFlip
    /\ FlipUnchanged /\ UNCHANGED <<row, book, sync>>

\* The wait runs out or the transaction fails: nothing flips.
FlipFails ==
    /\ flip.pc \in {"drain", "commit"} /\ Fault("flip")
    /\ sync' = [sync EXCEPT !.stopped = FALSE]
    /\ task' = [task EXCEPT !.on = task.on \/ (flip.kind = "promote" /\ flip.wasOn)]
    /\ flip' = NoFlip
    /\ FlipUnchanged /\ UNCHANGED <<row, book>>

\* Defective variant: the applied version outlives the flip.
Cleared_AppliedKept(r) == [r EXCEPT !.token = 0, !.error = "none"]
Cleared(r) == [r EXCEPT !.token = 0, !.applied = 0, !.error = "none"]

PromoteCommit ==
    /\ flip.pc = "commit" /\ flip.kind = "promote" /\ ~TxOpen
    /\ row' = [Cleared(row) EXCEPT !.role = "master"]
    /\ book' = [sections |-> Unset, files |-> Unset]
    /\ flip' = [flip EXCEPT !.pc = "end"]
    /\ FlipUnchanged /\ UNCHANGED <<sync, task, used>>

PromoteEnd ==
    /\ flip.pc = "end" /\ flip.kind = "promote"
    /\ task' = [Cancel(task) EXCEPT !.engine = "master",
                                    !.on = task.on \/ flip.wasOn]
    /\ sync' = [sync EXCEPT !.stopped = FALSE]
    /\ flip' = NoFlip
    /\ FlipUnchanged /\ UNCHANGED <<row, book, used>>

DemoteCommit ==
    /\ flip.pc = "commit" /\ flip.kind = "demote" /\ ~TxOpen
    /\ row' = [Cleared(row) EXCEPT !.role = "slave", !.reg = row.reg + 1]
    /\ book' = [sections |-> Unset, files |-> Unset]
    /\ sync' = [sync EXCEPT !.stopped = FALSE]
    /\ flip' = [flip EXCEPT !.pc = "end"]
    /\ FlipUnchanged /\ UNCHANGED <<task, used>>

DemoteEnd ==
    /\ flip.pc = "end" /\ flip.kind = "demote"
    /\ task' = IF task.engine = "slave" THEN task
               ELSE [Cancel(task) EXCEPT !.engine = "slave"]
    /\ flip' = [flip EXCEPT !.pc = "resume"]
    /\ FlipUnchanged /\ UNCHANGED <<row, book, sync, used>>

\* BecomeSlave resumes a halted loop when the task is on, its handler always.
DemoteResume ==
    /\ flip.pc = "resume" /\ task.up # "stopping"
    /\ Resume
    /\ flip' = NoFlip
    /\ UNCHANGED <<master, row, data, book, disk, running, pull, task, past, used>>

FlipStep == FlipDrained \/ PromoteCommit \/ PromoteEnd \/ DemoteCommit
               \/ DemoteEnd \/ DemoteResume

(***************************************************************************)
(* The environment: the master publishes, a master's own configuration is  *)
(* edited, a slave's rows are damaged behind its back, the process dies.   *)
(***************************************************************************)
Publish ==
    /\ master < Snapshots /\ master' = master + 1
    /\ UNCHANGED <<row, data, book, disk, running, sync, loop, pull, task, flip, past,
                   used>>

Edit ==
    /\ ~Slave /\ data.content # 0
    /\ data' = [content |-> 0, from |-> 0] /\ running' = 0
    /\ UNCHANGED <<master, row, book, disk, sync, loop, pull, task, flip, past, used>>

\* One damage at a time: the healing round itself is not damaged again.
Damage ==
    /\ Slave /\ ~TxOpen /\ ~Settling /\ ~Drifted /\ Fault("drift")
    /\ data' = [data EXCEPT !.content = 0]
    /\ past' = [past EXCEPT !.unseen = @ \/ book.sections = Unset]
    /\ UNCHANGED <<master, row, book, disk, running, sync, loop, pull, task, flip>>

Restart ==
    /\ Event
    /\ sync' = [stopped |-> FALSE, state |-> "stopped", reloadFails |-> 0,
                fileFails |-> 0]
    /\ loop' = NoLoop /\ pull' = [p \in Pullers |-> NoPull] /\ flip' = NoFlip
    /\ past' = [past EXCEPT !.unbooked = @ \/ Unbooked]
    /\ task' = [on |-> task.on \/ (flip.kind = "promote" /\ flip.wasOn),
                up |-> "down", engine |-> row.role]
    /\ \/ running' = data.content /\ UNCHANGED row
       \/ "reload" \in Faults /\ PersistSyncError("reload") /\ UNCHANGED running
    /\ UNCHANGED <<master, data, book, disk>>

Next ==
    \/ \E p \in Pullers : PullStep(p)
    \/ PullManual \/ PullResume \/ LoopStep
    \/ Switch \/ TaskStep
    \/ PromoteBegin \/ DemoteBegin \/ FlipStep \/ FlipFails
    \/ Publish \/ Edit \/ Damage \/ Restart

Spec == Init /\ [][Next]_vars

(***************************************************************************)
(* The four goroutines keep running: the loop with its pulls, the handler  *)
(* of a manual pull, the resident task, a flip.  The administrator, the    *)
(* master and the faults owe nothing.                                      *)
(***************************************************************************)
Fairness ==
    /\ WF_vars(PullStep("loop") \/ LoopStep)
    /\ WF_vars(PullStep("manual") \/ PullResume)
    /\ WF_vars(TaskStep)
    /\ WF_vars(FlipStep)

FairSpec == Spec /\ Fairness

(***************************************************************************)
(* Properties.                                                             *)
(***************************************************************************)
\* Every variable has its type; last_sync_error holds a message of the code,
\* never the decision to leave it alone (recordSyncError).
TypeOK ==
    /\ master \in 1..Snapshots
    /\ row \in RowType /\ data \in DataType /\ book \in BookType
    /\ disk \in DiskType /\ running \in Content
    /\ sync \in SyncType /\ loop \in LoopType
    /\ pull \in [Pullers -> PullType]
    /\ task \in TaskType /\ flip \in FlipType /\ past \in PastType
    /\ used \in UsedType

(***************************************************************************)
(* A slave whose Caddy does not run its rows carries a marker that makes a *)
(* later pull reload it, or will pull in full anyway (cluster_apply.go,    *)
(* recordSyncError): no record of a later round erases the marker.         *)
(* Exceptions: an error that needs the administrator, and a record of the  *)
(* loop that was decided before the marker was set.                        *)
(***************************************************************************)
DivergenceMarked ==
    (Slave /\ ~Settling /\ running # data.content)
        => (Marked \/ row.applied = 0 \/ Drifted \/ past.erased \/ past.unseen)

(***************************************************************************)
(* The rows of a slave that counts itself as synchronised come from the    *)
(* registration it has now: neither a pull that began under an earlier     *)
(* master nor one that overlaps a promotion writes its snapshot.           *)
(***************************************************************************)
AppliedFromCurrent ==
    (Slave /\ row.applied # 0) => data.from = row.reg

(***************************************************************************)
(* What follows a commit still belongs to the present registration: the    *)
(* drain of Promote and BecomeSlave keeps the bookkeeping, the files and   *)
(* the reload of an old master's snapshot on its side of the flip.  The    *)
(* exception is a pull that a start of the service let in after the drain  *)
(* was over and before the flip committed.                                 *)
(***************************************************************************)
EffectsCurrent ==
    \A p \in Pullers :
        pull[p].pc \in Effects => SameTopology(p) \/ pull[p].behind

(***************************************************************************)
(* A loop that nobody is stopping can pull: every path of Promote and      *)
(* BecomeSlave opens the admission again (reopenPullAdmission).            *)
(***************************************************************************)
AdmissionOpen ==
    (loop.pc # "off" /\ ~loop.cancelled /\ flip.pc = "idle"
        /\ task.up \notin {"stopping"}) => ~sync.stopped

(***************************************************************************)
(* A slave whose task is on ends with the master's snapshot in its rows,   *)
(* its files and its Caddy, and with a clean status, whatever failed on    *)
(* the way, unless what a later pull would go by was itself lost: an       *)
(* erased marker, a bookkeeping that did not happen, rows damaged while    *)
(* nothing was booked to compare them with.                                *)
(***************************************************************************)
Forgotten == past.erased \/ past.unbooked \/ past.unseen

Follows ==
    /\ data.content = RowsOf[master] /\ running = RowsOf[master]
    /\ row.error = "none"
    /\ disk = [certs |-> RowsOf[master], branding |-> RowsOf[master],
               files |-> master]

Converges ==
    <>[]((Slave /\ task.on /\ sync.state # "halted" /\ ~Forgotten) => Follows)

(***************************************************************************)
(* The rule files of a slave at rest are those of its rows, or something   *)
(* recorded makes a later pull fetch them (cluster_sync.go,                *)
(* wafFilesDrifted), unless the record was lost with an erased marker.     *)
(***************************************************************************)
FilesCompared ==
    (Slave /\ ~Settling /\ row.applied # 0 /\ disk.files # row.applied)
        => (FilesDrifted \/ Drifted \/ Marked \/ row.applied # master
              \/ past.erased)

(***************************************************************************)
(* The same, once the bookkeeping of the last snapshot is done: a file     *)
(* that could not be fetched, at whatever step, is not forgotten.          *)
(***************************************************************************)
FilesAccounted == past.unbooked \/ FilesCompared
=============================================================================
