---------------------------- MODULE ConfigImport ----------------------------
(***************************************************************************)
(* A configuration import and the ways it can end                          *)
(* (internal/handlers/config_import_coordinator.go, config_backup.go,      *)
(* config_backup_lbbak.go; internal/services/caddy.go, waffiles_sync.go,   *)
(* crsseed.go, waf_file_crash_reconcile.go).                               *)
(*                                                                         *)
(* An import changes four things that no transaction spans: the rows of    *)
(* the database, the rule files, the certificate files and what Caddy has  *)
(* loaded.  Files and Caddy change before the commit.  Every step may      *)
(* fail, the commit may fail without saying whether it landed, and the     *)
(* process may die between any two steps; the abort and the startup        *)
(* sequence put the four together again.                                   *)
(*                                                                         *)
(* A generation is a number: 0 nothing, 1 what the image brings, 2 an      *)
(* earlier update, 2 + k what the k-th import brings.  The window of an    *)
(* import (drained tasks and queues, caddyOpMu) is the business of the     *)
(* modules TaskRuns and CAQueue; here at most one session is open.         *)
(***************************************************************************)
EXTENDS Naturals

CONSTANTS MaxImports,  \* imports in a behaviour
          MaxFaults,   \* failing steps in it
          MaxCrashes,  \* deaths of the process in it
          SameJson     \* an import may render to the JSON committed already

ASSUME ImportAssumption ==
    /\ MaxImports \in Nat /\ MaxFaults \in Nat /\ MaxCrashes \in Nat
    /\ SameJson \in BOOLEAN

VARIABLES
    rows,   \* the committed rows: rendered JSON, certificate, versions
    tx,     \* the same as the open transaction sees it; rows when none is open
    disk,   \* certificate, CRS tree and its .sync-bak, xdb and .version, list
    vol,    \* the CRS tree kept on the data volume
    caddy,  \* what Caddy loaded
    lkg,    \* the JSON in the last-known-good file
    was,    \* every JSON that was ever committed (history)
    pc,     \* the step of the session or of the startup sequence
    ses,    \* configImportSession
    told,   \* what a banner, an audit entry or the answer admits
    logged, \* parts whose last repair failed with a line in the log (history)
    lost,   \* a session died with the process (history)
    used    \* imports, faults and crashes so far

vars == <<rows, tx, disk, vol, caddy, lkg, was, pc, ses, told, logged, lost, used>>

Missing == 0
Bundled == 1
Unmarked == MaxImports + 3  \* a CRS tree without its VERSION marker
Gens    == 0..MaxImports + 3
Unset   == MaxImports + 4  \* not recorded
Parts   == {"conf", "cert", "crs", "xdb", "threat"}
Steps   == {"idle", "files", "crs", "swap", "copy", "xdb", "tag", "threat",
            "prune", "keep", "certs", "apply", "plan", "commit", "persist",
            "abort", "view", "untried", "back", "run", "absent", "cleanup",
            "seed", "leftovers", "state", "boot"}

RowsType  == [conf : Gens, cert : Gens, crs : Gens, xdb : Gens, threat : Gens]
DiskType  == [cert : Gens, crs : Gens, bak : Gens, xdb : Gens, tag : Gens,
              threat : Gens]
FilesType == [crs : Gens \cup {Unset}, xdb : Gens \cup {Unset},
              tag : Gens \cup {Unset}, threat : Gens \cup {Unset}]
SesType   == [snap : FilesType, keep : Gens \cup {Unset}, tried : BOOLEAN,
              unsure : BOOLEAN, plan : BOOLEAN, applied : Gens]
UsedType  == [imports : 0..MaxImports, faults : 0..MaxFaults,
              crashes : 0..MaxCrashes]

NoFiles == [crs |-> Unset, xdb |-> Unset, tag |-> Unset, threat |-> Unset]
NoSes   == [snap |-> NoFiles, keep |-> Unset, tried |-> FALSE,
            unsure |-> FALSE, plan |-> FALSE, applied |-> 0]

-----------------------------------------------------------------------------
(* What rendering reads and writes.                                        *)

\* Rendering writes the certificates of its view to disk; files of rules that
\* have none stay (MaterializeCertPairs).
Materialise(view, files) ==
    IF view.cert = Missing THEN files ELSE [files EXCEPT !.cert = view.cert]

\* What Caddy holds after it provisioned the JSON of a view: the JSON names
\* the files by path, their content is read now.
Render(view, files) ==
    [conf   |-> view.conf,
     cert   |-> IF view.cert = Missing THEN Missing ELSE files.cert,
     crs    |-> files.crs, xdb |-> files.xdb, threat |-> files.threat]

\* The last-known-good JSON with the files as they are.
Replay == [conf |-> lkg, cert |-> disk.cert, crs |-> disk.crs,
           xdb |-> disk.xdb, threat |-> disk.threat]

Fault == /\ used.faults < MaxFaults
         /\ used' = [used EXCEPT !.faults = @ + 1]

Fails  == Fault /\ pc' = "abort"  \* a step returns an error: session.abort

-----------------------------------------------------------------------------
(* The session: files before the transaction, Caddy before the commit.     *)

Confs(k) == IF SameJson THEN {rows.conf, k} ELSE {k}

\* A JSON backup: rows and certificates.
Plain(k) ==
    {[conf |-> c, cert |-> t, crs |-> rows.crs, xdb |-> rows.xdb,
      threat |-> rows.threat] : c \in Confs(k), t \in {Missing, k}}

\* A .lbbak archive: rule files as well, a threat list perhaps.
Archive(k) ==
    {[conf |-> c, cert |-> t, crs |-> k, xdb |-> k, threat |-> s] :
        c \in Confs(k), t \in {Missing, k}, s \in {Missing, k}}

\* What the next import brings.  A certificate that appears or disappears
\* shows in the JSON; a renewed one, and new rule files, do not.
Candidates ==
    {c \in Plain(used.imports + 3) \cup Archive(used.imports + 3) :
        (c.cert = Missing) # (rows.cert = Missing) => c.conf # rows.conf}

\* A JSON backup has no file phase, a .lbbak archive has.
Begin ==
    /\ pc = "idle" /\ used.imports < MaxImports
    /\ \E c \in Candidates :
         /\ tx' = c
         /\ pc' = IF c \in Archive(used.imports + 3) THEN "files" ELSE "keep"
    /\ ses' = NoSes
    /\ used' = [used EXCEPT !.imports = @ + 1]
    /\ UNCHANGED <<rows, disk, vol, caddy, lkg, was, told, logged, lost>>

LiveFiles == [crs |-> disk.crs, xdb |-> disk.xdb, tag |-> disk.tag,
              threat |-> disk.threat]

\* snapshotLbbakWafTargets: nothing is written before everything is copied.
SnapshotFiles ==
    /\ pc = "files"
    /\ \/ /\ pc' = "crs" /\ ses' = [ses EXCEPT !.snap = LiveFiles]
          /\ UNCHANGED used
       \/ Fails /\ UNCHANGED ses
    /\ UNCHANGED <<rows, tx, disk, vol, caddy, lkg, was, told, logged, lost>>

\* untarGzTo on entry: a backup left by an installation that did not finish
\* goes back into place, then the archive is unpacked and verified.
UnpackCRS ==
    /\ pc = "crs" /\ pc' = "swap"
    /\ disk' = IF disk.bak = Missing THEN disk
               ELSE [disk EXCEPT !.crs = disk.bak, !.bak = Missing]
    /\ UNCHANGED <<rows, tx, vol, caddy, lkg, was, ses, told, logged, lost, used>>

\* The live tree is copied to .sync-bak and removed.
SwapCRS ==
    /\ pc = "swap" /\ pc' = "copy"
    /\ disk' = [disk EXCEPT !.bak = disk.crs, !.crs = Missing]
    /\ UNCHANGED <<rows, tx, vol, caddy, lkg, was, ses, told, logged, lost, used>>

CopyCRS ==
    /\ pc = "copy" /\ pc' = "xdb"
    /\ disk' = [disk EXCEPT !.crs = tx.crs, !.bak = Missing]
    /\ UNCHANGED <<rows, tx, vol, caddy, lkg, was, ses, told, logged, lost, used>>

\* Defective variant: the version of the tree that did not land is kept.
LocalVersions_CrsKept(view) ==
    [view EXCEPT !.xdb = rows.xdb,
                 !.threat = IF @ = Missing THEN Missing ELSE rows.threat]

\* The version rows of files that did not land become the local ones again,
\* in the same transaction.
LocalVersions(view) ==
    [view EXCEPT !.crs = rows.crs, !.xdb = rows.xdb,
                 !.threat = IF @ = Missing THEN Missing ELSE rows.threat]

\* The left-over backup cannot be put back, the archive is refused, or its copy
\* fails and the backup, which stays, is put back.  The IP database and the
\* lists of the archive are refused with it; the import goes on.  The answer
\* carries the error of a restoration that failed; that the tree now is the one
\* of a left-over backup, which is not the recorded one, only the log says.
CRSFails ==
    /\ pc \in {"crs", "swap", "copy"} /\ Fault
    /\ pc = "crs" => disk.bak # Missing
    /\ LET old == IF pc = "swap" THEN disk.crs ELSE disk.bak
       IN  \/ /\ pc # "crs" /\ disk' = [disk EXCEPT !.crs = old]
              /\ logged' = logged \cup IF old = ses.snap.crs THEN {} ELSE {"crs"}
              /\ UNCHANGED told
           \/ /\ pc # "swap" /\ disk' \in {disk, [disk EXCEPT !.crs = Missing]}
              /\ told' = told \cup {"crs"} /\ UNCHANGED logged
    /\ tx' = LocalVersions(tx)
    /\ pc' = IF tx.threat = Missing THEN "prune" ELSE "keep"
    /\ UNCHANGED <<rows, vol, caddy, lkg, was, ses, lost>>

ThreatStep == IF tx.threat = Missing THEN "prune" ELSE "threat"

\* ip2region.xdb is validated and renamed into place, then its .version.
LandXdb ==
    /\ pc = "xdb"
    /\ \/ /\ pc' = "tag" /\ disk' = [disk EXCEPT !.xdb = tx.xdb]
          /\ UNCHANGED <<tx, used>>
       \/ /\ Fault /\ pc' = ThreatStep
          /\ tx' = [tx EXCEPT !.xdb = rows.xdb] /\ UNCHANGED disk
    /\ UNCHANGED <<rows, vol, caddy, lkg, was, ses, told, logged, lost>>

LandTag ==
    /\ pc = "tag" /\ pc' = ThreatStep
    /\ \/ disk' = [disk EXCEPT !.tag = tx.xdb] /\ UNCHANGED <<tx, told, used>>
       \/ /\ Fault /\ tx' = [tx EXCEPT !.xdb = rows.xdb]
          /\ told' = told \cup {"xdb"} /\ UNCHANGED disk
    /\ UNCHANGED <<rows, vol, caddy, lkg, was, ses, logged, lost>>

\* A list is compiled into place; a source whose list fails keeps file and row.
LandThreat ==
    /\ pc = "threat" /\ pc' = "keep"
    /\ \/ disk' = [disk EXCEPT !.threat = tx.threat] /\ UNCHANGED <<tx, used>>
       \/ /\ Fault /\ tx' = [tx EXCEPT !.threat = rows.threat]
          /\ UNCHANGED disk
    /\ UNCHANGED <<rows, vol, caddy, lkg, was, ses, told, logged, lost>>

\* reconcileImportedThreatFiles: the file of a source that is gone is removed.
PruneThreat ==
    /\ pc = "prune" /\ pc' = "keep"
    /\ \/ disk' = [disk EXCEPT !.threat = Missing] /\ UNCHANGED <<told, used>>
       \/ Fault /\ told' = told \cup {"threat"} /\ UNCHANGED disk
    /\ UNCHANGED <<rows, tx, vol, caddy, lkg, was, ses, logged, lost>>

\* commit begins: snapshotImportRuntime.  Before it, restoring the rows (the
\* version sentinels, the role) may fail as well.
KeepRuntime ==
    /\ pc = "keep"
    /\ \/ pc' = "certs" /\ ses' = [ses EXCEPT !.keep = disk.cert]
          /\ UNCHANGED used
       \/ Fails /\ UNCHANGED ses
    /\ UNCHANGED <<rows, tx, disk, vol, caddy, lkg, was, told, logged, lost>>

WriteCerts ==
    /\ pc = "certs"
    /\ \/ pc' = "apply" /\ disk' = Materialise(tx, disk) /\ UNCHANGED used
       \/ Fails /\ UNCHANGED disk
    /\ UNCHANGED <<rows, tx, vol, caddy, lkg, was, ses, told, logged, lost>>

\* Defective variant: the apply inside the transaction persists its bytes.
LkgInTx_Written == tx.conf

\* The last-known-good file after Caddy accepted the view of the transaction
\* (persistLastGood: false): untouched, nothing has been committed.
LkgInTx == lkg

\* The check by the command line, then ApplyConfigFromTxCertAwareForce.  An
\* answer that is lost is an error although Caddy took the configuration.
Apply ==
    /\ pc = "apply"
    /\ \/ /\ pc' = "plan" /\ caddy' = Render(tx, disk)
          /\ ses' = [ses EXCEPT !.tried = TRUE, !.applied = tx.conf]
          /\ lkg' = LkgInTx
          /\ UNCHANGED used
       \/ Fails /\ UNCHANGED <<caddy, ses, lkg>>
       \/ /\ Fails /\ ses' = [ses EXCEPT !.tried = TRUE]
          /\ caddy' \in {caddy, Render(tx, disk)} /\ UNCHANGED lkg
    /\ UNCHANGED <<rows, tx, disk, vol, was, told, logged, lost>>

\* BumpClusterVersion and collectPostCommitCleanup: whose certificate files
\* the commit makes superfluous.  A set that cannot be read is admitted.
PlanCleanup ==
    /\ pc = "plan"
    /\ \/ /\ pc' = "commit" /\ UNCHANGED <<told, used>>
          /\ ses' = [ses EXCEPT !.plan = rows.cert # Missing /\ tx.cert = Missing]
       \/ /\ Fault /\ pc' = "commit" /\ told' = told \cup {"cert"}
          /\ UNCHANGED ses
       \/ Fails /\ UNCHANGED <<ses, told>>
    /\ UNCHANGED <<rows, tx, disk, vol, caddy, lkg, was, logged, lost>>

\* An error of the commit does not tell whether it landed.
Commit ==
    /\ pc = "commit"
    /\ \/ /\ pc' = "persist" /\ rows' = tx /\ was' = was \cup {tx.conf}
          /\ ses' = [ses EXCEPT !.snap = NoFiles] /\ UNCHANGED used
       \/ /\ Fails /\ ses' = [ses EXCEPT !.unsure = TRUE]
          /\ \/ rows' = tx /\ was' = was \cup {tx.conf}
             \/ UNCHANGED <<rows, was>>
    /\ UNCHANGED <<tx, disk, vol, caddy, lkg, told, logged, lost>>

\* close: the session ends, or its clean-up goes on outside caddyOpMu.
Close == pc' = IF ses.plan THEN "cleanup" ELSE "idle"

\* PersistLastGoodBytesInLock, whose failure is only logged, and the handler's
\* recordCaddyApplyResult(nil), which takes the banner down.
PersistLkg ==
    /\ pc = "persist" /\ Close
    /\ \/ lkg' = ses.applied /\ UNCHANGED used
       \/ Fault /\ UNCHANGED lkg
    /\ told' = told \ {"conf"}
    /\ UNCHANGED <<rows, tx, disk, vol, caddy, was, ses, logged, lost>>

\* Defective variant: the plan made before the commit is carried out as it is.
Superfluous_AsPlanned == TRUE

\* runPostCommitCleanup asks the committed rows again before it removes.
Superfluous == rows.cert = Missing

Cleanup ==
    /\ pc = "cleanup" /\ pc' = "idle"
    /\ \/ /\ disk' = IF Superfluous THEN [disk EXCEPT !.cert = Missing] ELSE disk
          /\ UNCHANGED <<told, used>>
       \/ Fault /\ told' = told \cup {"cert"} /\ UNCHANGED disk
    /\ UNCHANGED <<rows, tx, vol, caddy, lkg, was, ses, logged, lost>>

-----------------------------------------------------------------------------
(* session.abort: files, view, certificates, Caddy.                        *)

\* lbbakWafFileSnapshot.restore
Restored == [disk EXCEPT !.crs = ses.snap.crs, !.xdb = ses.snap.xdb,
                         !.tag = ses.snap.tag, !.threat = ses.snap.threat]

\* The rule files of the snapshot come back, unless the commit may have
\* landed.  A part that fails is admitted; a CRS tree may be gone by then.
AbortFiles ==
    /\ pc = "abort" /\ pc' = "view"
    /\ ses' = [ses EXCEPT !.snap = NoFiles]
    /\ \/ ses.snap = NoFiles /\ UNCHANGED <<disk, told, used>>
       \/ /\ ses.snap # NoFiles /\ ses.unsure
          /\ told' = told \cup {"crs", "xdb", "threat"}
          /\ UNCHANGED <<disk, used>>
       \/ /\ ses.snap # NoFiles /\ ~ses.unsure
          /\ disk' = Restored /\ UNCHANGED <<told, used>>
       \/ /\ ses.snap # NoFiles /\ ~ses.unsure /\ Fault
          /\ \/ /\ told' = told \cup {"crs"}
                /\ disk' \in {[Restored EXCEPT !.crs = disk.crs],
                              [Restored EXCEPT !.crs = Missing]}
             \/ /\ told' = told \cup {"xdb"}
                /\ disk' \in {[Restored EXCEPT !.xdb = disk.xdb],
                              [Restored EXCEPT !.tag = disk.tag]}
             \/ /\ told' = told \cup {"threat"}
                /\ disk' = [Restored EXCEPT !.threat = disk.threat]
    /\ UNCHANGED <<rows, tx, vol, caddy, lkg, was, logged, lost>>

\* RollbackIPListProjectionsToCommittedInLock renders the committed rows for
\* its side effects.  Without a runtime snapshot the abort ends here.
AbortView ==
    /\ pc = "view" /\ disk' = Materialise(rows, disk)
    /\ \/ ses.keep = Unset /\ Close /\ tx' = rows
       \/ ses.keep # Unset /\ UNCHANGED tx
          /\ pc' = IF ses.tried THEN "back" ELSE "untried"
    /\ UNCHANGED <<rows, vol, caddy, lkg, was, ses, told, logged, lost, used>>

\* Caddy was not asked: restoreImportRuntime puts the certificates back and
\* finds the JSON unchanged; the last-known-good file is pinned to the rows.
AbortUntried ==
    /\ pc = "untried" /\ Close /\ tx' = rows
    /\ \/ /\ disk' = [disk EXCEPT !.cert = ses.keep] /\ lkg' = rows.conf
          /\ UNCHANGED <<told, used>>
       \/ /\ Fault
          /\ \/ /\ told' = told \cup {"cert"} /\ lkg' = rows.conf
                /\ UNCHANGED disk
             \/ /\ disk' = [disk EXCEPT !.cert = ses.keep]
                /\ UNCHANGED <<told, lkg>>
    /\ UNCHANGED <<rows, vol, caddy, was, ses, logged, lost>>

\* Caddy was asked: RestoreCertFiles, unless the commit may have landed; then
\* the next steps settle the certificates by the rows they find.
AbortCerts ==
    /\ pc = "back" /\ pc' = "run"
    /\ \/ ses.unsure /\ UNCHANGED <<disk, told, used>>
       \/ /\ ~ses.unsure /\ disk' = [disk EXCEPT !.cert = ses.keep]
          /\ UNCHANGED <<told, used>>
       \/ ~ses.unsure /\ Fault /\ told' = told \cup {"cert"} /\ UNCHANGED disk
    /\ UNCHANGED <<rows, tx, vol, caddy, lkg, was, ses, logged, lost>>

\* Defective variant: the candidate's JSON is taken for the committed one.
SameConfig_Candidate(files) == caddy.conf = tx.conf /\ files = disk

\* applyConfigWithOptions, not forced: the same JSON is not loaded again
\* unless the rendering just wrote a certificate.
SameConfig(files) == caddy.conf = rows.conf /\ files = disk

\* RestoreRuntimeToCommittedInLock.  A rendering that fails leaves everything;
\* a load that fails still pins the last-known-good file, and the certificates
\* the rendering wrote go back.
AbortRuntime ==
    /\ pc = "run" /\ tx' = rows
    /\ IF ses.unsure THEN pc' = "absent" ELSE Close
    /\ LET files == Materialise(rows, disk)
       IN  \/ /\ SameConfig(files)
              /\ UNCHANGED <<disk, caddy, lkg, told, used>>
           \/ /\ ~SameConfig(files)
              /\ disk' = files /\ caddy' = Render(rows, files)
              /\ lkg' = rows.conf /\ UNCHANGED <<told, used>>
           \/ /\ Fault /\ UNCHANGED disk
              /\ told' = told \cup {"conf"} \cup IF ses.unsure THEN {"cert"} ELSE {}
              /\ \/ UNCHANGED <<caddy, lkg>>
                 \/ /\ ~SameConfig(files) /\ lkg' = rows.conf
                    /\ caddy' \in {caddy, Render(rows, files)}
    /\ UNCHANGED <<rows, vol, was, ses, logged, lost>>

\* restoreCertsAbsentFromCommittedView: the rules that are not committed get
\* their former files, usually none.
AbortAbsent ==
    /\ pc = "absent" /\ Close
    /\ \/ /\ disk' = IF rows.cert = Missing THEN [disk EXCEPT !.cert = ses.keep]
                     ELSE disk
          /\ UNCHANGED <<told, used>>
       \/ Fault /\ told' = told \cup {"cert"} /\ UNCHANGED disk
    /\ UNCHANGED <<rows, tx, vol, caddy, lkg, was, ses, logged, lost>>

-----------------------------------------------------------------------------
(* A reload by the administrator; death of the process and startup.        *)

\* GenerateAndApplyConfigForceInLock and recordCaddyApplyResult.
ForcedApply ==
    LET files == Materialise(rows, disk)
    IN  \/ /\ disk' = files /\ caddy' = Render(rows, files)
           /\ lkg' = rows.conf /\ told' = told \ {"conf"} /\ UNCHANGED used
        \/ /\ Fault /\ told' = told \cup {"conf"} /\ UNCHANGED <<disk, lkg>>
           /\ caddy' \in {caddy, Render(rows, files)}

Reload ==
    /\ pc = "idle" /\ UNCHANGED pc /\ ForcedApply
    /\ UNCHANGED <<rows, tx, vol, was, ses, logged, lost>>

\* The transaction is gone with the process, the snapshot of the files is
\* forgotten.  Caddy lives on or is restarted with the last known good.
Crash ==
    /\ used.crashes < MaxCrashes
    /\ used' = [used EXCEPT !.crashes = @ + 1]
    /\ pc' = "seed" /\ tx' = rows /\ ses' = NoSes
    /\ lost' = (lost \/ pc # "idle")
    /\ caddy' \in {caddy, Replay}
    /\ UNCHANGED <<rows, disk, vol, lkg, was, told, logged>>

\* SeedCRSRules: a missing tree comes from the volume, if that differs from
\* the image, or from the image.  The copy, or the marker that says which
\* version it is, may fail; startup goes on.
SeedCRSRules ==
    /\ pc = "seed" /\ pc' = "leftovers"
    /\ \/ /\ disk' = IF disk.crs # Missing THEN disk
                     ELSE [disk EXCEPT !.crs = IF vol = Missing THEN Bundled ELSE vol]
          /\ UNCHANGED <<logged, used>>
       \/ /\ disk.crs = Missing /\ Fault /\ logged' = logged \cup {"crs"}
          /\ disk' \in {disk, [disk EXCEPT !.crs = Unmarked]}
    /\ UNCHANGED <<rows, tx, vol, caddy, lkg, was, ses, told, lost>>

\* ReconcileWafFileCrashLeftovers: the version row follows the marker beside
\* the file, lists without a source are removed.  Each may fail by itself.
Leftovers ==
    /\ pc = "leftovers" /\ pc' = "state"
    /\ \E failed \in {{}, {"xdb"}, {"threat"}} :
         /\ IF failed = {} THEN UNCHANGED used ELSE Fault
         /\ logged' = (logged \ {"xdb", "threat"}) \cup failed
         /\ rows' = IF "xdb" \in failed THEN rows ELSE [rows EXCEPT !.xdb = disk.tag]
         /\ disk' = IF "threat" \in failed \/ rows.threat # Missing THEN disk
                    ELSE [disk EXCEPT !.threat = Missing]
    /\ tx' = rows'
    /\ UNCHANGED <<vol, caddy, lkg, was, ses, told, lost>>

Known == disk.crs \notin {Missing, Unmarked}

\* planCRSReconcile: the volume is the authority when it agrees with the row,
\* otherwise the row follows the tree.  A tree that is gone or has no marker
\* tells nothing; then the row stays as it is and an update is advised.
PlanCRS(kept) ==
    \/ /\ disk.crs = rows.crs
       /\ UNCHANGED <<rows, disk>> /\ logged' = logged \ {"crs"}
    \/ /\ disk.crs # rows.crs /\ kept = rows.crs
       /\ disk' = [disk EXCEPT !.crs = kept]
       /\ UNCHANGED rows /\ logged' = logged \ {"crs"}
    \/ /\ disk.crs # rows.crs /\ kept # rows.crs /\ Known
       /\ rows' = [rows EXCEPT !.crs = disk.crs]
       /\ UNCHANGED disk /\ logged' = logged \ {"crs"}
    \/ /\ disk.crs # rows.crs /\ kept # rows.crs /\ ~Known
       /\ UNCHANGED <<rows, disk>> /\ logged' = logged \cup {"crs"}

\* The volume where it lags behind the tree.
Refreshed ==
    IF Known /\ IF vol = Missing THEN disk.crs # Bundled ELSE disk.crs = rows.crs
    THEN disk.crs ELSE vol

\* reconcileCRSStateFromInLock: the volume is refreshed first.  When the role
\* or the row cannot be read nothing is done, and each of the three writes may
\* fail: to the volume, to the tree, whose marker is the last part, to the row.
ReconcileCRSState ==
    /\ pc = "state" /\ pc' = "boot"
    /\ \/ /\ PlanCRS(IF vol = Missing THEN Missing ELSE Refreshed)
          /\ vol' = Refreshed /\ UNCHANGED used
       \/ /\ Fault /\ vol' \in {vol, Refreshed} /\ UNCHANGED rows
          /\ \/ UNCHANGED disk
             \/ /\ disk.crs # rows.crs /\ vol = rows.crs
                /\ disk' = [disk EXCEPT !.crs = Unmarked]
          /\ logged' = IF disk.crs = rows.crs THEN logged ELSE logged \cup {"crs"}
    /\ tx' = rows'
    /\ UNCHANGED <<caddy, lkg, was, ses, told, lost>>

\* MaterializeAllCertsFromDB and ApplyConfigOnStartup, which falls back to the
\* last known good when Caddy refuses.
Boot ==
    /\ pc = "boot" /\ pc' = "idle"
    /\ LET files == Materialise(rows, disk)
       IN  /\ disk' = files
           /\ \/ /\ caddy' = Render(rows, files) /\ lkg' = rows.conf
                 /\ told' = told \ {"conf"} /\ UNCHANGED used
              \/ /\ Fault /\ told' = told \cup {"conf"} /\ UNCHANGED lkg
                 /\ caddy' \in {caddy, Render(rows, files),
                                [Replay EXCEPT !.cert = files.cert]}
    /\ UNCHANGED <<rows, tx, vol, was, ses, logged, lost>>

-----------------------------------------------------------------------------
Init ==
    /\ rows \in [conf : {Bundled}, cert : {Missing, 1}, crs : {Bundled, 2},
                 xdb : {1}, threat : {Missing, 1}]
    /\ tx = rows
    /\ disk = [cert |-> rows.cert, crs |-> rows.crs, bak |-> Missing,
               xdb |-> rows.xdb, tag |-> rows.xdb, threat |-> rows.threat]
    /\ vol \in {Missing, Bundled, 2}
    /\ caddy = Render(rows, disk)
    /\ lkg = rows.conf /\ was = {rows.conf}
    /\ pc = "idle" /\ ses = NoSes /\ told = {} /\ logged = {} /\ lost = FALSE
    /\ used = [imports |-> 0, faults |-> 0, crashes |-> 0]

Session == \/ Begin \/ SnapshotFiles \/ UnpackCRS \/ SwapCRS \/ CopyCRS
           \/ CRSFails \/ LandXdb \/ LandTag \/ LandThreat \/ PruneThreat
           \/ KeepRuntime \/ WriteCerts \/ Apply \/ PlanCleanup \/ Commit
           \/ PersistLkg \/ Cleanup

Abort == \/ AbortFiles \/ AbortView \/ AbortUntried \/ AbortCerts
         \/ AbortRuntime \/ AbortAbsent

Startup == SeedCRSRules \/ Leftovers \/ ReconcileCRSState \/ Boot

Next == Session \/ Abort \/ Startup \/ Reload \/ Crash

Spec == Init /\ [][Next]_vars

-----------------------------------------------------------------------------
(* Properties.                                                             *)

\* Every variable has its type; in particular nothing is ever restored from a
\* snapshot that was not taken (abort, snapshotLbbakWafTargets).
TypeOK ==
    /\ rows \in RowsType /\ tx \in RowsType /\ disk \in DiskType
    /\ vol \in Gens /\ caddy \in RowsType /\ lkg \in Gens
    /\ was \subseteq Gens /\ pc \in Steps /\ ses \in SesType
    /\ told \subseteq Parts /\ logged \subseteq Parts /\ lost \in BOOLEAN /\ used \in UsedType

\* At no moment does the last-known-good file hold a configuration that was
\* never committed, whatever failed and whenever the process died: what Caddy
\* is restarted with was once the configuration of the system.
LkgCommitted == lkg \in was

\* When no import is open, the version rows are those of the files: an import
\* that lands some of its files records just these, an abort takes files and
\* rows back together, and the startup reconciles what a crash tore apart.
\* Exceptions: parts an audit entry or warning names; parts of which only the
\* log says that their repair at startup failed or, for the CRS tree, that a
\* left-over backup replaced it before an installation that then failed; and,
\* for the content of the IP database and of a list whose source exists, a
\* crash, because nothing but their names is compared at startup.
RecordsMatchFiles ==
    pc = "idle" =>
        /\ "crs" \in told \cup logged \/ rows.crs = disk.crs
        /\ \/ "xdb" \in told
           \/ /\ "xdb" \in logged \/ rows.xdb = disk.tag
              /\ lost \/ disk.xdb = disk.tag
        /\ \/ "threat" \in told
           \/ rows.threat = disk.threat
           \/ IF rows.threat = Missing THEN "threat" \in logged ELSE lost

\* When no import is open and no banner is up, Caddy serves the committed rows
\* with the files as they are on disk, except for files an audit entry names:
\* an import that fails after Caddy took it leaves nothing of itself there.
ServesCommitted ==
    pc = "idle" /\ "conf" \notin told =>
        \A p \in Parts : p \in told \/ caddy[p] = Render(rows, disk)[p]

\* When no import is open, the certificate files are those of the committed
\* rows: an import that failed leaves none of its keys, one that removed a rule
\* has removed its key, and neither removes a key that is still in use.
\* Exceptions: files an audit entry names, and the key of a rule that is gone
\* or never came to be when the process died meanwhile.
CertsMatch ==
    pc = "idle" => \/ disk.cert = rows.cert
                   \/ "cert" \in told
                   \/ lost /\ rows.cert = Missing

=============================================================================
