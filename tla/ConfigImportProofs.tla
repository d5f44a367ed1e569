------------------------- MODULE ConfigImportProofs -------------------------
(***************************************************************************)
(* Theorems about ConfigImport, for any number of imports, faults and      *)
(* crashes.                                                                *)
(***************************************************************************)
EXTENDS ConfigImport, TLAPS

-----------------------------------------------------------------------------
(* Types.                                                                  *)

LEMMA GensFacts ==
    /\ Missing \in Gens /\ Bundled \in Gens /\ 2 \in Gens /\ Unset \notin Gens
    /\ Unmarked \in Gens
    /\ \A n \in 0..MaxImports : n < MaxImports => n + 3 \in Gens
BY ImportAssumption DEF Missing, Bundled, Gens, Unset, Unmarked

LEMMA InitTyped == Init => TypeOK
<1> SUFFICES ASSUME Init PROVE TypeOK OBVIOUS
<1>1. rows \in RowsType BY GensFacts DEF Init, RowsType, Bundled, Missing
<1>2. disk \in DiskType BY <1>1, GensFacts DEF Init, RowsType, DiskType
<1>3. caddy \in RowsType
  BY <1>1, <1>2, GensFacts DEF Init, Render, RowsType, DiskType
<1>4. ses \in SesType BY GensFacts DEF Init, NoSes, NoFiles, SesType, FilesType, Missing
<1>5. used \in UsedType BY ImportAssumption DEF Init, UsedType
<1>6. vol \in Gens BY GensFacts DEF Init
<1>7. lkg \in Gens /\ was \subseteq Gens BY <1>1 DEF Init, RowsType
<1> QED BY <1>1, <1>2, <1>3, <1>4, <1>5, <1>6, <1>7 DEF Init, TypeOK, Steps, Parts

LEMMA MaterialiseTyped ==
    ASSUME NEW v \in RowsType, NEW d \in DiskType
    PROVE  Materialise(v, d) \in DiskType
BY DEF Materialise, RowsType, DiskType

LEMMA RenderTyped ==
    ASSUME NEW v \in RowsType, NEW d \in DiskType
    PROVE  Render(v, d) \in RowsType
BY GensFacts DEF Render, RowsType, DiskType

LEMMA FaultTyped == TypeOK /\ Fault => used' \in UsedType
BY ImportAssumption DEF TypeOK, Fault, UsedType

LEMMA CloseTyped == Close => pc' \in Steps
BY DEF Close, Steps

LEMMA NoFilesTyped == NoFiles \in FilesType
BY DEF NoFiles, FilesType

LEMMA ReplayTyped ==
    TypeOK => \A d \in DiskType : [Replay EXCEPT !.cert = d.cert] \in RowsType
BY DEF TypeOK, Replay, RowsType, DiskType

LEMMA CandidatesTyped ==
    TypeOK /\ used.imports < MaxImports => Candidates \subseteq RowsType
<1> SUFFICES ASSUME TypeOK, used.imports < MaxImports,
                    NEW c \in Candidates
             PROVE  c \in RowsType
  OBVIOUS
<1> DEFINE k == used.imports + 3
<1>1. k \in Gens BY GensFacts DEF TypeOK, UsedType
<1>2. rows \in RowsType BY DEF TypeOK
<1>3. Confs(k) \subseteq Gens BY <1>1, <1>2 DEF RowsType, Confs
<1>4. c \in Plain(k) \cup Archive(k) BY DEF Candidates
<1> HIDE DEF k
<1>5. CASE c \in Plain(k)
  <2>1. PICK f \in Confs(k), t \in {Missing, k} :
           c = [conf |-> f, cert |-> t, crs |-> rows.crs, xdb |-> rows.xdb,
                threat |-> rows.threat]
    BY <1>5 DEF Plain
  <2> QED BY <2>1, <1>1, <1>2, <1>3, GensFacts DEF RowsType
<1>6. CASE c \in Archive(k)
  <2>1. PICK f \in Confs(k), t \in {Missing, k}, s \in {Missing, k} :
           c = [conf |-> f, cert |-> t, crs |-> k, xdb |-> k, threat |-> s]
    BY <1>6 DEF Archive
  <2> QED BY <2>1, <1>1, <1>3, GensFacts DEF RowsType
<1> QED BY <1>4, <1>5, <1>6

-----------------------------------------------------------------------------
(* The snapshot of the files and of the certificates is there when an      *)
(* abort asks for it.                                                      *)

\* A snapshot of the rule files has all of them.
Whole(snap) == \A f \in {"crs", "xdb", "tag", "threat"} : snap[f] \in Gens

\* The inductive part of type correctness: no half-taken snapshot, and no
\* abort in its certificate steps without the certificates it kept.
Snapped ==
    /\ ses.snap = NoFiles \/ Whole(ses.snap)
    /\ pc \in {"untried", "back", "run", "absent"} => ses.keep \in Gens

LEMMA RestoredTyped ==
    TypeOK /\ Snapped /\ ses.snap # NoFiles => Restored \in DiskType
BY DEF TypeOK, Snapped, Whole, Restored, DiskType

LEMMA FieldsTyped ==
    ASSUME NEW b \in DiskType, NEW d \in DiskType
    PROVE  /\ [b EXCEPT !.crs = d.crs] \in DiskType
           /\ [b EXCEPT !.crs = Missing] \in DiskType
           /\ [b EXCEPT !.xdb = d.xdb] \in DiskType
           /\ [b EXCEPT !.tag = d.tag] \in DiskType
           /\ [b EXCEPT !.threat = d.threat] \in DiskType
BY GensFacts DEF DiskType

LEMMA TypeNext == TypeOK /\ Snapped /\ [Next]_vars => TypeOK'
<1> SUFFICES ASSUME TypeOK, Snapped, [Next]_vars PROVE TypeOK'
  OBVIOUS
<1>1. CASE Begin
  <2>1. tx' \in RowsType
    BY <1>1, CandidatesTyped DEF Begin
  <2>2. ses' \in SesType
    BY <1>1, GensFacts, ImportAssumption
    DEF Begin, NoSes, NoFiles, SesType, FilesType, Missing
  <2>3. used' \in UsedType
    BY <1>1, ImportAssumption DEF Begin, UsedType, TypeOK
  <2> QED
    BY <1>1, <2>1, <2>2, <2>3
    DEF Begin, TypeOK, Steps, Parts, Fails, Close, ThreatStep, LkgInTx
<1>2. CASE SnapshotFiles
  <2>1. ses' \in SesType
    BY <1>2 DEF SnapshotFiles, Fails, LiveFiles, TypeOK, SesType, FilesType, DiskType
  <2>2. used' \in UsedType
    BY <1>2, FaultTyped DEF SnapshotFiles, Fails, TypeOK
  <2> QED
    BY <1>2, <2>1, <2>2
    DEF SnapshotFiles, TypeOK, Steps, Parts, Fails, Close, ThreatStep, LkgInTx
<1>3. CASE UnpackCRS
  <2>1. disk' \in DiskType
    BY <1>3, GensFacts DEF UnpackCRS, TypeOK, DiskType
  <2> QED
    BY <1>3, <2>1
    DEF UnpackCRS, TypeOK, Steps, Parts, Fails, Close, ThreatStep, LkgInTx
<1>4. CASE SwapCRS
  <2>1. disk' \in DiskType
    BY <1>4, GensFacts DEF SwapCRS, TypeOK, DiskType
  <2> QED BY <1>4, <2>1 DEF SwapCRS, TypeOK, Steps, Parts, Fails, Close, ThreatStep, LkgInTx
<1>5. CASE CopyCRS
  <2>1. disk' \in DiskType
    BY <1>5, GensFacts DEF CopyCRS, TypeOK, DiskType, RowsType
  <2> QED BY <1>5, <2>1 DEF CopyCRS, TypeOK, Steps, Parts, Fails, Close, ThreatStep, LkgInTx
<1>6. CASE CRSFails
  <2>1. disk' \in DiskType
    BY <1>6, GensFacts DEF CRSFails, TypeOK, DiskType
  <2>2. tx' \in RowsType
    BY <1>6, GensFacts DEF CRSFails, LocalVersions, TypeOK, RowsType
  <2>3. used' \in UsedType
    BY <1>6, FaultTyped DEF CRSFails
  <2> QED
    BY <1>6, <2>1, <2>2, <2>3
    DEF CRSFails, TypeOK, Steps, Parts, Fails, Close, ThreatStep, LkgInTx
<1>7. CASE LandXdb
  <2>1. disk' \in DiskType
    BY <1>7 DEF LandXdb, TypeOK, DiskType, RowsType
  <2>2. tx' \in RowsType
    BY <1>7 DEF LandXdb, TypeOK, RowsType
  <2>3. used' \in UsedType
    BY <1>7, FaultTyped DEF LandXdb, TypeOK
  <2> QED
    BY <1>7, <2>1, <2>2, <2>3
    DEF LandXdb, TypeOK, Steps, Parts, Fails, Close, ThreatStep, LkgInTx
<1>8. CASE LandTag
  <2>1. disk' \in DiskType
    BY <1>8 DEF LandTag, TypeOK, DiskType, RowsType
  <2>2. tx' \in RowsType
    BY <1>8 DEF LandTag, TypeOK, RowsType
  <2>3. used' \in UsedType
    BY <1>8, FaultTyped DEF LandTag, TypeOK
  <2> QED
    BY <1>8, <2>1, <2>2, <2>3
    DEF LandTag, TypeOK, Steps, Parts, Fails, Close, ThreatStep, LkgInTx
<1>9. CASE LandThreat
  <2>1. disk' \in DiskType
    BY <1>9 DEF LandThreat, TypeOK, DiskType, RowsType
  <2>2. tx' \in RowsType
    BY <1>9 DEF LandThreat, TypeOK, RowsType
  <2>3. used' \in UsedType
    BY <1>9, FaultTyped DEF LandThreat, TypeOK
  <2> QED
    BY <1>9, <2>1, <2>2, <2>3
    DEF LandThreat, TypeOK, Steps, Parts, Fails, Close, ThreatStep, LkgInTx
<1>10. CASE PruneThreat
  <2>1. disk' \in DiskType
    BY <1>10, GensFacts DEF PruneThreat, TypeOK, DiskType
  <2>2. used' \in UsedType
    BY <1>10, FaultTyped DEF PruneThreat, TypeOK
  <2> QED
    BY <1>10, <2>1, <2>2
    DEF PruneThreat, TypeOK, Steps, Parts, Fails, Close, ThreatStep, LkgInTx
<1>11. CASE KeepRuntime
  <2>1. ses' \in SesType
    BY <1>11 DEF KeepRuntime, Fails, TypeOK, SesType, DiskType
  <2>2. used' \in UsedType
    BY <1>11, FaultTyped DEF KeepRuntime, Fails, TypeOK
  <2> QED
    BY <1>11, <2>1, <2>2
    DEF KeepRuntime, TypeOK, Steps, Parts, Fails, Close, ThreatStep, LkgInTx
<1>12. CASE WriteCerts
  <2>1. disk' \in DiskType
    BY <1>12, MaterialiseTyped DEF WriteCerts, TypeOK
  <2>2. used' \in UsedType
    BY <1>12, FaultTyped DEF WriteCerts, Fails, TypeOK
  <2> QED
    BY <1>12, <2>1, <2>2
    DEF WriteCerts, TypeOK, Steps, Parts, Fails, Close, ThreatStep, LkgInTx
<1>13. CASE Apply
  <2>1. caddy' \in RowsType
    BY <1>13, RenderTyped DEF Apply, TypeOK
  <2>2. ses' \in SesType
    BY <1>13 DEF Apply, TypeOK, SesType, RowsType
  <2>3. used' \in UsedType
    BY <1>13, FaultTyped DEF Apply, Fails, TypeOK
  <2> QED
    BY <1>13, <2>1, <2>2, <2>3
    DEF Apply, TypeOK, Steps, Parts, Fails, Close, ThreatStep, LkgInTx
<1>14. CASE PlanCleanup
  <2>1. ses' \in SesType
    BY <1>14 DEF PlanCleanup, TypeOK, SesType
  <2>2. used' \in UsedType
    BY <1>14, FaultTyped DEF PlanCleanup, Fails, TypeOK
  <2> QED
    BY <1>14, <2>1, <2>2
    DEF PlanCleanup, TypeOK, Steps, Parts, Fails, Close, ThreatStep, LkgInTx
<1>15. CASE Commit
  <2>1. rows' \in RowsType
    BY <1>15 DEF Commit, TypeOK
  <2>2. ses' \in SesType
    BY <1>15, NoFilesTyped DEF Commit, TypeOK, SesType
  <2>3. used' \in UsedType
    BY <1>15, FaultTyped DEF Commit, Fails, TypeOK
  <2>4. was' \subseteq Gens
    BY <1>15 DEF Commit, TypeOK, RowsType
  <2> QED
    BY <1>15, <2>1, <2>2, <2>3, <2>4
    DEF Commit, TypeOK, Steps, Parts, Fails, Close, ThreatStep, LkgInTx
<1>16. CASE PersistLkg
  <2>1. lkg' \in Gens
    BY <1>16 DEF PersistLkg, TypeOK, SesType
  <2>2. used' \in UsedType
    BY <1>16, FaultTyped DEF PersistLkg, TypeOK
  <2> QED
    BY <1>16, <2>1, <2>2
    DEF PersistLkg, TypeOK, Steps, Parts, Fails, Close, ThreatStep, LkgInTx
<1>17. CASE Cleanup
  <2>1. disk' \in DiskType
    BY <1>17, GensFacts DEF Cleanup, TypeOK, DiskType
  <2>2. used' \in UsedType
    BY <1>17, FaultTyped DEF Cleanup, TypeOK
  <2> QED
    BY <1>17, <2>1, <2>2
    DEF Cleanup, TypeOK, Steps, Parts, Fails, Close, ThreatStep, LkgInTx
<1>18. CASE AbortFiles
  <2>1. ses' \in SesType
    BY <1>18, NoFilesTyped DEF AbortFiles, TypeOK, SesType
  <2>2. disk' \in DiskType
    <3>1. disk \in DiskType BY DEF TypeOK
    <3>2. CASE UNCHANGED disk BY <3>1, <3>2
    <3>3. CASE ~UNCHANGED disk
      <4>1. Restored \in DiskType
        BY <1>18, <3>3, RestoredTyped DEF AbortFiles
      <4>2. disk' \in {Restored, [Restored EXCEPT !.crs = disk.crs],
                      [Restored EXCEPT !.crs = Missing],
                      [Restored EXCEPT !.xdb = disk.xdb],
                      [Restored EXCEPT !.tag = disk.tag],
                      [Restored EXCEPT !.threat = disk.threat]}
        BY <1>18, <3>3 DEF AbortFiles
      <4> QED BY <3>1, <4>1, <4>2, FieldsTyped
    <3> QED BY <3>2, <3>3
  <2>3. used' \in UsedType
    BY <1>18, FaultTyped DEF AbortFiles, TypeOK
  <2> QED
    BY <1>18, <2>1, <2>2, <2>3
    DEF AbortFiles, TypeOK, Steps, Parts, Fails, Close, ThreatStep, LkgInTx
<1>19. CASE AbortView
  <2>1. disk' \in DiskType
    BY <1>19, MaterialiseTyped DEF AbortView, TypeOK
  <2>2. tx' \in RowsType
    BY <1>19 DEF AbortView, TypeOK
  <2> QED
    BY <1>19, <2>1, <2>2
    DEF AbortView, TypeOK, Steps, Parts, Fails, Close, ThreatStep, LkgInTx
<1>20. CASE AbortUntried
  <2>1. disk' \in DiskType
    BY <1>20, GensFacts DEF AbortUntried, Snapped, TypeOK, SesType, DiskType, FilesType
  <2>2. lkg' \in Gens
    BY <1>20 DEF AbortUntried, TypeOK, RowsType
  <2>3. used' \in UsedType
    BY <1>20, FaultTyped DEF AbortUntried, TypeOK
  <2> QED
    BY <1>20, <2>1, <2>2, <2>3
    DEF AbortUntried, TypeOK, Steps, Parts, Fails, Close, ThreatStep, LkgInTx
<1>21. CASE AbortCerts
  <2>1. disk' \in DiskType
    BY <1>21, GensFacts DEF AbortCerts, Snapped, TypeOK, SesType, DiskType, FilesType
  <2>2. used' \in UsedType
    BY <1>21, FaultTyped DEF AbortCerts, TypeOK
  <2> QED
    BY <1>21, <2>1, <2>2
    DEF AbortCerts, TypeOK, Steps, Parts, Fails, Close, ThreatStep, LkgInTx
<1>22. CASE AbortRuntime
  <2>1. disk' \in DiskType
    BY <1>22, MaterialiseTyped DEF AbortRuntime, TypeOK
  <2>2. caddy' \in RowsType
    BY <1>22, MaterialiseTyped, RenderTyped DEF AbortRuntime, TypeOK
  <2>3. lkg' \in Gens
    BY <1>22 DEF AbortRuntime, TypeOK, RowsType
  <2>4. used' \in UsedType
    BY <1>22, FaultTyped DEF AbortRuntime, TypeOK
  <2> QED
    BY <1>22, <2>1, <2>2, <2>3, <2>4
    DEF AbortRuntime, TypeOK, Steps, Parts, Fails, Close, ThreatStep, LkgInTx
<1>23. CASE AbortAbsent
  <2>1. disk' \in DiskType
    BY <1>23, GensFacts DEF AbortAbsent, Snapped, TypeOK, SesType, DiskType, FilesType
  <2>2. used' \in UsedType
    BY <1>23, FaultTyped DEF AbortAbsent, TypeOK
  <2> QED
    BY <1>23, <2>1, <2>2
    DEF AbortAbsent, TypeOK, Steps, Parts, Fails, Close, ThreatStep, LkgInTx
<1>24. CASE Reload
  <2>1. disk' \in DiskType
    BY <1>24, MaterialiseTyped DEF Reload, ForcedApply, TypeOK
  <2>2. caddy' \in RowsType
    BY <1>24, MaterialiseTyped, RenderTyped DEF Reload, ForcedApply, TypeOK
  <2>3. lkg' \in Gens
    BY <1>24 DEF Reload, ForcedApply, TypeOK, RowsType
  <2>4. used' \in UsedType
    BY <1>24, FaultTyped DEF Reload, ForcedApply, TypeOK
  <2> QED
    BY <1>24, <2>1, <2>2, <2>3, <2>4
    DEF Reload, TypeOK, Steps, Parts, Fails, Close, ThreatStep, LkgInTx, ForcedApply
<1>25. CASE Crash
  <2>1. caddy' \in RowsType
    BY <1>25 DEF Crash, Replay, TypeOK, RowsType, DiskType
  <2>2. ses' \in SesType
    BY <1>25, GensFacts, ImportAssumption
    DEF Crash, NoSes, NoFiles, SesType, FilesType, Missing
  <2>3. used' \in UsedType
    BY <1>25, ImportAssumption DEF Crash, UsedType, TypeOK
  <2> QED
    BY <1>25, <2>1, <2>2, <2>3
    DEF Crash, TypeOK, Steps, Parts, Fails, Close, ThreatStep, LkgInTx
<1>26. CASE SeedCRSRules
  <2>1. disk' \in DiskType
    BY <1>26, GensFacts DEF SeedCRSRules, TypeOK, DiskType
  <2>2. used' \in UsedType
    BY <1>26, FaultTyped DEF SeedCRSRules, TypeOK
  <2> QED
    BY <1>26, <2>1, <2>2
    DEF SeedCRSRules, TypeOK, Steps, Parts, Fails, Close, ThreatStep, LkgInTx
<1>27. CASE Leftovers
  <2>1. rows' \in RowsType
    BY <1>27 DEF Leftovers, TypeOK, RowsType, DiskType
  <2>2. disk' \in DiskType
    BY <1>27, GensFacts DEF Leftovers, TypeOK, DiskType
  <2>3. used' \in UsedType
    BY <1>27, FaultTyped DEF Leftovers, TypeOK
  <2>4. logged' \subseteq Parts
    BY <1>27 DEF Leftovers, TypeOK, Parts
  <2> QED
    BY <1>27, <2>1, <2>2, <2>3, <2>4
    DEF Leftovers, TypeOK, Steps, Parts, Fails, Close, ThreatStep, LkgInTx
<1>28. CASE ReconcileCRSState
  <2>1. rows' \in RowsType
    BY <1>28 DEF ReconcileCRSState, PlanCRS, TypeOK, RowsType, DiskType
  <2>2. disk' \in DiskType
    BY <1>28, GensFacts
    DEF ReconcileCRSState, PlanCRS, Known, Refreshed, TypeOK, RowsType, DiskType
  <2>3. vol' \in Gens
    BY <1>28 DEF ReconcileCRSState, Refreshed, TypeOK, DiskType
  <2>4. used' \in UsedType
    BY <1>28, FaultTyped DEF ReconcileCRSState, TypeOK
  <2>5. logged' \subseteq Parts
    BY <1>28 DEF ReconcileCRSState, PlanCRS, TypeOK, Parts
  <2> QED
    BY <1>28, <2>1, <2>2, <2>3, <2>4, <2>5
    DEF ReconcileCRSState, TypeOK, Steps, Parts, Fails, Close, ThreatStep, LkgInTx
<1>29. CASE Boot
  <2>1. disk' \in DiskType
    BY <1>29, MaterialiseTyped DEF Boot, TypeOK
  <2>2. caddy' \in RowsType
    BY <1>29, MaterialiseTyped, RenderTyped, ReplayTyped DEF Boot, TypeOK
  <2>3. lkg' \in Gens
    BY <1>29 DEF Boot, TypeOK, RowsType
  <2>4. used' \in UsedType
    BY <1>29, FaultTyped DEF Boot, TypeOK
  <2> QED
    BY <1>29, <2>1, <2>2, <2>3, <2>4
    DEF Boot, TypeOK, Steps, Parts, Fails, Close, ThreatStep, LkgInTx
<1>30. CASE UNCHANGED vars BY <1>30 DEF vars, TypeOK
<1> QED
  BY <1>1, <1>2, <1>3, <1>4, <1>5, <1>6, <1>7, <1>8, <1>9, <1>10, <1>11, <1>12, <1>13,
     <1>14, <1>15, <1>16, <1>17, <1>18, <1>19, <1>20, <1>21, <1>22, <1>23, <1>24, <1>25,
     <1>26, <1>27, <1>28, <1>29, <1>30
  DEF Next, Session, Abort, Startup

LEMMA SnappedNext == TypeOK /\ Snapped /\ [Next]_vars => Snapped'
<1> SUFFICES ASSUME TypeOK, Snapped, [Next]_vars PROVE Snapped'
  OBVIOUS
<1>1. CASE Begin
  BY <1>1 DEF Begin, Fails, Close, ThreatStep, Snapped, TypeOK, SesType, NoSes
<1>2. CASE SnapshotFiles
  <2>1. CASE Fails /\ UNCHANGED ses
    BY <1>2, <2>1 DEF SnapshotFiles, Fails, Snapped
  <2>2. CASE pc' = "crs" /\ ses' = [ses EXCEPT !.snap = LiveFiles]
    <3>1. ses'.snap = LiveFiles BY <2>2 DEF TypeOK, SesType
    <3>2. Whole(LiveFiles) BY DEF Whole, LiveFiles, TypeOK, DiskType
    <3> QED BY <2>2, <3>1, <3>2 DEF Snapped
  <2> QED BY <1>2, <2>1, <2>2 DEF SnapshotFiles
<1>3. CASE UnpackCRS
  BY <1>3 DEF UnpackCRS, Fails, Close, ThreatStep, Snapped, TypeOK, SesType
<1>4. CASE SwapCRS
  BY <1>4 DEF SwapCRS, Fails, Close, ThreatStep, Snapped, TypeOK, SesType
<1>5. CASE CopyCRS
  BY <1>5 DEF CopyCRS, Fails, Close, ThreatStep, Snapped, TypeOK, SesType
<1>6. CASE CRSFails
  BY <1>6 DEF CRSFails, Fails, Close, ThreatStep, Snapped, TypeOK, SesType
<1>7. CASE LandXdb
  BY <1>7 DEF LandXdb, Fails, Close, ThreatStep, Snapped, TypeOK, SesType
<1>8. CASE LandTag
  BY <1>8 DEF LandTag, Fails, Close, ThreatStep, Snapped, TypeOK, SesType
<1>9. CASE LandThreat
  BY <1>9 DEF LandThreat, Fails, Close, ThreatStep, Snapped, TypeOK, SesType
<1>10. CASE PruneThreat
  BY <1>10 DEF PruneThreat, Fails, Close, ThreatStep, Snapped, TypeOK, SesType
<1>11. CASE KeepRuntime
  BY <1>11 DEF KeepRuntime, Fails, Close, ThreatStep, Snapped, TypeOK, SesType
<1>12. CASE WriteCerts
  BY <1>12 DEF WriteCerts, Fails, Close, ThreatStep, Snapped, TypeOK, SesType
<1>13. CASE Apply
  BY <1>13 DEF Apply, Fails, Close, ThreatStep, Snapped, TypeOK, SesType
<1>14. CASE PlanCleanup
  BY <1>14 DEF PlanCleanup, Fails, Close, ThreatStep, Snapped, TypeOK, SesType
<1>15. CASE Commit
  BY <1>15 DEF Commit, Fails, Close, ThreatStep, Snapped, TypeOK, SesType
<1>16. CASE PersistLkg
  BY <1>16 DEF PersistLkg, Fails, Close, ThreatStep, Snapped, TypeOK, SesType
<1>17. CASE Cleanup
  BY <1>17 DEF Cleanup, Fails, Close, ThreatStep, Snapped, TypeOK, SesType
<1>18. CASE AbortFiles
  BY <1>18 DEF AbortFiles, Fails, Close, ThreatStep, Snapped, TypeOK, SesType
<1>19. CASE AbortView
  BY <1>19 DEF AbortView, Fails, Close, ThreatStep, Snapped, TypeOK, SesType
<1>20. CASE AbortUntried
  BY <1>20 DEF AbortUntried, Fails, Close, ThreatStep, Snapped, TypeOK, SesType
<1>21. CASE AbortCerts
  BY <1>21 DEF AbortCerts, Fails, Close, ThreatStep, Snapped, TypeOK, SesType
<1>22. CASE AbortRuntime
  BY <1>22 DEF AbortRuntime, Fails, Close, ThreatStep, Snapped, TypeOK, SesType
<1>23. CASE AbortAbsent
  BY <1>23 DEF AbortAbsent, Fails, Close, ThreatStep, Snapped, TypeOK, SesType
<1>24. CASE Reload
  BY <1>24 DEF Reload, Fails, Close, ThreatStep, Snapped, TypeOK, SesType, ForcedApply
<1>25. CASE Crash
  BY <1>25 DEF Crash, Fails, Close, ThreatStep, Snapped, TypeOK, SesType, NoSes
<1>26. CASE SeedCRSRules
  BY <1>26 DEF SeedCRSRules, Fails, Close, ThreatStep, Snapped, TypeOK, SesType
<1>27. CASE Leftovers
  BY <1>27 DEF Leftovers, Fails, Close, ThreatStep, Snapped, TypeOK, SesType
<1>28. CASE ReconcileCRSState
  BY <1>28 DEF ReconcileCRSState, Fails, Close, ThreatStep, Snapped, TypeOK, SesType
<1>29. CASE Boot
  BY <1>29 DEF Boot, Fails, Close, ThreatStep, Snapped, TypeOK, SesType
<1>30. CASE UNCHANGED vars BY <1>30 DEF vars, Snapped
<1> QED
  BY <1>1, <1>2, <1>3, <1>4, <1>5, <1>6, <1>7, <1>8, <1>9, <1>10, <1>11, <1>12, <1>13,
     <1>14, <1>15, <1>16, <1>17, <1>18, <1>19, <1>20, <1>21, <1>22, <1>23, <1>24, <1>25,
     <1>26, <1>27, <1>28, <1>29, <1>30
  DEF Next, Session, Abort, Startup

\* Every variable keeps its type; an abort restores nothing that was not copied
\* (snapshotLbbakWafTargets, snapshotImportRuntime, session.abort).
THEOREM ImportTypeCorrect == Spec => []TypeOK
<1>1. Init => TypeOK /\ Snapped
  BY InitTyped DEF Init, NoSes, Snapped
<1>2. TypeOK /\ Snapped /\ [Next]_vars => (TypeOK /\ Snapped)'
  BY TypeNext, SnappedNext
<1> QED BY <1>1, <1>2, PTL DEF Spec

-----------------------------------------------------------------------------
(* The last-known-good file.                                               *)

\* What Caddy accepted inside the transaction is what the commit makes the
\* configuration, so the bytes kept for the last-known-good file are committed
\* by the time they are written.
LkgInv ==
    /\ lkg \in was /\ rows.conf \in was
    /\ pc \in {"plan", "commit"} => ses.applied = tx.conf
    /\ pc = "persist" => ses.applied \in was

LEMMA LkgNext == TypeOK /\ LkgInv /\ [Next]_vars => LkgInv'
<1> SUFFICES ASSUME TypeOK, LkgInv, [Next]_vars PROVE LkgInv'
  OBVIOUS
<1>1. CASE Begin
  BY <1>1 DEF Begin, Fails, Close, ThreatStep, LkgInv, TypeOK, SesType
<1>2. CASE SnapshotFiles
  BY <1>2 DEF SnapshotFiles, Fails, Close, ThreatStep, LkgInv, TypeOK, SesType
<1>3. CASE UnpackCRS
  BY <1>3 DEF UnpackCRS, Fails, Close, ThreatStep, LkgInv, TypeOK, SesType
<1>4. CASE SwapCRS
  BY <1>4 DEF SwapCRS, Fails, Close, ThreatStep, LkgInv, TypeOK, SesType
<1>5. CASE CopyCRS
  BY <1>5 DEF CopyCRS, Fails, Close, ThreatStep, LkgInv, TypeOK, SesType
<1>6. CASE CRSFails
  BY <1>6 DEF CRSFails, Fails, Close, ThreatStep, LkgInv, TypeOK, SesType
<1>7. CASE LandXdb
  BY <1>7 DEF LandXdb, Fails, Close, ThreatStep, LkgInv, TypeOK, SesType
<1>8. CASE LandTag
  BY <1>8 DEF LandTag, Fails, Close, ThreatStep, LkgInv, TypeOK, SesType
<1>9. CASE LandThreat
  BY <1>9 DEF LandThreat, Fails, Close, ThreatStep, LkgInv, TypeOK, SesType
<1>10. CASE PruneThreat
  BY <1>10 DEF PruneThreat, Fails, Close, ThreatStep, LkgInv, TypeOK, SesType
<1>11. CASE KeepRuntime
  BY <1>11 DEF KeepRuntime, Fails, Close, ThreatStep, LkgInv, TypeOK, SesType
<1>12. CASE WriteCerts
  BY <1>12 DEF WriteCerts, Fails, Close, ThreatStep, LkgInv, TypeOK, SesType
<1>13. CASE Apply
  BY <1>13 DEF Apply, Fails, Close, ThreatStep, LkgInv, TypeOK, SesType, LkgInTx, SesType
<1>14. CASE PlanCleanup
  BY <1>14 DEF PlanCleanup, Fails, Close, ThreatStep, LkgInv, TypeOK, SesType
<1>15. CASE Commit
  BY <1>15 DEF Commit, Fails, Close, ThreatStep, LkgInv, TypeOK, SesType
<1>16. CASE PersistLkg
  BY <1>16 DEF PersistLkg, Fails, Close, ThreatStep, LkgInv, TypeOK, SesType
<1>17. CASE Cleanup
  BY <1>17 DEF Cleanup, Fails, Close, ThreatStep, LkgInv, TypeOK, SesType
<1>18. CASE AbortFiles
  BY <1>18 DEF AbortFiles, Fails, Close, ThreatStep, LkgInv, TypeOK, SesType
<1>19. CASE AbortView
  BY <1>19 DEF AbortView, Fails, Close, ThreatStep, LkgInv, TypeOK, SesType
<1>20. CASE AbortUntried
  BY <1>20 DEF AbortUntried, Fails, Close, ThreatStep, LkgInv, TypeOK, SesType
<1>21. CASE AbortCerts
  BY <1>21 DEF AbortCerts, Fails, Close, ThreatStep, LkgInv, TypeOK, SesType
<1>22. CASE AbortRuntime
  BY <1>22 DEF AbortRuntime, Fails, Close, ThreatStep, LkgInv, TypeOK, SesType
<1>23. CASE AbortAbsent
  BY <1>23 DEF AbortAbsent, Fails, Close, ThreatStep, LkgInv, TypeOK, SesType
<1>24. CASE Reload
  BY <1>24 DEF Reload, Fails, Close, ThreatStep, LkgInv, TypeOK, SesType, ForcedApply
<1>25. CASE Crash
  BY <1>25 DEF Crash, Fails, Close, ThreatStep, LkgInv, TypeOK, SesType
<1>26. CASE SeedCRSRules
  BY <1>26 DEF SeedCRSRules, Fails, Close, ThreatStep, LkgInv, TypeOK, SesType
<1>27. CASE Leftovers
  BY <1>27 DEF Leftovers, Fails, Close, ThreatStep, LkgInv, TypeOK, SesType, RowsType
<1>28. CASE ReconcileCRSState
  BY <1>28
  DEF ReconcileCRSState, Fails, Close, ThreatStep, LkgInv, TypeOK, SesType, PlanCRS,
      RowsType
<1>29. CASE Boot
  BY <1>29 DEF Boot, Fails, Close, ThreatStep, LkgInv, TypeOK, SesType
<1>30. CASE UNCHANGED vars BY <1>30 DEF vars, LkgInv
<1> QED
  BY <1>1, <1>2, <1>3, <1>4, <1>5, <1>6, <1>7, <1>8, <1>9, <1>10, <1>11, <1>12, <1>13,
     <1>14, <1>15, <1>16, <1>17, <1>18, <1>19, <1>20, <1>21, <1>22, <1>23, <1>24, <1>25,
     <1>26, <1>27, <1>28, <1>29, <1>30
  DEF Next, Session, Abort, Startup

\* Whatever fails and whenever the process dies, the last-known-good file holds
\* a configuration that was committed once (PersistLastGoodBytesInLock,
\* RestoreRuntimeToCommittedInLock, ApplyConfigOnStartup).
THEOREM LastKnownGoodCommitted == Spec => []LkgCommitted
<1>1. Init => TypeOK /\ Snapped /\ LkgInv
  BY InitTyped DEF Init, NoSes, Snapped, LkgInv
<1>2. TypeOK /\ Snapped /\ LkgInv /\ [Next]_vars => (TypeOK /\ Snapped /\ LkgInv)'
  BY TypeNext, SnappedNext, LkgNext
<1>3. LkgInv => LkgCommitted BY DEF LkgInv, LkgCommitted
<1> QED BY <1>1, <1>2, <1>3, PTL DEF Spec

-----------------------------------------------------------------------------
(* Rows and files.                                                         *)

\* Steps by what they may assume: the rows and the disk are a pair, files are
\* being replaced, and all files of the candidate have landed or been refused.
Settled == {"idle", "files", "persist", "cleanup", "view", "untried", "back",
            "run", "absent", "boot"}
Landing == {"crs", "swap", "copy", "xdb", "tag", "threat", "prune"}
Late    == {"keep", "certs", "apply", "plan", "commit"}

\* A view v of the rows and a set d of files agree on the CRS tree.
CrsFit(v, d) == "crs" \in told \cup logged \/ v.crs = d.crs

\* Until the commit two pairs agree: the committed rows with the snapshot, and
\* the transaction with the disk.  Which pair survives is decided by the commit.
CrsInv ==
    /\ pc \in Settled => CrsFit(rows, disk)
    /\ pc = "files" => ses.snap = NoFiles
    /\ pc \in Landing => ses.snap # NoFiles /\ CrsFit(rows, ses.snap)
    /\ pc = "crs" => ses.snap.crs = disk.crs
    /\ pc \in {"xdb", "tag", "threat", "prune"} \cup Late => CrsFit(tx, disk)
    /\ pc \in Late => \/ ses.snap = NoFiles /\ CrsFit(rows, disk)
                      \/ ses.snap # NoFiles /\ CrsFit(rows, ses.snap)
    /\ pc = "abort" => /\ ses.snap = NoFiles => CrsFit(rows, disk)
                       /\ ses.snap # NoFiles => ses.unsure \/ CrsFit(rows, ses.snap)

LEMMA CrsNext ==
    TypeOK /\ Snapped /\ CrsInv /\ [Next]_vars => CrsInv'
<1> SUFFICES ASSUME TypeOK, Snapped, CrsInv, [Next]_vars
             PROVE  CrsInv'
  OBVIOUS
<1>1. CASE Begin
  <2>1. PICK c \in Candidates :
           /\ tx' = c /\ pc' = IF c \in Archive(used.imports + 3) THEN "files" ELSE "keep"
    BY <1>1 DEF Begin
  <2>2. pc' = "keep" => tx'.crs = rows.crs /\ tx'.xdb = rows.xdb /\ tx'.threat = rows.threat
    BY <2>1 DEF Candidates, Plain
  <2>3. pc' \in {"files", "keep"} /\ ses'.snap = NoFiles
    BY <1>1, <2>1 DEF Begin, NoSes
  <2> QED BY <1>1, <2>2, <2>3 DEF Begin, CrsInv, CrsFit, Settled, Landing, Late
<1>2. CASE SnapshotFiles
  BY <1>2, GensFacts
  DEF SnapshotFiles, CrsInv, CrsFit, Settled, Landing, Late, TypeOK, Fails, SesType,
      RowsType, DiskType, LiveFiles, NoFiles
<1>3. CASE UnpackCRS
  BY <1>3
  DEF UnpackCRS, CrsInv, CrsFit, Settled, Landing, Late, TypeOK, SesType, RowsType, DiskType
<1>4. CASE SwapCRS
  BY <1>4
  DEF SwapCRS, CrsInv, CrsFit, Settled, Landing, Late, TypeOK, SesType, RowsType, DiskType
<1>5. CASE CopyCRS
  BY <1>5
  DEF CopyCRS, CrsInv, CrsFit, Settled, Landing, Late, TypeOK, SesType, RowsType, DiskType
<1>6. CASE CRSFails
  BY <1>6
  DEF CRSFails, CrsInv, CrsFit, Settled, Landing, Late, TypeOK, SesType, RowsType, DiskType,
      LocalVersions
<1>7. CASE LandXdb
  BY <1>7
  DEF LandXdb, CrsInv, CrsFit, Settled, Landing, Late, TypeOK, ThreatStep, SesType,
      RowsType, DiskType
<1>8. CASE LandTag
  BY <1>8
  DEF LandTag, CrsInv, CrsFit, Settled, Landing, Late, TypeOK, ThreatStep, SesType,
      RowsType, DiskType
<1>9. CASE LandThreat
  BY <1>9
  DEF LandThreat, CrsInv, CrsFit, Settled, Landing, Late, TypeOK, SesType, RowsType,
      DiskType
<1>10. CASE PruneThreat
  BY <1>10
  DEF PruneThreat, CrsInv, CrsFit, Settled, Landing, Late, TypeOK, SesType, RowsType,
      DiskType
<1>11. CASE KeepRuntime
  BY <1>11
  DEF KeepRuntime, CrsInv, CrsFit, Settled, Landing, Late, TypeOK, Fails, SesType, RowsType,
      DiskType
<1>12. CASE WriteCerts
  BY <1>12
  DEF WriteCerts, CrsInv, CrsFit, Settled, Landing, Late, TypeOK, Fails, Materialise,
      SesType, RowsType, DiskType
<1>13. CASE Apply
  BY <1>13
  DEF Apply, CrsInv, CrsFit, Settled, Landing, Late, TypeOK, Fails, SesType, RowsType,
      DiskType
<1>14. CASE PlanCleanup
  BY <1>14
  DEF PlanCleanup, CrsInv, CrsFit, Settled, Landing, Late, TypeOK, Fails, SesType, RowsType,
      DiskType
<1>15. CASE Commit
  BY <1>15
  DEF Commit, CrsInv, CrsFit, Settled, Landing, Late, TypeOK, Fails, SesType, RowsType,
      DiskType
<1>16. CASE PersistLkg
  BY <1>16
  DEF PersistLkg, CrsInv, CrsFit, Settled, Landing, Late, TypeOK, Close, SesType, RowsType,
      DiskType
<1>17. CASE Cleanup
  BY <1>17
  DEF Cleanup, CrsInv, CrsFit, Settled, Landing, Late, TypeOK, SesType, RowsType, DiskType
<1>18. CASE AbortFiles
  BY <1>18
  DEF AbortFiles, CrsInv, CrsFit, Settled, Landing, Late, TypeOK, SesType, RowsType,
      DiskType, Restored, Snapped, Whole
<1>19. CASE AbortView
  BY <1>19
  DEF AbortView, CrsInv, CrsFit, Settled, Landing, Late, TypeOK, Close, Materialise,
      SesType, RowsType, DiskType
<1>20. CASE AbortUntried
  BY <1>20
  DEF AbortUntried, CrsInv, CrsFit, Settled, Landing, Late, TypeOK, Close, SesType,
      RowsType, DiskType
<1>21. CASE AbortCerts
  BY <1>21
  DEF AbortCerts, CrsInv, CrsFit, Settled, Landing, Late, TypeOK, SesType, RowsType,
      DiskType
<1>22. CASE AbortRuntime
  BY <1>22
  DEF AbortRuntime, CrsInv, CrsFit, Settled, Landing, Late, TypeOK, Close, Materialise,
      SesType, RowsType, DiskType, SameConfig
<1>23. CASE AbortAbsent
  BY <1>23
  DEF AbortAbsent, CrsInv, CrsFit, Settled, Landing, Late, TypeOK, Close, SesType, RowsType,
      DiskType
<1>24. CASE Reload
  BY <1>24
  DEF Reload, CrsInv, CrsFit, Settled, Landing, Late, TypeOK, Materialise, SesType,
      RowsType, DiskType, ForcedApply
<1>25. CASE Crash
  BY <1>25
  DEF Crash, CrsInv, CrsFit, Settled, Landing, Late, TypeOK, SesType, RowsType, DiskType
<1>26. CASE SeedCRSRules
  BY <1>26
  DEF SeedCRSRules, CrsInv, CrsFit, Settled, Landing, Late, TypeOK, SesType, RowsType,
      DiskType
<1>27. CASE Leftovers
  BY <1>27
  DEF Leftovers, CrsInv, CrsFit, Settled, Landing, Late, TypeOK, SesType, RowsType, DiskType
<1>28. CASE ReconcileCRSState
  BY <1>28
  DEF ReconcileCRSState, CrsInv, CrsFit, Settled, Landing, Late, TypeOK, SesType, RowsType,
      DiskType, PlanCRS, Known, Refreshed
<1>29. CASE Boot
  BY <1>29
  DEF Boot, CrsInv, CrsFit, Settled, Landing, Late, TypeOK, Materialise, SesType, RowsType,
      DiskType
<1>30. CASE UNCHANGED vars BY <1>30 DEF vars, CrsInv, CrsFit
<1> QED
  BY <1>1, <1>2, <1>3, <1>4, <1>5, <1>6, <1>7, <1>8, <1>9, <1>10, <1>11, <1>12, <1>13,
     <1>14, <1>15, <1>16, <1>17, <1>18, <1>19, <1>20, <1>21, <1>22, <1>23, <1>24, <1>25,
     <1>26, <1>27, <1>28, <1>29, <1>30
  DEF Next, Session, Abort, Startup

\* The same for the IP database and its version marker.
XdbFit(v, d) == \/ "xdb" \in told
                \/ /\ "xdb" \in logged \/ v.xdb = d.tag
                   /\ lost \/ d.xdb = d.tag

\* As CrsInv; between the two renames the file is new and the marker old.
XdbInv ==
    /\ pc \in Settled \cup {"state"} => XdbFit(rows, disk)
    /\ pc = "files" => ses.snap = NoFiles
    /\ pc \in Landing => ses.snap # NoFiles /\ XdbFit(rows, ses.snap)
    /\ pc \in {"crs", "swap", "copy", "xdb"} =>
         ses.snap.xdb = disk.xdb /\ ses.snap.tag = disk.tag
    /\ pc = "tag" => disk.xdb = tx.xdb
    /\ pc \in {"threat", "prune"} \cup Late => XdbFit(tx, disk)
    /\ pc \in Late => \/ ses.snap = NoFiles /\ XdbFit(rows, disk)
                      \/ ses.snap # NoFiles /\ XdbFit(rows, ses.snap)
    /\ pc = "abort" => /\ ses.snap = NoFiles => XdbFit(rows, disk)
                       /\ ses.snap # NoFiles => ses.unsure \/ XdbFit(rows, ses.snap)
    /\ pc \in {"seed", "leftovers"} => \/ lost \/ "xdb" \in told
                                       \/ disk.xdb = disk.tag

LEMMA XdbNext ==
    TypeOK /\ Snapped /\ XdbInv /\ [Next]_vars => XdbInv'
<1> SUFFICES ASSUME TypeOK, Snapped, XdbInv, [Next]_vars
             PROVE  XdbInv'
  OBVIOUS
<1>1. CASE Begin
  <2>1. PICK c \in Candidates :
           /\ tx' = c /\ pc' = IF c \in Archive(used.imports + 3) THEN "files" ELSE "keep"
    BY <1>1 DEF Begin
  <2>2. pc' = "keep" => tx'.crs = rows.crs /\ tx'.xdb = rows.xdb /\ tx'.threat = rows.threat
    BY <2>1 DEF Candidates, Plain
  <2>3. pc' \in {"files", "keep"} /\ ses'.snap = NoFiles
    BY <1>1, <2>1 DEF Begin, NoSes
  <2> QED BY <1>1, <2>2, <2>3 DEF Begin, XdbInv, XdbFit, Settled, Landing, Late
<1>2. CASE SnapshotFiles
  BY <1>2, GensFacts
  DEF SnapshotFiles, XdbInv, XdbFit, Settled, Landing, Late, TypeOK, Fails, SesType,
      RowsType, DiskType, LiveFiles, NoFiles
<1>3. CASE UnpackCRS
  BY <1>3
  DEF UnpackCRS, XdbInv, XdbFit, Settled, Landing, Late, TypeOK, SesType, RowsType, DiskType
<1>4. CASE SwapCRS
  BY <1>4
  DEF SwapCRS, XdbInv, XdbFit, Settled, Landing, Late, TypeOK, SesType, RowsType, DiskType
<1>5. CASE CopyCRS
  BY <1>5
  DEF CopyCRS, XdbInv, XdbFit, Settled, Landing, Late, TypeOK, SesType, RowsType, DiskType
<1>6. CASE CRSFails
  BY <1>6
  DEF CRSFails, XdbInv, XdbFit, Settled, Landing, Late, TypeOK, SesType, RowsType, DiskType,
      LocalVersions
<1>7. CASE LandXdb
  BY <1>7
  DEF LandXdb, XdbInv, XdbFit, Settled, Landing, Late, TypeOK, ThreatStep, SesType,
      RowsType, DiskType
<1>8. CASE LandTag
  BY <1>8
  DEF LandTag, XdbInv, XdbFit, Settled, Landing, Late, TypeOK, ThreatStep, SesType,
      RowsType, DiskType
<1>9. CASE LandThreat
  BY <1>9
  DEF LandThreat, XdbInv, XdbFit, Settled, Landing, Late, TypeOK, SesType, RowsType,
      DiskType
<1>10. CASE PruneThreat
  BY <1>10
  DEF PruneThreat, XdbInv, XdbFit, Settled, Landing, Late, TypeOK, SesType, RowsType,
      DiskType
<1>11. CASE KeepRuntime
  BY <1>11
  DEF KeepRuntime, XdbInv, XdbFit, Settled, Landing, Late, TypeOK, Fails, SesType, RowsType,
      DiskType
<1>12. CASE WriteCerts
  BY <1>12
  DEF WriteCerts, XdbInv, XdbFit, Settled, Landing, Late, TypeOK, Fails, Materialise,
      SesType, RowsType, DiskType
<1>13. CASE Apply
  BY <1>13
  DEF Apply, XdbInv, XdbFit, Settled, Landing, Late, TypeOK, Fails, SesType, RowsType,
      DiskType
<1>14. CASE PlanCleanup
  BY <1>14
  DEF PlanCleanup, XdbInv, XdbFit, Settled, Landing, Late, TypeOK, Fails, SesType, RowsType,
      DiskType
<1>15. CASE Commit
  BY <1>15
  DEF Commit, XdbInv, XdbFit, Settled, Landing, Late, TypeOK, Fails, SesType, RowsType,
      DiskType
<1>16. CASE PersistLkg
  BY <1>16
  DEF PersistLkg, XdbInv, XdbFit, Settled, Landing, Late, TypeOK, Close, SesType, RowsType,
      DiskType
<1>17. CASE Cleanup
  BY <1>17
  DEF Cleanup, XdbInv, XdbFit, Settled, Landing, Late, TypeOK, SesType, RowsType, DiskType
<1>18. CASE AbortFiles
  BY <1>18
  DEF AbortFiles, XdbInv, XdbFit, Settled, Landing, Late, TypeOK, SesType, RowsType,
      DiskType, Restored, Snapped, Whole
<1>19. CASE AbortView
  BY <1>19
  DEF AbortView, XdbInv, XdbFit, Settled, Landing, Late, TypeOK, Close, Materialise,
      SesType, RowsType, DiskType
<1>20. CASE AbortUntried
  BY <1>20
  DEF AbortUntried, XdbInv, XdbFit, Settled, Landing, Late, TypeOK, Close, SesType,
      RowsType, DiskType
<1>21. CASE AbortCerts
  BY <1>21
  DEF AbortCerts, XdbInv, XdbFit, Settled, Landing, Late, TypeOK, SesType, RowsType,
      DiskType
<1>22. CASE AbortRuntime
  BY <1>22
  DEF AbortRuntime, XdbInv, XdbFit, Settled, Landing, Late, TypeOK, Close, Materialise,
      SesType, RowsType, DiskType, SameConfig
<1>23. CASE AbortAbsent
  BY <1>23
  DEF AbortAbsent, XdbInv, XdbFit, Settled, Landing, Late, TypeOK, Close, SesType, RowsType,
      DiskType
<1>24. CASE Reload
  BY <1>24
  DEF Reload, XdbInv, XdbFit, Settled, Landing, Late, TypeOK, Materialise, SesType,
      RowsType, DiskType, ForcedApply
<1>25. CASE Crash
  BY <1>25
  DEF Crash, XdbInv, XdbFit, Settled, Landing, Late, TypeOK, SesType, RowsType, DiskType
<1>26. CASE SeedCRSRules
  BY <1>26
  DEF SeedCRSRules, XdbInv, XdbFit, Settled, Landing, Late, TypeOK, SesType, RowsType,
      DiskType
<1>27. CASE Leftovers
  BY <1>27
  DEF Leftovers, XdbInv, XdbFit, Settled, Landing, Late, TypeOK, SesType, RowsType, DiskType
<1>28. CASE ReconcileCRSState
  BY <1>28
  DEF ReconcileCRSState, XdbInv, XdbFit, Settled, Landing, Late, TypeOK, SesType, RowsType,
      DiskType, PlanCRS, Known, Refreshed
<1>29. CASE Boot
  BY <1>29
  DEF Boot, XdbInv, XdbFit, Settled, Landing, Late, TypeOK, Materialise, SesType, RowsType,
      DiskType
<1>30. CASE UNCHANGED vars BY <1>30 DEF vars, XdbInv, XdbFit
<1> QED
  BY <1>1, <1>2, <1>3, <1>4, <1>5, <1>6, <1>7, <1>8, <1>9, <1>10, <1>11, <1>12, <1>13,
     <1>14, <1>15, <1>16, <1>17, <1>18, <1>19, <1>20, <1>21, <1>22, <1>23, <1>24, <1>25,
     <1>26, <1>27, <1>28, <1>29, <1>30
  DEF Next, Session, Abort, Startup

\* The same for a threat list.
ThreatFit(v, d) == \/ "threat" \in told
                   \/ v.threat = d.threat
                   \/ IF v.threat = Missing THEN "threat" \in logged ELSE lost

\* As CrsInv; after a crash only lists without a source are looked at.
ThreatInv ==
    /\ pc \in Settled \cup {"state"} => ThreatFit(rows, disk)
    /\ pc = "files" => ses.snap = NoFiles
    /\ pc \in Landing => /\ ses.snap # NoFiles /\ ThreatFit(rows, ses.snap)
                         /\ ses.snap.threat = disk.threat
    /\ pc = "prune" => tx.threat = Missing
    /\ pc \in Late => ThreatFit(tx, disk)
    /\ pc \in Late => \/ ses.snap = NoFiles /\ ThreatFit(rows, disk)
                      \/ ses.snap # NoFiles /\ ThreatFit(rows, ses.snap)
    /\ pc = "abort" => /\ ses.snap = NoFiles => ThreatFit(rows, disk)
                       /\ ses.snap # NoFiles => ses.unsure \/ ThreatFit(rows, ses.snap)
    /\ pc \in {"seed", "leftovers"} => lost \/ ThreatFit(rows, disk)

LEMMA ThreatNext ==
    TypeOK /\ Snapped /\ ThreatInv /\ [Next]_vars => ThreatInv'
<1> SUFFICES ASSUME TypeOK, Snapped, ThreatInv, [Next]_vars
             PROVE  ThreatInv'
  OBVIOUS
<1>1. CASE Begin
  <2>1. PICK c \in Candidates :
           /\ tx' = c /\ pc' = IF c \in Archive(used.imports + 3) THEN "files" ELSE "keep"
    BY <1>1 DEF Begin
  <2>2. pc' = "keep" => tx'.crs = rows.crs /\ tx'.xdb = rows.xdb /\ tx'.threat = rows.threat
    BY <2>1 DEF Candidates, Plain
  <2>3. pc' \in {"files", "keep"} /\ ses'.snap = NoFiles
    BY <1>1, <2>1 DEF Begin, NoSes
  <2> QED BY <1>1, <2>2, <2>3 DEF Begin, ThreatInv, ThreatFit, Settled, Landing, Late
<1>2. CASE SnapshotFiles
  BY <1>2, GensFacts
  DEF SnapshotFiles, ThreatInv, ThreatFit, Settled, Landing, Late, TypeOK, Fails, SesType,
      RowsType, DiskType, LiveFiles, NoFiles
<1>3. CASE UnpackCRS
  BY <1>3
  DEF UnpackCRS, ThreatInv, ThreatFit, Settled, Landing, Late, TypeOK, SesType, RowsType,
      DiskType
<1>4. CASE SwapCRS
  BY <1>4
  DEF SwapCRS, ThreatInv, ThreatFit, Settled, Landing, Late, TypeOK, SesType, RowsType,
      DiskType
<1>5. CASE CopyCRS
  BY <1>5
  DEF CopyCRS, ThreatInv, ThreatFit, Settled, Landing, Late, TypeOK, SesType, RowsType,
      DiskType
<1>6. CASE CRSFails
  BY <1>6
  DEF CRSFails, ThreatInv, ThreatFit, Settled, Landing, Late, TypeOK, SesType, RowsType,
      DiskType, LocalVersions
<1>7. CASE LandXdb
  BY <1>7
  DEF LandXdb, ThreatInv, ThreatFit, Settled, Landing, Late, TypeOK, ThreatStep, SesType,
      RowsType, DiskType
<1>8. CASE LandTag
  BY <1>8
  DEF LandTag, ThreatInv, ThreatFit, Settled, Landing, Late, TypeOK, ThreatStep, SesType,
      RowsType, DiskType
<1>9. CASE LandThreat
  BY <1>9
  DEF LandThreat, ThreatInv, ThreatFit, Settled, Landing, Late, TypeOK, SesType, RowsType,
      DiskType
<1>10. CASE PruneThreat
  BY <1>10
  DEF PruneThreat, ThreatInv, ThreatFit, Settled, Landing, Late, TypeOK, SesType, RowsType,
      DiskType
<1>11. CASE KeepRuntime
  BY <1>11
  DEF KeepRuntime, ThreatInv, ThreatFit, Settled, Landing, Late, TypeOK, Fails, SesType,
      RowsType, DiskType
<1>12. CASE WriteCerts
  BY <1>12
  DEF WriteCerts, ThreatInv, ThreatFit, Settled, Landing, Late, TypeOK, Fails, Materialise,
      SesType, RowsType, DiskType
<1>13. CASE Apply
  BY <1>13
  DEF Apply, ThreatInv, ThreatFit, Settled, Landing, Late, TypeOK, Fails, SesType, RowsType,
      DiskType
<1>14. CASE PlanCleanup
  BY <1>14
  DEF PlanCleanup, ThreatInv, ThreatFit, Settled, Landing, Late, TypeOK, Fails, SesType,
      RowsType, DiskType
<1>15. CASE Commit
  BY <1>15
  DEF Commit, ThreatInv, ThreatFit, Settled, Landing, Late, TypeOK, Fails, SesType,
      RowsType, DiskType
<1>16. CASE PersistLkg
  BY <1>16
  DEF PersistLkg, ThreatInv, ThreatFit, Settled, Landing, Late, TypeOK, Close, SesType,
      RowsType, DiskType
<1>17. CASE Cleanup
  BY <1>17
  DEF Cleanup, ThreatInv, ThreatFit, Settled, Landing, Late, TypeOK, SesType, RowsType,
      DiskType
<1>18. CASE AbortFiles
  BY <1>18
  DEF AbortFiles, ThreatInv, ThreatFit, Settled, Landing, Late, TypeOK, SesType, RowsType,
      DiskType, Restored, Snapped, Whole
<1>19. CASE AbortView
  BY <1>19
  DEF AbortView, ThreatInv, ThreatFit, Settled, Landing, Late, TypeOK, Close, Materialise,
      SesType, RowsType, DiskType
<1>20. CASE AbortUntried
  BY <1>20
  DEF AbortUntried, ThreatInv, ThreatFit, Settled, Landing, Late, TypeOK, Close, SesType,
      RowsType, DiskType
<1>21. CASE AbortCerts
  BY <1>21
  DEF AbortCerts, ThreatInv, ThreatFit, Settled, Landing, Late, TypeOK, SesType, RowsType,
      DiskType
<1>22. CASE AbortRuntime
  BY <1>22
  DEF AbortRuntime, ThreatInv, ThreatFit, Settled, Landing, Late, TypeOK, Close,
      Materialise, SesType, RowsType, DiskType, SameConfig
<1>23. CASE AbortAbsent
  BY <1>23
  DEF AbortAbsent, ThreatInv, ThreatFit, Settled, Landing, Late, TypeOK, Close, SesType,
      RowsType, DiskType
<1>24. CASE Reload
  BY <1>24
  DEF Reload, ThreatInv, ThreatFit, Settled, Landing, Late, TypeOK, Materialise, SesType,
      RowsType, DiskType, ForcedApply
<1>25. CASE Crash
  BY <1>25
  DEF Crash, ThreatInv, ThreatFit, Settled, Landing, Late, TypeOK, SesType, RowsType,
      DiskType
<1>26. CASE SeedCRSRules
  BY <1>26
  DEF SeedCRSRules, ThreatInv, ThreatFit, Settled, Landing, Late, TypeOK, SesType, RowsType,
      DiskType
<1>27. CASE Leftovers
  BY <1>27
  DEF Leftovers, ThreatInv, ThreatFit, Settled, Landing, Late, TypeOK, SesType, RowsType,
      DiskType
<1>28. CASE ReconcileCRSState
  BY <1>28
  DEF ReconcileCRSState, ThreatInv, ThreatFit, Settled, Landing, Late, TypeOK, SesType,
      RowsType, DiskType, PlanCRS, Known, Refreshed
<1>29. CASE Boot
  BY <1>29
  DEF Boot, ThreatInv, ThreatFit, Settled, Landing, Late, TypeOK, Materialise, SesType,
      RowsType, DiskType
<1>30. CASE UNCHANGED vars BY <1>30 DEF vars, ThreatInv, ThreatFit
<1> QED
  BY <1>1, <1>2, <1>3, <1>4, <1>5, <1>6, <1>7, <1>8, <1>9, <1>10, <1>11, <1>12, <1>13,
     <1>14, <1>15, <1>16, <1>17, <1>18, <1>19, <1>20, <1>21, <1>22, <1>23, <1>24, <1>25,
     <1>26, <1>27, <1>28, <1>29, <1>30
  DEF Next, Session, Abort, Startup

\* Version rows and rule files agree whenever no import is open, but for parts
\* an answer, an audit entry or the log names: partial landings, aborts,
\* uncertain commits, crashes and failing repairs included
\* (snapshotLbbakWafTargets, restore, ReconcileWafFileCrashLeftovers,
\* reconcileCRSStateFromInLock).
THEOREM RecordsAreOfFiles == Spec => []RecordsMatchFiles
<1> DEFINE I == TypeOK /\ Snapped /\ CrsInv /\ XdbInv /\ ThreatInv
<1>1. Init => I
  BY InitTyped DEF Init, NoSes, Snapped, CrsInv, XdbInv, ThreatInv, CrsFit,
                   XdbFit, ThreatFit, Landing, Late
<1>2. I /\ [Next]_vars => I'
  BY TypeNext, SnappedNext, CrsNext, XdbNext, ThreatNext
<1>3. I => RecordsMatchFiles
  BY DEF CrsInv, XdbInv, ThreatInv, CrsFit, XdbFit, ThreatFit, Settled,
         RecordsMatchFiles
<1> QED BY <1>1, <1>2, <1>3, PTL DEF Spec

-----------------------------------------------------------------------------
(* Rows and certificate files.                                             *)

\* A certificate file agrees with the committed rows.
CertFit(cert) == \/ cert = rows.cert
                 \/ "cert" \in told
                 \/ lost /\ rows.cert = Missing

\* Steps before the certificates are kept, and steps of an abort.
Opening == {"files", "keep"} \cup Landing
Undoing == {"abort", "view", "untried", "back", "run", "absent"}

\* What is kept for the abort fits the rows; when the commit is uncertain the
\* clean-up plan covers the rows that have landed, the kept files the others.
CertInv ==
    /\ pc \in {"idle", "certs"} \cup Opening => CertFit(disk.cert)
    /\ pc \in Opening => ses.keep = Unset
    /\ pc \in Opening \cup {"certs", "apply", "plan"} => ~ses.plan
    /\ pc \in Opening \cup {"certs", "apply", "plan", "commit"} => ~ses.unsure
    /\ pc = "certs" => ses.keep = disk.cert
    /\ pc \in {"apply", "plan", "commit"} =>
         /\ ses.keep # Unset /\ CertFit(ses.keep)
         /\ disk.cert = tx.cert \/ (tx.cert = Missing /\ disk.cert = ses.keep)
    /\ pc \in {"plan", "commit"} => ses.tried
    /\ pc = "commit" =>
         /\ ses.plan => tx.cert = Missing
         /\ tx.cert = Missing => ses.plan \/ rows.cert = Missing \/ "cert" \in told
    /\ pc = "persist" => IF ses.plan THEN rows.cert = Missing ELSE CertFit(disk.cert)
    /\ pc = "cleanup" => rows.cert = Missing \/ CertFit(disk.cert)
    /\ pc \in Undoing =>
         /\ ses.keep = Unset => CertFit(disk.cert) /\ ~ses.plan
         /\ ~ses.unsure => ~ses.plan /\ (ses.keep # Unset => CertFit(ses.keep))
         /\ ses.unsure => ses.tried
         /\ ses.unsure /\ rows.cert = Missing => ses.plan \/ CertFit(ses.keep)
    /\ pc = "untried" => ~ses.unsure
    /\ pc \in {"back", "run", "absent"} /\ ses.unsure /\ rows.cert # Missing =>
         disk.cert = rows.cert
    /\ pc = "run" => ses.unsure \/ CertFit(disk.cert)
    /\ pc = "absent" => ses.unsure
    /\ pc \in {"seed", "leftovers", "state", "boot"} =>
         rows.cert # Missing \/ CertFit(disk.cert)

LEMMA CertNext ==
    TypeOK /\ Snapped /\ CertInv /\ [Next]_vars => CertInv'
<1> SUFFICES ASSUME TypeOK, Snapped, CertInv, [Next]_vars
             PROVE  CertInv'
  OBVIOUS
<1>1. CASE Begin
  BY <1>1
  DEF Begin, CertInv, CertFit, Opening, Undoing, Landing, TypeOK, SesType, RowsType,
      DiskType, NoSes
<1>2. CASE SnapshotFiles
  BY <1>2
  DEF SnapshotFiles, CertInv, CertFit, Opening, Undoing, Landing, TypeOK, Fails, SesType,
      RowsType, DiskType
<1>3. CASE UnpackCRS
  BY <1>3
  DEF UnpackCRS, CertInv, CertFit, Opening, Undoing, Landing, TypeOK, SesType, RowsType,
      DiskType
<1>4. CASE SwapCRS
  BY <1>4
  DEF SwapCRS, CertInv, CertFit, Opening, Undoing, Landing, TypeOK, SesType, RowsType,
      DiskType
<1>5. CASE CopyCRS
  BY <1>5
  DEF CopyCRS, CertInv, CertFit, Opening, Undoing, Landing, TypeOK, SesType, RowsType,
      DiskType
<1>6. CASE CRSFails
  BY <1>6
  DEF CRSFails, CertInv, CertFit, Opening, Undoing, Landing, TypeOK, SesType, RowsType,
      DiskType, LocalVersions
<1>7. CASE LandXdb
  BY <1>7
  DEF LandXdb, CertInv, CertFit, Opening, Undoing, Landing, TypeOK, ThreatStep, SesType,
      RowsType, DiskType
<1>8. CASE LandTag
  BY <1>8
  DEF LandTag, CertInv, CertFit, Opening, Undoing, Landing, TypeOK, ThreatStep, SesType,
      RowsType, DiskType
<1>9. CASE LandThreat
  BY <1>9
  DEF LandThreat, CertInv, CertFit, Opening, Undoing, Landing, TypeOK, SesType, RowsType,
      DiskType
<1>10. CASE PruneThreat
  BY <1>10
  DEF PruneThreat, CertInv, CertFit, Opening, Undoing, Landing, TypeOK, SesType, RowsType,
      DiskType
<1>11. CASE KeepRuntime
  BY <1>11, GensFacts
  DEF KeepRuntime, CertInv, CertFit, Opening, Undoing, Landing, TypeOK, Fails, SesType,
      RowsType, DiskType
<1>12. CASE WriteCerts
  BY <1>12, GensFacts
  DEF WriteCerts, CertInv, CertFit, Opening, Undoing, Landing, TypeOK, Fails, Materialise,
      SesType, RowsType, DiskType
<1>13. CASE Apply
  BY ZenonT(60), <1>13
  DEF Apply, CertInv, CertFit, Opening, Undoing, Landing, TypeOK, Fails, SesType, RowsType,
      DiskType
<1>14. CASE PlanCleanup
  BY <1>14
  DEF PlanCleanup, CertInv, CertFit, Opening, Undoing, Landing, TypeOK, Fails, SesType,
      RowsType, DiskType
<1>15. CASE Commit
  BY <1>15
  DEF Commit, CertInv, CertFit, Opening, Undoing, Landing, TypeOK, Fails, SesType, RowsType,
      DiskType
<1>16. CASE PersistLkg
  BY <1>16
  DEF PersistLkg, CertInv, CertFit, Opening, Undoing, Landing, TypeOK, Close, SesType,
      RowsType, DiskType
<1>17. CASE Cleanup
  BY <1>17
  DEF Cleanup, CertInv, CertFit, Opening, Undoing, Landing, TypeOK, SesType, RowsType,
      DiskType, Superfluous
<1>18. CASE AbortFiles
  BY <1>18
  DEF AbortFiles, CertInv, CertFit, Opening, Undoing, Landing, TypeOK, SesType, RowsType,
      DiskType, Restored
<1>19. CASE AbortView
  BY <1>19
  DEF AbortView, CertInv, CertFit, Opening, Undoing, Landing, TypeOK, Close, Materialise,
      SesType, RowsType, DiskType
<1>20. CASE AbortUntried
  BY <1>20, GensFacts
  DEF AbortUntried, CertInv, CertFit, Opening, Undoing, Landing, TypeOK, Close, SesType,
      RowsType, DiskType, Snapped
<1>21. CASE AbortCerts
  BY <1>21, GensFacts
  DEF AbortCerts, CertInv, CertFit, Opening, Undoing, Landing, TypeOK, SesType, RowsType,
      DiskType, Snapped
<1>22. CASE AbortRuntime
  BY <1>22
  DEF AbortRuntime, CertInv, CertFit, Opening, Undoing, Landing, TypeOK, Close, Materialise,
      SesType, RowsType, DiskType
<1>23. CASE AbortAbsent
  BY <1>23
  DEF AbortAbsent, CertInv, CertFit, Opening, Undoing, Landing, TypeOK, Close, SesType,
      RowsType, DiskType
<1>24. CASE Reload
  BY <1>24
  DEF Reload, CertInv, CertFit, Opening, Undoing, Landing, TypeOK, Materialise, SesType,
      RowsType, DiskType, ForcedApply
<1>25. CASE Crash
  BY <1>25
  DEF Crash, CertInv, CertFit, Opening, Undoing, Landing, TypeOK, SesType, RowsType,
      DiskType, NoSes
<1>26. CASE SeedCRSRules
  BY <1>26
  DEF SeedCRSRules, CertInv, CertFit, Opening, Undoing, Landing, TypeOK, SesType, RowsType,
      DiskType
<1>27. CASE Leftovers
  BY <1>27
  DEF Leftovers, CertInv, CertFit, Opening, Undoing, Landing, TypeOK, SesType, RowsType,
      DiskType
<1>28. CASE ReconcileCRSState
  BY <1>28
  DEF ReconcileCRSState, CertInv, CertFit, Opening, Undoing, Landing, TypeOK, SesType,
      RowsType, DiskType, PlanCRS, Known, Refreshed
<1>29. CASE Boot
  BY <1>29
  DEF Boot, CertInv, CertFit, Opening, Undoing, Landing, TypeOK, Materialise, SesType,
      RowsType, DiskType
<1>30. CASE UNCHANGED vars BY <1>30 DEF vars, CertInv, CertFit
<1> QED
  BY <1>1, <1>2, <1>3, <1>4, <1>5, <1>6, <1>7, <1>8, <1>9, <1>10, <1>11, <1>12, <1>13,
     <1>14, <1>15, <1>16, <1>17, <1>18, <1>19, <1>20, <1>21, <1>22, <1>23, <1>24, <1>25,
     <1>26, <1>27, <1>28, <1>29, <1>30
  DEF Next, Session, Abort, Startup

\* The certificate files on disk are those of the committed rows whenever no
\* import is open: keys of an import that failed are gone, keys in use stay
\* (MaterializeCertPairs, restoreCertFiles, restoreCertsAbsentFromCommittedView,
\* runPostCommitCleanup).
THEOREM CertificatesMatch == Spec => []CertsMatch
<1> DEFINE I == TypeOK /\ Snapped /\ CertInv
<1>1. Init => I
  BY InitTyped DEF Init, NoSes, Snapped, CertInv, CertFit, Opening, Undoing, Landing
<1>2. I /\ [Next]_vars => I'
  BY TypeNext, SnappedNext, CertNext
<1>3. I => CertsMatch
  BY DEF CertInv, CertFit, CertsMatch
<1> QED BY <1>1, <1>2, <1>3, PTL DEF Spec

-----------------------------------------------------------------------------
(* What Caddy serves.                                                      *)

\* The files Caddy would find if the session were undone now.
Base     == IF ses.snap = NoFiles THEN disk ELSE ses.snap
BaseCert == IF ses.keep = Unset THEN disk.cert ELSE ses.keep

\* Caddy runs the committed rows with these files, but for what is admitted.
Shows(cert, files) ==
    /\ caddy.conf = rows.conf
    /\ "cert" \in told \/ caddy.cert = IF rows.cert = Missing THEN Missing ELSE cert
    /\ "crs" \in told \/ caddy.crs = files.crs
    /\ "xdb" \in told \/ caddy.xdb = files.xdb
    /\ "threat" \in told \/ caddy.threat = files.threat

\* The same, unless a banner says that Caddy could not be brought there.
Serving(cert, files) == "conf" \in told \/ Shows(cert, files)

\* Caddy runs something that is not committed.
Foreign == caddy.conf # rows.conf

\* Caddy runs the committed rows with the files of the snapshot until it is
\* asked, and the candidate afterwards; an abort finds one or the other, and in
\* the second case the JSON differs, so the unforced restore is not skipped.
ServesInv ==
    /\ rows.conf <= used.imports + 2
    /\ pc \in Opening \cup {"certs", "apply", "plan", "commit"} =>
         tx.conf = used.imports + 2 /\ rows.conf # tx.conf
    /\ pc \in Opening \cup {"certs", "apply"} =>
         ~ses.tried /\ Serving(BaseCert, Base)
    /\ pc = "files" => ses.snap = NoFiles
    /\ pc \in Landing => ses.snap # NoFiles
    /\ pc \in {"plan", "commit"} => caddy = Render(tx, disk)
    /\ pc = "persist" => Shows(disk.cert, disk)
    /\ pc \in {"idle", "cleanup", "absent"} => Serving(disk.cert, disk)
    /\ pc \in Undoing /\ ses.tried => ses.keep # Unset
    /\ pc \in {"abort", "view"} /\ ~ses.unsure =>
         Serving(BaseCert, Base) \/ (ses.tried /\ Foreign)
    /\ pc \in {"abort", "view"} /\ ses.unsure =>
         \/ Foreign
         \/ Serving(disk.cert, disk) /\ (rows.cert = Missing \/ disk.cert = rows.cert)
    /\ pc \in Undoing \ {"abort"} => ses.snap = NoFiles
    /\ pc = "untried" => Serving(ses.keep, disk)
    /\ pc = "back" => \/ Foreign
                      \/ Serving(IF ses.unsure THEN disk.cert ELSE ses.keep, disk)
    /\ pc = "run" => Foreign \/ Serving(disk.cert, disk)

LEMMA ServesNext ==
    TypeOK /\ Snapped /\ CertInv /\ ServesInv /\ ~SameJson /\ [Next]_vars => ServesInv'
<1> SUFFICES ASSUME TypeOK, Snapped, CertInv, ServesInv, ~SameJson, [Next]_vars
             PROVE  ServesInv'
  OBVIOUS
<1>1. CASE Begin
  <2>1. PICK c \in Candidates :
           tx' = c /\ pc' \in {"files", "keep"}
    BY <1>1 DEF Begin
  <2>2. tx'.conf = used.imports + 3
    BY <2>1 DEF Candidates, Plain, Archive, Confs
  <2>3. ses' = NoSes /\ used'.imports = used.imports + 1
    BY <1>1 DEF Begin, TypeOK, UsedType
  <2>4. ses'.snap = NoFiles /\ ses'.keep = Unset /\ ~ses'.tried
    BY <2>3 DEF NoSes
  <2>5. used.imports \in Nat /\ rows.conf \in Nat
    BY ImportAssumption DEF TypeOK, UsedType, RowsType, Gens
  <2> QED BY <1>1, <2>1, <2>2, <2>3, <2>4, <2>5
          DEF Begin, ServesInv, Opening, Undoing, Landing, Serving, Shows, Base, BaseCert
<1>2. CASE SnapshotFiles
  <2>1. ~ses.unsure /\ (pc = "certs" => ses.keep = disk.cert)
        /\ (pc \in {"apply", "plan", "commit"} => ses.keep # Unset)
        /\ (pc = "keep" => ses.keep = Unset) /\ (pc = "plan" => ses.tried)
        /\ (pc \in {"apply", "plan", "commit"} => disk.cert = tx.cert \/ tx.cert = Missing)
    BY <1>2 DEF SnapshotFiles, CertInv, Opening, Landing
  <2>2. disk.cert \in Gens BY DEF TypeOK, DiskType
  <2>3. used.imports \in Nat /\ rows.conf \in Nat /\ used'.imports = used.imports
    BY <1>2, ImportAssumption
    DEF SnapshotFiles, Fails, Fault, TypeOK, UsedType, RowsType, Gens
  <2>4. CASE pc' = "abort"
    BY <1>2, <2>1, <2>2, <2>3, <2>4, GensFacts
    DEF SnapshotFiles, ServesInv, Opening, Undoing, Landing, Serving, Shows, Base, BaseCert,
        Foreign, TypeOK, Fails, SesType, RowsType, DiskType
  <2>5. CASE pc' = "crs" /\ ses' = [ses EXCEPT !.snap = LiveFiles]
    <3>1. /\ ses'.snap = LiveFiles /\ ses'.keep = ses.keep /\ ses'.tried = ses.tried
          /\ ses'.unsure = ses.unsure /\ ses.snap = NoFiles
      BY <1>2, <2>5 DEF SnapshotFiles, TypeOK, SesType, ServesInv
    <3>2. LiveFiles # NoFiles BY <2>2, GensFacts DEF LiveFiles, NoFiles, TypeOK, DiskType
    <3>3. /\ Base'.crs = Base.crs /\ Base'.xdb = Base.xdb /\ Base'.threat = Base.threat
          /\ BaseCert' = BaseCert
      BY <1>2, <3>1, <3>2 DEF SnapshotFiles, Base, BaseCert, LiveFiles
    <3>4. UNCHANGED <<rows, tx, disk, caddy, told>> BY <1>2 DEF SnapshotFiles
    <3>5. Serving(BaseCert, Base)' BY <1>2, <3>3, <3>4
      DEF SnapshotFiles, ServesInv, Opening, Serving, Shows
    <3> QED BY <1>2, <2>3, <2>5, <3>1, <3>2, <3>4, <3>5
            DEF SnapshotFiles, ServesInv, Opening, Undoing, Landing
  <2> QED BY <1>2, <2>4, <2>5 DEF SnapshotFiles, Fails
<1>3. CASE UnpackCRS
  BY <1>3, ImportAssumption
  DEF UnpackCRS, ServesInv, Opening, Undoing, Landing, Serving, Shows, Base, BaseCert,
      Foreign, TypeOK, SesType, RowsType, DiskType, UsedType
<1>4. CASE SwapCRS
  BY <1>4, ImportAssumption
  DEF SwapCRS, ServesInv, Opening, Undoing, Landing, Serving, Shows, Base, BaseCert,
      Foreign, TypeOK, SesType, RowsType, DiskType, UsedType
<1>5. CASE CopyCRS
  BY <1>5, ImportAssumption
  DEF CopyCRS, ServesInv, Opening, Undoing, Landing, Serving, Shows, Base, BaseCert,
      Foreign, TypeOK, SesType, RowsType, DiskType, UsedType
<1>6. CASE CRSFails
  BY <1>6, ImportAssumption
  DEF CRSFails, ServesInv, Opening, Undoing, Landing, Serving, Shows, Base, BaseCert,
      Foreign, TypeOK, Fault, SesType, RowsType, DiskType, UsedType, LocalVersions
<1>7. CASE LandXdb
  BY <1>7, ImportAssumption
  DEF LandXdb, ServesInv, Opening, Undoing, Landing, Serving, Shows, Base, BaseCert,
      Foreign, TypeOK, ThreatStep, Fault, SesType, RowsType, DiskType, UsedType
<1>8. CASE LandTag
  BY <1>8, ImportAssumption
  DEF LandTag, ServesInv, Opening, Undoing, Landing, Serving, Shows, Base, BaseCert,
      Foreign, TypeOK, ThreatStep, Fault, SesType, RowsType, DiskType, UsedType
<1>9. CASE LandThreat
  BY <1>9, ImportAssumption
  DEF LandThreat, ServesInv, Opening, Undoing, Landing, Serving, Shows, Base, BaseCert,
      Foreign, TypeOK, Fault, SesType, RowsType, DiskType, UsedType
<1>10. CASE PruneThreat
  BY <1>10, ImportAssumption
  DEF PruneThreat, ServesInv, Opening, Undoing, Landing, Serving, Shows, Base, BaseCert,
      Foreign, TypeOK, Fault, SesType, RowsType, DiskType, UsedType
<1>11. CASE KeepRuntime
  <2>1. ~ses.unsure /\ (pc = "certs" => ses.keep = disk.cert)
        /\ (pc \in {"apply", "plan", "commit"} => ses.keep # Unset)
        /\ (pc = "keep" => ses.keep = Unset) /\ (pc = "plan" => ses.tried)
        /\ (pc \in {"apply", "plan", "commit"} => disk.cert = tx.cert \/ tx.cert = Missing)
    BY <1>11 DEF KeepRuntime, CertInv, Opening, Landing
  <2>2. disk.cert \in Gens BY DEF TypeOK, DiskType
  <2>3. used.imports \in Nat /\ rows.conf \in Nat /\ used'.imports = used.imports
    BY <1>11, ImportAssumption
    DEF KeepRuntime, Fails, Fault, TypeOK, UsedType, RowsType, Gens
  <2>4. CASE pc' = "abort"
    BY <1>11, <2>1, <2>2, <2>3, <2>4, GensFacts
    DEF KeepRuntime, ServesInv, Opening, Undoing, Landing, Serving, Shows, Base, BaseCert,
        Foreign, TypeOK, Fails, SesType, RowsType, DiskType
  <2>5. CASE pc' # "abort"
    BY <1>11, <2>1, <2>2, <2>3, <2>5, GensFacts
    DEF KeepRuntime, ServesInv, Opening, Undoing, Landing, Serving, Shows, Base, BaseCert,
        Foreign, TypeOK, Fails, SesType, RowsType, DiskType
  <2> QED BY <2>4, <2>5
<1>12. CASE WriteCerts
  <2>1. ~ses.unsure /\ (pc = "certs" => ses.keep = disk.cert)
        /\ (pc \in {"apply", "plan", "commit"} => ses.keep # Unset)
        /\ (pc = "keep" => ses.keep = Unset) /\ (pc = "plan" => ses.tried)
        /\ (pc \in {"apply", "plan", "commit"} => disk.cert = tx.cert \/ tx.cert = Missing)
    BY <1>12 DEF WriteCerts, CertInv, Opening, Landing
  <2>2. disk.cert \in Gens BY DEF TypeOK, DiskType
  <2>3. used.imports \in Nat /\ rows.conf \in Nat /\ used'.imports = used.imports
    BY <1>12, ImportAssumption
    DEF WriteCerts, Fails, Fault, TypeOK, UsedType, RowsType, Gens
  <2>4. CASE pc' = "abort"
    BY <1>12, <2>1, <2>2, <2>3, <2>4, GensFacts
    DEF WriteCerts, ServesInv, Opening, Undoing, Landing, Serving, Shows, Base, BaseCert,
        Foreign, TypeOK, Fails, Materialise, SesType, RowsType, DiskType
  <2>5. CASE pc' # "abort"
    BY <1>12, <2>1, <2>2, <2>3, <2>5, GensFacts
    DEF WriteCerts, ServesInv, Opening, Undoing, Landing, Serving, Shows, Base, BaseCert,
        Foreign, TypeOK, Fails, Materialise, SesType, RowsType, DiskType
  <2> QED BY <2>4, <2>5
<1>13. CASE Apply
  <2>1. ~ses.unsure /\ (pc = "certs" => ses.keep = disk.cert)
        /\ (pc \in {"apply", "plan", "commit"} => ses.keep # Unset)
        /\ (pc = "keep" => ses.keep = Unset) /\ (pc = "plan" => ses.tried)
        /\ (pc \in {"apply", "plan", "commit"} => disk.cert = tx.cert \/ tx.cert = Missing)
    BY <1>13 DEF Apply, CertInv, Opening, Landing
  <2>2. disk.cert \in Gens BY DEF TypeOK, DiskType
  <2>3. used.imports \in Nat /\ rows.conf \in Nat /\ used'.imports = used.imports
    BY <1>13, ImportAssumption DEF Apply, Fails, Fault, TypeOK, UsedType, RowsType, Gens
  <2>4. CASE pc' = "abort"
    BY <1>13, <2>1, <2>2, <2>3, <2>4, GensFacts
    DEF Apply, ServesInv, Opening, Undoing, Landing, Serving, Shows, Base, BaseCert,
        Foreign, TypeOK, Fails, SesType, RowsType, DiskType, Render, LkgInTx
  <2>5. CASE pc' # "abort"
    BY <1>13, <2>1, <2>2, <2>3, <2>5, GensFacts
    DEF Apply, ServesInv, Opening, Undoing, Landing, Serving, Shows, Base, BaseCert,
        Foreign, TypeOK, Fails, SesType, RowsType, DiskType, Render, LkgInTx
  <2> QED BY <2>4, <2>5
<1>14. CASE PlanCleanup
  <2>1. ~ses.unsure /\ (pc = "certs" => ses.keep = disk.cert)
        /\ (pc \in {"apply", "plan", "commit"} => ses.keep # Unset)
        /\ (pc = "keep" => ses.keep = Unset) /\ (pc = "plan" => ses.tried)
        /\ (pc \in {"apply", "plan", "commit"} => disk.cert = tx.cert \/ tx.cert = Missing)
    BY <1>14 DEF PlanCleanup, CertInv, Opening, Landing
  <2>2. disk.cert \in Gens BY DEF TypeOK, DiskType
  <2>3. used.imports \in Nat /\ rows.conf \in Nat /\ used'.imports = used.imports
    BY <1>14, ImportAssumption
    DEF PlanCleanup, Fails, Fault, TypeOK, UsedType, RowsType, Gens
  <2>4. CASE pc' = "abort"
    BY <1>14, <2>1, <2>2, <2>3, <2>4, GensFacts
    DEF PlanCleanup, ServesInv, Opening, Undoing, Landing, Serving, Shows, Base, BaseCert,
        Foreign, TypeOK, Fails, SesType, RowsType, DiskType, Render
  <2>5. CASE pc' # "abort"
    BY <1>14, <2>1, <2>2, <2>3, <2>5, GensFacts
    DEF PlanCleanup, ServesInv, Opening, Undoing, Landing, Serving, Shows, Base, BaseCert,
        Foreign, TypeOK, Fails, SesType, RowsType, DiskType, Render
  <2> QED BY <2>4, <2>5
<1>15. CASE Commit
  <2>1. ~ses.unsure /\ (pc = "certs" => ses.keep = disk.cert)
        /\ (pc \in {"apply", "plan", "commit"} => ses.keep # Unset)
        /\ (pc = "keep" => ses.keep = Unset) /\ (pc = "plan" => ses.tried)
        /\ (pc \in {"apply", "plan", "commit"} => disk.cert = tx.cert \/ tx.cert = Missing)
    BY <1>15 DEF Commit, CertInv, Opening, Landing
  <2>2. disk.cert \in Gens BY DEF TypeOK, DiskType
  <2>3. used.imports \in Nat /\ rows.conf \in Nat /\ used'.imports = used.imports
    BY <1>15, ImportAssumption DEF Commit, Fails, Fault, TypeOK, UsedType, RowsType, Gens
  <2>4. CASE pc' = "persist"
    BY <1>15, <2>1, <2>2, <2>3, <2>4, GensFacts
    DEF Commit, ServesInv, Opening, Undoing, Landing, Serving, Shows, Base, BaseCert,
        Foreign, TypeOK, Fails, SesType, RowsType, DiskType, Render
  <2>5. CASE pc' = "abort" /\ rows' = tx
    BY <1>15, <2>1, <2>2, <2>3, <2>5, GensFacts
    DEF Commit, ServesInv, Opening, Undoing, Landing, Serving, Shows, Base, BaseCert,
        Foreign, TypeOK, Fails, SesType, RowsType, DiskType, Render
  <2>6. CASE pc' = "abort" /\ rows' = rows
    BY <1>15, <2>1, <2>2, <2>3, <2>6, GensFacts
    DEF Commit, ServesInv, Opening, Undoing, Landing, Serving, Shows, Base, BaseCert,
        Foreign, TypeOK, Fails, SesType, RowsType, DiskType, Render
  <2> QED BY <1>15, <2>4, <2>5, <2>6 DEF Commit, Fails
<1>16. CASE PersistLkg
  BY <1>16, ImportAssumption
  DEF PersistLkg, ServesInv, Opening, Undoing, Landing, Serving, Shows, Base, BaseCert,
      Foreign, TypeOK, Close, Fault, SesType, RowsType, DiskType, UsedType
<1>17. CASE Cleanup
  BY <1>17, ImportAssumption
  DEF Cleanup, ServesInv, Opening, Undoing, Landing, Serving, Shows, Base, BaseCert,
      Foreign, TypeOK, Fault, SesType, RowsType, DiskType, UsedType, Superfluous
<1>18. CASE AbortFiles
  <2>1. used'.imports = used.imports /\ ses'.snap = NoFiles /\ ses'.keep = ses.keep
        /\ ses'.tried = ses.tried /\ ses'.unsure = ses.unsure /\ disk'.cert = disk.cert
    BY <1>18 DEF AbortFiles, Fault, TypeOK, UsedType, SesType, DiskType, Restored
  <2>2. told \subseteq told' /\ pc' = "view" /\ UNCHANGED <<rows, caddy, tx>>
    BY <1>18 DEF AbortFiles
  <2>3. CASE ses.unsure
    <3>1. disk' = disk BY <1>18, <2>3 DEF AbortFiles
    <3> QED BY <1>18, <2>1, <2>2, <2>3, <3>1
            DEF AbortFiles, ServesInv, Opening, Undoing, Landing, Serving, Shows, Foreign
  <2>4. CASE ~ses.unsure
    <3>1. /\ "crs" \in told' \/ disk'.crs = Base.crs
          /\ "xdb" \in told' \/ disk'.xdb = Base.xdb
          /\ "threat" \in told' \/ disk'.threat = Base.threat
      BY <1>18, <2>4 DEF AbortFiles, Base, Restored, TypeOK, DiskType
    <3>2. Serving(BaseCert, Base) => Serving(BaseCert, Base)'
      BY <2>1, <2>2, <3>1 DEF Serving, Shows, Base, BaseCert
    <3>3. (ses.tried /\ Foreign) => (ses.tried /\ Foreign)'
      BY <2>1, <2>2 DEF Foreign
    <3> QED BY <1>18, <2>1, <2>2, <2>4, <3>2, <3>3
            DEF AbortFiles, ServesInv, Opening, Undoing, Landing
  <2> QED BY <2>3, <2>4
<1>19. CASE AbortView
  BY <1>19, ImportAssumption, GensFacts
  DEF AbortView, ServesInv, Opening, Undoing, Landing, Serving, Shows, Base, BaseCert,
      Foreign, TypeOK, Close, Materialise, SesType, RowsType, DiskType, UsedType, CertInv,
      CertFit
<1>20. CASE AbortUntried
  BY <1>20, ImportAssumption, GensFacts
  DEF AbortUntried, ServesInv, Opening, Undoing, Landing, Serving, Shows, Base, BaseCert,
      Foreign, TypeOK, Close, Fault, SesType, RowsType, DiskType, UsedType
<1>21. CASE AbortCerts
  BY <1>21, ImportAssumption, GensFacts
  DEF AbortCerts, ServesInv, Opening, Undoing, Landing, Serving, Shows, Base, BaseCert,
      Foreign, TypeOK, Fault, SesType, RowsType, DiskType, UsedType
<1>22. CASE AbortRuntime
  BY <1>22, ImportAssumption
  DEF AbortRuntime, ServesInv, Opening, Undoing, Landing, Serving, Shows, Base, BaseCert,
      Foreign, TypeOK, Close, Materialise, Fault, SesType, RowsType, DiskType, UsedType,
      SameConfig, Render
<1>23. CASE AbortAbsent
  BY <1>23, ImportAssumption
  DEF AbortAbsent, ServesInv, Opening, Undoing, Landing, Serving, Shows, Base, BaseCert,
      Foreign, TypeOK, Close, Fault, SesType, RowsType, DiskType, UsedType
<1>24. CASE Reload
  BY <1>24, ImportAssumption
  DEF Reload, ServesInv, Opening, Undoing, Landing, Serving, Shows, Base, BaseCert, Foreign,
      TypeOK, Materialise, Fault, SesType, RowsType, DiskType, UsedType, ForcedApply, Render
<1>25. CASE Crash
  BY <1>25, ImportAssumption
  DEF Crash, ServesInv, Opening, Undoing, Landing, Serving, Shows, Base, BaseCert, Foreign,
      TypeOK, SesType, RowsType, DiskType, UsedType
<1>26. CASE SeedCRSRules
  BY <1>26, ImportAssumption
  DEF SeedCRSRules, Fault, ServesInv, Opening, Undoing, Landing, Serving, Shows, Base, BaseCert,
      Foreign, TypeOK, SesType, RowsType, DiskType, UsedType
<1>27. CASE Leftovers
  BY <1>27, ImportAssumption
  DEF Leftovers, Fault, ServesInv, Opening, Undoing, Landing, Serving, Shows, Base, BaseCert,
      Foreign, TypeOK, SesType, RowsType, DiskType, UsedType
<1>28. CASE ReconcileCRSState
  BY <1>28, ImportAssumption
  DEF ReconcileCRSState, Fault, ServesInv, Opening, Undoing, Landing, Serving, Shows, Base,
      BaseCert, Foreign, TypeOK, SesType, RowsType, DiskType, UsedType, PlanCRS, Known, Refreshed
<1>29. CASE Boot
  BY <1>29, ImportAssumption
  DEF Boot, ServesInv, Opening, Undoing, Landing, Serving, Shows, Base, BaseCert, Foreign,
      TypeOK, Materialise, Fault, SesType, RowsType, DiskType, UsedType, Render
<1>30. CASE UNCHANGED vars
  BY <1>30
  DEF vars, ServesInv, Serving, Shows, Base, BaseCert, Foreign, Render
<1> QED
  BY <1>1, <1>2, <1>3, <1>4, <1>5, <1>6, <1>7, <1>8, <1>9, <1>10, <1>11, <1>12, <1>13,
     <1>14, <1>15, <1>16, <1>17, <1>18, <1>19, <1>20, <1>21, <1>22, <1>23, <1>24, <1>25,
     <1>26, <1>27, <1>28, <1>29, <1>30
  DEF Next, Session, Abort, Startup

\* When every import renders to a JSON of its own, Caddy serves the committed
\* rows and the files on disk whenever no import is open and no banner is up
\* (session.abort, RestoreRuntimeToCommittedInLock, ApplyConfigOnStartup).
THEOREM CommittedIsServed ==
    ASSUME ~SameJson
    PROVE  Spec => []ServesCommitted
<1> DEFINE I == TypeOK /\ Snapped /\ CertInv /\ ServesInv
<1>1. Init => I
  <2> SUFFICES ASSUME Init PROVE I OBVIOUS
  <2>1. TypeOK /\ Snapped /\ CertInv
    BY InitTyped DEF Init, NoSes, Snapped, CertInv, CertFit, Opening, Undoing, Landing
  <2>2. ServesInv
    BY ImportAssumption
    DEF Init, ServesInv, Opening, Undoing, Landing, Serving, Shows, Render,
                            Bundled
  <2> QED BY <2>1, <2>2
<1>2. I /\ [Next]_vars => I'
  BY TypeNext, SnappedNext, CertNext, ServesNext
<1>3. I => ServesCommitted
  BY DEF ServesInv, Serving, Shows, ServesCommitted, Render, Parts
<1> QED BY <1>1, <1>2, <1>3, PTL DEF Spec

=============================================================================
