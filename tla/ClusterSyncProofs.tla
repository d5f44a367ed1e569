------------------------- MODULE ClusterSyncProofs -------------------------
(***************************************************************************)
(* Theorems about ClusterSync, for any number of snapshots, any trouble    *)
(* and every back-off.                                                     *)
(***************************************************************************)
EXTENDS ClusterSync, TLAPS

-----------------------------------------------------------------------------
(* Types.                                                                  *)

\* A registration number is used up by an event before it is handed out.
RegInv ==
    /\ row.reg <= used + 1
    /\ flip.kind = "demote" /\ flip.pc \in {"drain", "commit"} =>
         row.reg <= used

LEMMA InitTyped == Init => TypeOK /\ RegInv
BY SyncAssumption DEF Init, TypeOK, RegInv, RowType, DataType, BookType, DiskType,
   SyncType, LoopType, PullType, TaskType, FlipType, PastType, UsedType, Content, Unset,
   Regs, Errors, Markers, PullPcs, Effects, Counter, Results, NoPull, NoLoop, NoFlip

LEMMA NumberFacts ==
    /\ 0 \in Content /\ 0 \in Regs /\ 0 \in Counter /\ Unset \in 0..Unset
    /\ Content \subseteq 0..Unset /\ 1..Snapshots \subseteq Content
    /\ \A n \in Counter : Bump(n) \in Counter
BY SyncAssumption DEF Content, Regs, Counter, Unset, Bump

LEMMA RowsTyped ==
    ASSUME TypeOK, NEW p \in Pullers
    PROVE  /\ Rows(p) \in Content /\ Rows(p) # Unset
           /\ pull[p].snap # 0 => Rows(p) # 0
<1>1. pull[p].snap \in 0..Snapshots BY DEF TypeOK, PullType, Content
<1> QED BY SMTT(40), <1>1, SyncAssumption DEF Rows, Content, Unset

-----------------------------------------------------------------------------
(* The steps of a pull.                                                    *)

\* The other caller of Pull is where it was.
Others(p) == \A q \in Pullers \ {p} : pull'[q] = pull[q]

\* What p has read and fetched, it has still.
Kept(p) == /\ pull'[p].reg = pull[p].reg /\ pull'[p].token = pull[p].token
           /\ pull'[p].behind = pull[p].behind
Same(p) == Kept(p) /\ pull'[p].snap = pull[p].snap

LEMMA Moves ==
    ASSUME TypeOK, NEW p \in Pullers
    PROVE  /\ \A pc : Goto(p, pc) => /\ pull'[p].pc = pc /\ Others(p) /\ Same(p)
                                    /\ pull'[p].why = pull[p].why
           /\ \A r : Return(p, r) => /\ pull'[p].pc = "note" /\ Others(p)
                                     /\ pull'[p].result = r
           /\ Admit(p) => /\ pull'[p].pc = "lock" /\ Others(p)
                          /\ pull'[p].behind = (flip.pc = "commit")
<1>1. pull \in [Pullers -> PullType] /\ pull[p] \in PullType BY DEF TypeOK
<1>2. ASSUME NEW pc, Goto(p, pc)
      PROVE  /\ pull'[p].pc = pc /\ Others(p) /\ Same(p) /\ pull'[p].why = pull[p].why
  BY <1>1, <1>2 DEF Goto, Others, Same, Kept, PullType
<1>3. ASSUME NEW r, Return(p, r)
      PROVE  pull'[p].pc = "note" /\ Others(p) /\ pull'[p].result = r
  BY <1>1, <1>3 DEF Return, Others, NoPull
<1>4. ASSUME Admit(p)
      PROVE  /\ pull'[p].pc = "lock" /\ Others(p)
             /\ pull'[p].behind = (flip.pc = "commit")
  BY <1>1, <1>4 DEF Admit, Others, PullType
<1> QED BY <1>2, <1>3, <1>4

LEMMA RecordsTyped ==
    /\ NoPull \in PullType /\ NoLoop \in LoopType /\ NoFlip \in FlipType
    /\ [NoLoop EXCEPT !.pc = "load"] \in LoopType
    /\ [NoPull EXCEPT !.pc = "resume"] \in PullType
    /\ [stopped |-> FALSE, state |-> "running", reloadFails |-> 0, fileFails |-> 0]
         \in SyncType
    /\ [stopped |-> FALSE, state |-> "stopped", reloadFails |-> 0, fileFails |-> 0]
         \in SyncType
BY NumberFacts DEF NoPull, NoLoop, NoFlip, PullType, LoopType, FlipType, SyncType,
                   PullPcs, Errors, Results

LEMMA FaultTyped ==
    TypeOK => /\ \A k : Fault(k) => used' \in UsedType
              /\ \A p, k : FaultOf(p, k) => used' \in UsedType
              /\ Event => used' \in UsedType
BY SyncAssumption DEF TypeOK, Fault, FaultOf, Event, UsedType

LEMMA PullTyped ==
    ASSUME TypeOK, NEW p \in Pullers
    PROVE  /\ \A pc \in PullPcs : Goto(p, pc) => pull' \in [Pullers -> PullType]
           /\ \A r \in Results : Return(p, r) => pull' \in [Pullers -> PullType]
           /\ Admit(p) => pull' \in [Pullers -> PullType]
<1>1. pull \in [Pullers -> PullType] /\ pull[p] \in PullType BY DEF TypeOK
<1>2. ASSUME NEW pc \in PullPcs, Goto(p, pc) PROVE pull' \in [Pullers -> PullType]
  BY <1>1, <1>2 DEF Goto, PullType
<1>3. ASSUME NEW r \in Results, Return(p, r) PROVE pull' \in [Pullers -> PullType]
  <2>1. [NoPull EXCEPT !.pc = "note", !.result = r, !.why = pull[p].why \cap {"tried"}]
           \in PullType
    BY <1>1, RecordsTyped DEF PullType, PullPcs
  <2> QED BY <1>1, <1>3, <2>1 DEF Return
<1>4. ASSUME Admit(p) PROVE pull' \in [Pullers -> PullType]
  BY <1>1, <1>4 DEF Admit, PullType, PullPcs
<1> QED BY <1>2, <1>3, <1>4

LEMMA MessageTyped ==
    ASSUME TypeOK, NEW r \in Results, NEW t
    PROVE  Message(r, t) \in Errors \cup {"skip"}
BY DEF TypeOK, Message, Marked, Errors, Markers, RowType, Results

LEMMA NoteTyped ==
    ASSUME TypeOK, NEW r \in Results, LoopNote(r)
    PROVE  loop' \in LoopType
<1>1. Message(r, FALSE) \in Errors \cup {"skip"} BY MessageTyped
<1>2. row.error \in Errors /\ loop \in LoopType BY DEF TypeOK, RowType
<1> QED BY <1>1, <1>2 DEF LoopNote, LoopType

LEMMA PersistTyped ==
    ASSUME TypeOK, NEW m \in Errors, PersistSyncError(m)
    PROVE  /\ row' \in RowType /\ row'.reg = row.reg
           /\ row'.role = row.role /\ row'.token = row.token
           /\ row'.applied = row.applied
BY DEF TypeOK, PersistSyncError, RowType

LEMMA RecordTyped ==
    ASSUME TypeOK, NEW m \in Errors \cup {"skip"}, Record(m)
    PROVE  /\ row' \in RowType /\ row'.reg = row.reg
           /\ row'.role = row.role /\ row'.token = row.token
           /\ row'.applied = row.applied
BY PersistTyped DEF TypeOK, Record, RowType

LEMMA LifeTyped ==
    TypeOK => /\ Start \/ Resume => sync' \in SyncType /\ loop' \in LoopType
              /\ \A s \in {"stopped", "halted"} :
                   FinishRun(s) => sync' \in SyncType /\ loop' \in LoopType
BY RecordsTyped DEF TypeOK, Start, Resume, StartLocked, FinishRun, SyncType

LEMMA TypeNext == TypeOK /\ RegInv /\ [Next]_vars => TypeOK'
<1> SUFFICES ASSUME TypeOK, RegInv, [Next]_vars PROVE TypeOK'
  OBVIOUS
<1>1. ASSUME NEW p \in Pullers, PullRead(p) PROVE TypeOK'
  <2>1. pull' \in [Pullers -> PullType]
    <3>1. row.reg \in Regs /\ row.token \in Regs /\ row.applied \in Content
      BY DEF TypeOK, RowType
    <3>2. CASE Return(p, "quiet") \/ Return(p, "lost")
      BY <3>2, PullTyped DEF Results
    <3>3. CASE pull' = [pull EXCEPT ![p].pc = "sent", ![p].reg = row.reg,
                                    ![p].token = row.token, ![p].since = row.applied]
      <4>1. pull \in [Pullers -> PullType] BY DEF TypeOK
      <4>2. [pull[p] EXCEPT !.pc = "sent", !.reg = row.reg, !.token = row.token,
                            !.since = row.applied] \in PullType
        BY ZenonT(60), <3>1, <4>1 DEF PullType, PullPcs
      <4> QED BY <3>3, <4>1, <4>2
    <3> QED BY <1>1, <3>2, <3>3 DEF PullRead
  <2> QED BY <1>1, <2>1 DEF PullRead, TypeOK
<1>2. ASSUME NEW p \in Pullers, PullFails(p) PROVE TypeOK'
  <2>1. pull' \in [Pullers -> PullType]
    BY <1>2, PullTyped DEF PullFails, TypeOK, Results
  <2>2. used' \in UsedType
    BY <1>2, FaultTyped DEF PullFails, TypeOK
  <2> QED BY <1>2, <2>1, <2>2 DEF PullFails, TypeOK
<1>3. ASSUME NEW p \in Pullers, PullSnapshot(p) PROVE TypeOK'
  <2>1. pull' \in [Pullers -> PullType]
    <3>1. master \in Content BY NumberFacts DEF TypeOK
    <3>2. pull \in [Pullers -> PullType] BY DEF TypeOK
    <3>3. [pull[p] EXCEPT !.pc = "check", !.snap = master] \in PullType
      <4>1. pull[p] \in PullType BY <3>2
      <4> QED BY <3>1, <4>1 DEF PullType, PullPcs
    <3>4. pull' = [pull EXCEPT ![p] = [pull[p] EXCEPT !.pc = "check", !.snap = master]]
      BY <1>3 DEF PullSnapshot
    <3> QED BY <3>2, <3>3, <3>4
  <2> QED BY <1>3, <2>1 DEF PullSnapshot, TypeOK
<1>4. ASSUME NEW p \in Pullers, PullRepull(p) PROVE TypeOK'
  <2>1. pull' \in [Pullers -> PullType]
    BY <1>4, PullTyped DEF PullRepull, TypeOK, PullPcs
  <2>2. sync' \in SyncType
    BY <1>4, NumberFacts DEF PullRepull, TypeOK, Retries, SyncType
  <2> QED BY <1>4, <2>1, <2>2 DEF PullRepull, TypeOK
<1>5. ASSUME NEW p \in Pullers, PullUnchanged(p) PROVE TypeOK'
  <2>1. pull' \in [Pullers -> PullType]
    BY <1>5, PullTyped DEF PullUnchanged, TypeOK, PullType, PullPcs, Results, Reasons
  <2>2. sync' \in SyncType
    BY <1>5, NumberFacts DEF PullUnchanged, TypeOK, Retries, SyncType
  <2>3. disk' \in DiskType
    BY <1>5 DEF PullUnchanged, TypeOK, DiskType, DataType
  <2>4. used' \in UsedType
    BY <1>5, FaultTyped DEF PullUnchanged, TypeOK
  <2> QED BY <1>5, <2>1, <2>2, <2>3, <2>4 DEF PullUnchanged, TypeOK
<1>6. ASSUME NEW p \in Pullers, PullCheck(p) PROVE TypeOK'
  <2>1. pull' \in [Pullers -> PullType]
    BY <1>6, PullTyped DEF PullCheck, TypeOK, PullPcs, Results
  <2>2. used' \in UsedType
    BY <1>6, FaultTyped DEF PullCheck, TypeOK
  <2> QED BY <1>6, <2>1, <2>2 DEF PullCheck, TypeOK
<1>7. ASSUME NEW p \in Pullers, PullApply(p) PROVE TypeOK'
  <2>1. pull' \in [Pullers -> PullType]
    BY <1>7, PullTyped
    DEF PullApply, TypeOK, PullType, PullPcs, Results, Reasons, DataType, Markers
  <2> QED BY <1>7, <2>1 DEF PullApply, TypeOK
<1>8. ASSUME NEW p \in Pullers, PullTx(p) PROVE TypeOK'
  <2>1. pull' \in [Pullers -> PullType]
    BY <1>8, PullTyped DEF PullTx, TypeOK, PullType, PullPcs, Results, Reasons
  <2>2. disk' \in DiskType
    BY <1>8, RowsTyped DEF PullTx, TypeOK, DiskType, PullType
  <2>3. used' \in UsedType
    BY <1>8, FaultTyped DEF PullTx, TypeOK
  <2> QED BY <1>8, <2>1, <2>2, <2>3 DEF PullTx, TypeOK
<1>9. ASSUME NEW p \in Pullers, PullCommit(p) PROVE TypeOK'
  <2>1. row' \in RowType
    BY <1>9, PersistTyped
    DEF PullCommit, TypeOK, Committed, RowType, PullType, Errors, Markers
  <2>2. data' \in DataType
    BY <1>9, RowsTyped DEF PullCommit, TypeOK, Committed, DataType, PullType
  <2>3. disk' \in DiskType
    BY <1>9, RowsTyped DEF PullCommit, TypeOK, DiskType, PullType
  <2>4. pull' \in [Pullers -> PullType]
    BY <1>9, PullTyped DEF PullCommit, TypeOK, PullPcs, Results, Effects
  <2>5. used' \in UsedType
    BY <1>9, FaultTyped DEF PullCommit, TypeOK
  <2>6. past' \in PastType
    BY <1>9 DEF PullCommit, TypeOK, PastType, Committed
  <2> QED BY <1>9, <2>1, <2>2, <2>3, <2>4, <2>5, <2>6 DEF PullCommit, TypeOK
<1>10. ASSUME NEW p \in Pullers, PullBranding(p) PROVE TypeOK'
  <2>1. row' \in RowType
    BY <1>10, PersistTyped DEF PullBranding, TypeOK, Errors, Markers
  <2>2. disk' \in DiskType
    BY <1>10, RowsTyped DEF PullBranding, TypeOK, DiskType, PullType
  <2>3. pull' \in [Pullers -> PullType]
    BY <1>10, PullTyped DEF PullBranding, TypeOK, PullType, PullPcs, Reasons, Effects
  <2>4. used' \in UsedType
    BY <1>10, FaultTyped DEF PullBranding, TypeOK
  <2> QED BY <1>10, <2>1, <2>2, <2>3, <2>4 DEF PullBranding, TypeOK
<1>11. ASSUME NEW p \in Pullers, PullHashes(p) PROVE TypeOK'
  <2>1. book' \in BookType
    BY <1>11, NumberFacts, RowsTyped DEF PullHashes, TypeOK, BookType, PullType
  <2>2. pull' \in [Pullers -> PullType]
    BY <1>11, PullTyped DEF PullHashes, TypeOK, PullType, PullPcs, Reasons, Effects
  <2>3. used' \in UsedType
    BY <1>11, FaultTyped DEF PullHashes, TypeOK
  <2>4. past' \in PastType
    BY <1>11 DEF PullHashes, TypeOK, PastType
  <2> QED BY <1>11, <2>1, <2>2, <2>3, <2>4 DEF PullHashes, TypeOK
<1>12. ASSUME NEW p \in Pullers, PullFiles(p) PROVE TypeOK'
  <2>1. disk' \in DiskType
    BY <1>12 DEF PullFiles, TypeOK, DiskType, PullType
  <2>2. pull' \in [Pullers -> PullType]
    BY <1>12, PullTyped DEF PullFiles, TypeOK, PullType, PullPcs, Reasons, Effects
  <2>3. used' \in UsedType
    BY <1>12, FaultTyped DEF PullFiles, TypeOK
  <2> QED BY <1>12, <2>1, <2>2, <2>3 DEF PullFiles, TypeOK
<1>13. ASSUME NEW p \in Pullers, PullLoad(p) PROVE TypeOK'
  <2>1. row' \in RowType
    BY <1>13, PersistTyped DEF PullLoad, TypeOK, Errors, Markers
  <2>2. running' \in Content
    BY <1>13 DEF PullLoad, TypeOK, DataType
  <2>3. sync' \in SyncType
    BY <1>13, NumberFacts DEF PullLoad, TypeOK, SyncType
  <2>4. pull' \in [Pullers -> PullType]
    BY <1>13, PullTyped DEF PullLoad, TypeOK, Results
  <2>5. used' \in UsedType
    BY <1>13, FaultTyped DEF PullLoad, TypeOK
  <2>6. past' \in PastType
    BY <1>13 DEF PullLoad, TypeOK, PastType
  <2> QED BY <1>13, <2>1, <2>2, <2>3, <2>4, <2>5, <2>6 DEF PullLoad, TypeOK
<1>14. ASSUME NEW p \in Pullers, PullNote(p) PROVE TypeOK'
  <2>1. pull' \in [Pullers -> PullType]
    <3>1. pull[p].result \in Results BY DEF TypeOK, PullType
    <3>2. Message(pull[p].result, "tried" \in pull[p].why) \in Errors \cup {"skip"}
      BY <3>1, MessageTyped
    <3>3. pull[p] \in PullType /\ pull \in [Pullers -> PullType] BY DEF TypeOK
    <3>4. [pull[p] EXCEPT !.pc = "write",
                          !.message = Message(pull[p].result, "tried" \in pull[p].why)]
             \in PullType
      BY <3>2, <3>3 DEF PullType, PullPcs
    <3> QED BY <1>14, <3>3, <3>4 DEF PullNote
  <2> QED BY <1>14, <2>1 DEF PullNote, TypeOK
<1>15. ASSUME NEW p \in Pullers, PullWrite(p) PROVE TypeOK'
  <2>1. row' \in RowType
    BY <1>15, RecordTyped DEF PullWrite, TypeOK, PullType
  <2>2. pull' \in [Pullers -> PullType]
    BY <1>15, RecordsTyped DEF PullWrite, TypeOK
  <2>3. sync' \in SyncType
    BY <1>15, LifeTyped DEF PullWrite, TypeOK
  <2>4. loop' \in LoopType
    BY <1>15, LifeTyped DEF PullWrite, TypeOK, LoopType
  <2>5. past' \in PastType
    BY <1>15 DEF PullWrite, TypeOK, PastType, Erases
  <2> QED BY <1>15, <2>1, <2>2, <2>3, <2>4, <2>5 DEF PullWrite, TypeOK
<1>16. CASE PullManual
  <2>1. pull' \in [Pullers -> PullType]
    BY <1>16, PullTyped DEF PullManual, TypeOK, PullPcs, Pullers
  <2>2. used' \in UsedType
    BY <1>16, FaultTyped DEF PullManual, TypeOK
  <2> QED BY <1>16, <2>1, <2>2 DEF PullManual, TypeOK
<1>17. CASE PullResume
  <2>1. pull' \in [Pullers -> PullType]
    BY <1>17, PullTyped DEF PullResume, TypeOK, PullPcs, Pullers
  <2>2. sync' \in SyncType
    BY <1>17, LifeTyped DEF PullResume, TypeOK
  <2>3. loop' \in LoopType
    BY <1>17, LifeTyped DEF PullResume, TypeOK
  <2> QED BY <1>17, <2>1, <2>2, <2>3 DEF PullResume, TypeOK
<1>18. CASE LoopEnds
  <2>1. sync' \in SyncType
    BY <1>18, LifeTyped DEF LoopEnds, LoopUnchanged, TypeOK
  <2>2. loop' \in LoopType
    BY <1>18, LifeTyped DEF LoopEnds, LoopUnchanged, TypeOK
  <2> QED BY <1>18, <2>1, <2>2 DEF LoopEnds, LoopUnchanged, TypeOK
<1>19. CASE LoopLoad
  <2>1. loop' \in LoopType
    <3>1. loop \in LoopType /\ row.reg \in Regs BY DEF TypeOK, RowType
    <3> QED BY <1>19, <3>1, NoteTyped DEF LoopLoad, LoopType, Results
  <2>2. pull' \in [Pullers -> PullType]
    BY <1>19, PullTyped DEF LoopLoad, LoopUnchanged, TypeOK, PullPcs, Pullers
  <2>3. used' \in UsedType
    BY <1>19, FaultTyped DEF LoopLoad, LoopUnchanged, TypeOK
  <2> QED BY <1>19, <2>1, <2>2, <2>3 DEF LoopLoad, LoopUnchanged, TypeOK
<1>20. CASE LoopPolled
  <2>1. row' \in RowType
    BY <1>20 DEF LoopPolled, LoopUnchanged, TypeOK, RowType, LoopType
  <2>2. loop' \in LoopType
    BY <1>20 DEF LoopPolled, LoopUnchanged, TypeOK, LoopType
  <2> QED BY <1>20, <2>1, <2>2 DEF LoopPolled, LoopUnchanged, TypeOK
<1>21. CASE LoopReport
  <2>1. loop' \in LoopType
    BY <1>21, NoteTyped DEF LoopReport, Results
  <2>2. used' \in UsedType
    BY <1>21, FaultTyped DEF LoopReport, LoopUnchanged, TypeOK
  <2> QED BY <1>21, <2>1, <2>2 DEF LoopReport, LoopUnchanged, TypeOK
<1>23. CASE LoopWrite
  <2>1. row' \in RowType
    BY <1>23, RecordTyped DEF LoopWrite, LoopUnchanged, TypeOK, LoopType
  <2>2. loop' \in LoopType
    BY <1>23 DEF LoopWrite, LoopUnchanged, TypeOK, LoopType, Errors
  <2>3. past' \in PastType
    BY <1>23 DEF LoopWrite, TypeOK, PastType, Erases
  <2> QED BY <1>23, <2>1, <2>2, <2>3 DEF LoopWrite, LoopUnchanged, TypeOK
<1>24. CASE Switch
  <2>1. task' \in TaskType
    BY <1>24 DEF Switch, TaskUnchanged, TypeOK, Cancel, TaskType
  <2>2. used' \in UsedType
    BY <1>24, FaultTyped DEF Switch, TaskUnchanged, TypeOK
  <2> QED BY <1>24, <2>1, <2>2 DEF Switch, TaskUnchanged, TypeOK
<1>25. CASE TaskStart
  <2>1. task' \in TaskType
    BY <1>25 DEF TaskStart, TaskUnchanged, TypeOK, TaskType
  <2>2. sync' \in SyncType
    BY <1>25, LifeTyped DEF TaskStart, TaskUnchanged, TypeOK
  <2>3. loop' \in LoopType
    BY <1>25, LifeTyped DEF TaskStart, TaskUnchanged, TypeOK
  <2> QED BY <1>25, <2>1, <2>2, <2>3 DEF TaskStart, TaskUnchanged, TypeOK
<1>26. CASE TaskStop
  <2>1. task' \in TaskType
    BY <1>26 DEF TaskStop, TaskUnchanged, TypeOK, TaskType
  <2>2. sync' \in SyncType
    BY <1>26 DEF TaskStop, TaskUnchanged, TypeOK, SyncType
  <2>3. loop' \in LoopType
    BY <1>26 DEF TaskStop, TaskUnchanged, TypeOK, LoopType
  <2> QED BY <1>26, <2>1, <2>2, <2>3 DEF TaskStop, TaskUnchanged, TypeOK
<1>27. CASE TaskStopped
  <2>1. task' \in TaskType
    BY <1>27 DEF TaskStopped, TaskUnchanged, TypeOK, TaskType
  <2>2. sync' \in SyncType
    BY <1>27, NumberFacts DEF TaskStopped, TaskUnchanged, TypeOK, SyncType
  <2> QED BY <1>27, <2>1, <2>2 DEF TaskStopped, TaskUnchanged, TypeOK
<1>28. CASE PromoteBegin
  <2>1. flip' \in FlipType
    BY <1>28 DEF PromoteBegin, FlipUnchanged, TypeOK, FlipType, TaskType
  <2>2. task' \in TaskType
    BY <1>28 DEF PromoteBegin, FlipUnchanged, TypeOK, Cancel, TaskType
  <2>3. sync' \in SyncType
    BY <1>28 DEF PromoteBegin, FlipUnchanged, TypeOK, Drain, SyncType
  <2>4. used' \in UsedType
    BY <1>28, FaultTyped DEF PromoteBegin, FlipUnchanged, TypeOK, Drain
  <2> QED BY <1>28, <2>1, <2>2, <2>3, <2>4 DEF PromoteBegin, FlipUnchanged, TypeOK
<1>29. CASE DemoteBegin
  <2>1. flip' \in FlipType
    BY <1>29 DEF DemoteBegin, FlipUnchanged, TypeOK, FlipType, TaskType
  <2>2. sync' \in SyncType
    BY <1>29 DEF DemoteBegin, FlipUnchanged, TypeOK, Drain, SyncType
  <2>3. used' \in UsedType
    BY <1>29, FaultTyped DEF DemoteBegin, FlipUnchanged, TypeOK, Drain
  <2> QED BY <1>29, <2>1, <2>2, <2>3 DEF DemoteBegin, FlipUnchanged, TypeOK
<1>30. CASE FlipDrained
  <2>1. flip' \in FlipType
    BY <1>30 DEF FlipDrained, FlipUnchanged, TypeOK, FlipType
  <2> QED BY <1>30, <2>1 DEF FlipDrained, FlipUnchanged, TypeOK
<1>31. CASE PromoteCommit
  <2>1. row' \in RowType
    BY <1>31, NumberFacts DEF PromoteCommit, FlipUnchanged, TypeOK, Cleared, RowType, Errors
  <2>2. book' \in BookType
    BY <1>31, NumberFacts DEF PromoteCommit, FlipUnchanged, TypeOK, BookType
  <2>3. flip' \in FlipType
    BY <1>31 DEF PromoteCommit, FlipUnchanged, TypeOK, FlipType
  <2> QED BY <1>31, <2>1, <2>2, <2>3 DEF PromoteCommit, FlipUnchanged, TypeOK
<1>32. CASE PromoteEnd
  <2>1. task' \in TaskType
    BY <1>32 DEF PromoteEnd, FlipUnchanged, TypeOK, Cancel, TaskType, FlipType
  <2>2. sync' \in SyncType
    BY <1>32 DEF PromoteEnd, FlipUnchanged, TypeOK, SyncType
  <2>3. flip' \in FlipType
    BY <1>32, RecordsTyped DEF PromoteEnd, FlipUnchanged, TypeOK
  <2> QED BY <1>32, <2>1, <2>2, <2>3 DEF PromoteEnd, FlipUnchanged, TypeOK
<1>33. CASE DemoteCommit
  <2>1. row' \in RowType
    <3>1. row.reg + 1 \in Regs
      BY <1>33, SyncAssumption DEF DemoteCommit, RegInv, TypeOK, RowType, UsedType, Regs
    <3>2. Cleared(row) \in RowType
      BY NumberFacts DEF Cleared, TypeOK, RowType, Errors
    <3> QED BY <1>33, <3>1, <3>2 DEF DemoteCommit, RowType
  <2>2. book' \in BookType
    BY <1>33, NumberFacts DEF DemoteCommit, FlipUnchanged, TypeOK, BookType
  <2>3. sync' \in SyncType
    BY <1>33 DEF DemoteCommit, FlipUnchanged, TypeOK, SyncType
  <2>4. flip' \in FlipType
    BY <1>33 DEF DemoteCommit, FlipUnchanged, TypeOK, FlipType
  <2> QED BY <1>33, <2>1, <2>2, <2>3, <2>4 DEF DemoteCommit, FlipUnchanged, TypeOK
<1>34. CASE DemoteEnd
  <2>1. task' \in TaskType
    BY <1>34 DEF DemoteEnd, FlipUnchanged, TypeOK, Cancel, TaskType
  <2>2. flip' \in FlipType
    BY <1>34 DEF DemoteEnd, FlipUnchanged, TypeOK, FlipType
  <2> QED BY <1>34, <2>1, <2>2 DEF DemoteEnd, FlipUnchanged, TypeOK
<1>35. CASE DemoteResume
  <2>1. sync' \in SyncType
    BY <1>35, LifeTyped DEF DemoteResume, TypeOK
  <2>2. loop' \in LoopType
    BY <1>35, LifeTyped DEF DemoteResume, TypeOK
  <2>3. flip' \in FlipType
    BY <1>35, RecordsTyped DEF DemoteResume, TypeOK
  <2> QED BY <1>35, <2>1, <2>2, <2>3 DEF DemoteResume, TypeOK
<1>36. CASE FlipFails
  <2>1. sync' \in SyncType
    BY <1>36 DEF FlipFails, FlipUnchanged, TypeOK, SyncType
  <2>2. task' \in TaskType
    BY <1>36 DEF FlipFails, FlipUnchanged, TypeOK, TaskType, FlipType
  <2>3. flip' \in FlipType
    BY <1>36, RecordsTyped DEF FlipFails, FlipUnchanged, TypeOK
  <2>4. used' \in UsedType
    BY <1>36, FaultTyped DEF FlipFails, FlipUnchanged, TypeOK
  <2> QED BY <1>36, <2>1, <2>2, <2>3, <2>4 DEF FlipFails, FlipUnchanged, TypeOK
<1>37. CASE Publish
  <2>1. master' \in 1..Snapshots
    BY <1>37, SyncAssumption DEF Publish, TypeOK
  <2> QED BY <1>37, <2>1 DEF Publish, TypeOK
<1>38. CASE Edit
  <2>1. data' \in DataType
    BY <1>38, NumberFacts DEF Edit, TypeOK, DataType
  <2>2. running' \in Content
    BY <1>38, NumberFacts DEF Edit, TypeOK
  <2> QED BY <1>38, <2>1, <2>2 DEF Edit, TypeOK
<1>39. CASE Damage
  <2>1. data' \in DataType
    BY <1>39, NumberFacts DEF Damage, TypeOK, DataType
  <2>2. used' \in UsedType
    BY <1>39, FaultTyped DEF Damage, TypeOK
  <2>3. past' \in PastType
    BY <1>39 DEF Damage, TypeOK, PastType
  <2> QED BY <1>39, <2>1, <2>2, <2>3 DEF Damage, TypeOK
<1>40. CASE Restart
  <2>1. row' \in RowType
    BY <1>40, PersistTyped DEF Restart, TypeOK, Errors, Markers
  <2>2. running' \in Content
    BY <1>40 DEF Restart, TypeOK, DataType
  <2>3. sync' \in SyncType
    BY <1>40, RecordsTyped DEF Restart, TypeOK
  <2>4. loop' \in LoopType
    BY <1>40, RecordsTyped DEF Restart, TypeOK
  <2>5. pull' \in [Pullers -> PullType]
    BY <1>40, RecordsTyped DEF Restart, TypeOK
  <2>6. flip' \in FlipType
    BY <1>40, RecordsTyped DEF Restart, TypeOK
  <2>7. task' \in TaskType
    BY <1>40 DEF Restart, TypeOK, TaskType, FlipType, RowType
  <2>8. used' \in UsedType
    BY <1>40, FaultTyped DEF Restart, TypeOK
  <2>9. past' \in PastType
    BY <1>40 DEF Restart, TypeOK, PastType
  <2> QED
    BY <1>40, <2>1, <2>2, <2>3, <2>4, <2>5, <2>6, <2>7, <2>8, <2>9 DEF Restart, TypeOK
<1>41. CASE UNCHANGED vars BY <1>41 DEF vars, TypeOK
<1> QED
  BY <1>1, <1>2, <1>3, <1>4, <1>5, <1>6, <1>7, <1>8, <1>9, <1>10, <1>11, <1>12, <1>13,
     <1>14, <1>15, <1>16, <1>17, <1>18, <1>19, <1>20, <1>21, <1>23, <1>24, <1>25,
     <1>26, <1>27, <1>28, <1>29, <1>30, <1>31, <1>32, <1>33, <1>34, <1>35, <1>36, <1>37,
     <1>38, <1>39, <1>40, <1>41
  DEF Next, PullStep, LoopStep, TaskStep, FlipStep

LEMMA UsedGrows == TypeOK /\ [Next]_vars => used' \in {used, used + 1}
<1>1. ASSUME NEW p \in Pullers, NEW k, FaultOf(p, k) \/ Fault(k) \/ Event
      PROVE  used' \in {used, used + 1}
  BY <1>1 DEF FaultOf, Fault, Event
<1>2. ASSUME NEW p \in Pullers, PullStep(p) PROVE used' \in {used, used + 1}
  BY <1>1, <1>2
  DEF PullStep, PullRead, PullFails, PullSnapshot, PullRepull, PullUnchanged, PullCheck,
      PullApply, PullTx, PullCommit, PullBranding, PullHashes, PullFiles, PullLoad,
      PullNote, PullWrite
<1>3. CASE PullManual \/ PullResume \/ LoopStep
  BY <1>1, <1>3
  DEF PullManual, PullResume, LoopStep, LoopEnds, LoopLoad, LoopPolled, LoopReport,
      LoopWrite, Pullers
<1>4. CASE Switch \/ TaskStep
  BY <1>1, <1>4 DEF Switch, TaskStep, TaskStart, TaskStop, TaskStopped, Pullers
<1>5. CASE PromoteBegin \/ DemoteBegin \/ FlipStep \/ FlipFails
  BY <1>1, <1>5
  DEF PromoteBegin, DemoteBegin, Drain, FlipStep, FlipDrained, PromoteCommit, PromoteEnd,
      DemoteCommit, DemoteEnd, DemoteResume, FlipFails, Pullers
<1>6. CASE Publish \/ Edit \/ Damage \/ Restart
  BY <1>1, <1>6 DEF Publish, Edit, Damage, Restart, Pullers
<1>7. CASE UNCHANGED vars BY <1>7 DEF vars
<1> QED BY <1>2, <1>3, <1>4, <1>5, <1>6, <1>7 DEF Next

\* Only Promote and BecomeSlave move the flip, and the latter alone the number.
LEMMA FlipMoves ==
    ASSUME TypeOK, [Next]_vars
    PROVE  /\ row'.reg = row.reg \/ DemoteCommit
           /\ \/ flip' = flip \/ flip'.pc \in {"idle", "end", "resume"}
              \/ PromoteBegin \/ DemoteBegin \/ FlipDrained
<1>1. ASSUME NEW p \in Pullers, PullStep(p) PROVE row'.reg = row.reg /\ flip' = flip
  <2>1. flip' = flip
    BY <1>1
    DEF PullStep, PullRead, PullFails, PullSnapshot, PullRepull, PullUnchanged, PullCheck,
        PullApply, PullTx, PullCommit, PullBranding, PullHashes, PullFiles, PullLoad,
        PullNote, PullWrite
  <2>2. \/ UNCHANGED row \/ PullCommit(p) \/ PullBranding(p) \/ PullLoad(p)
        \/ PullWrite(p)
    BY <1>1
    DEF PullStep, PullRead, PullFails, PullSnapshot, PullRepull, PullUnchanged, PullCheck,
        PullApply, PullTx, PullHashes, PullFiles, PullNote
  <2>3. \A e : Committed(p, e) => row'.reg = row.reg BY DEF Committed, TypeOK, RowType
  <2>4. pull[p].message \in Errors \cup {"skip"} BY DEF TypeOK, PullType
  <2> QED
    BY <2>1, <2>2, <2>3, <2>4, PersistTyped, RecordTyped
    DEF PullCommit, PullBranding, PullLoad, PullWrite, Errors, Markers
<1>2. CASE PullManual \/ PullResume \/ LoopStep
  <2>1. flip' = flip
    BY <1>2 DEF PullManual, PullResume, LoopStep, LoopEnds, LoopLoad, LoopPolled,
                LoopReport, LoopWrite, LoopUnchanged
  <2>2. UNCHANGED row \/ LoopPolled \/ LoopWrite
    BY <1>2 DEF PullManual, PullResume, LoopStep, LoopEnds, LoopLoad, LoopReport
  <2>3. LoopPolled => row'.reg = row.reg BY DEF LoopPolled, TypeOK, RowType
  <2>4. LoopWrite => row'.reg = row.reg
    BY RecordTyped DEF LoopWrite, TypeOK, LoopType
  <2> QED BY <2>1, <2>2, <2>3, <2>4
<1>3. CASE Switch \/ TaskStep
  BY <1>3 DEF Switch, TaskStep, TaskStart, TaskStop, TaskStopped, TaskUnchanged
<1>4. CASE FlipStep \/ FlipFails
  <2>1. CASE FlipDrained BY <2>1 DEF FlipDrained
  <2>2. CASE PromoteCommit
    BY <2>2 DEF PromoteCommit, Cleared, TypeOK, RowType, FlipType
  <2>3. CASE PromoteEnd \/ FlipFails BY <2>3 DEF PromoteEnd, FlipFails, NoFlip
  <2>4. CASE DemoteCommit BY <2>4 DEF DemoteCommit, TypeOK, FlipType
  <2>5. CASE DemoteEnd \/ DemoteResume
    BY <2>5 DEF DemoteEnd, DemoteResume, NoFlip, TypeOK, FlipType
  <2> QED BY <1>4, <2>1, <2>2, <2>3, <2>4, <2>5 DEF FlipStep
<1>5. CASE PromoteBegin \/ DemoteBegin BY <1>5 DEF PromoteBegin, DemoteBegin
<1>6. CASE Publish \/ Edit \/ Damage BY <1>6 DEF Publish, Edit, Damage
<1>7. CASE Restart
  BY <1>7, PersistTyped DEF Restart, NoFlip, Errors, Markers
<1>8. CASE UNCHANGED vars BY <1>8 DEF vars
<1> QED BY <1>1, <1>2, <1>3, <1>4, <1>5, <1>6, <1>7, <1>8 DEF Next

LEMMA RegNext == TypeOK /\ RegInv /\ [Next]_vars => RegInv'
<1> SUFFICES ASSUME TypeOK, RegInv, [Next]_vars PROVE RegInv'
  OBVIOUS
<1>1. used \in Nat /\ used' \in {used, used + 1} /\ row.reg \in Nat
  BY UsedGrows, SyncAssumption DEF TypeOK, UsedType, RowType, Regs
<1>2. CASE DemoteCommit
  <2>1. row'.reg = row.reg + 1 /\ flip'.pc = "end"
    BY <1>2 DEF DemoteCommit, Cleared, TypeOK, RowType, FlipType
  <2> QED BY <1>1, <1>2, <2>1 DEF RegInv, DemoteCommit
<1>3. CASE row'.reg = row.reg /\ (PromoteBegin \/ DemoteBegin)
  <2>1. used' = used + 1 BY <1>3 DEF PromoteBegin, DemoteBegin, Drain, Event
  <2> QED BY <1>1, <1>3, <2>1 DEF RegInv
<1>4. CASE row'.reg = row.reg /\ FlipDrained
  <2>1. flip.pc = "drain" /\ flip'.kind = flip.kind
    BY <1>4 DEF FlipDrained, TypeOK, FlipType
  <2> QED BY <1>1, <1>4, <2>1 DEF RegInv
<1>5. CASE row'.reg = row.reg /\ (flip' = flip \/ flip'.pc \in {"idle", "end", "resume"})
  BY <1>1, <1>5 DEF RegInv
<1> QED BY <1>2, <1>3, <1>4, <1>5, FlipMoves

\* Every variable keeps its type; registration numbers do not run out because
\* each change of master is an operation of the administrator (BecomeSlave).
THEOREM SyncTypeCorrect == Spec => []TypeOK
<1>1. TypeOK /\ RegInv /\ [Next]_vars => (TypeOK /\ RegInv)'
  BY TypeNext, RegNext
<1> QED BY <1>1, InitTyped, PTL DEF Spec

-----------------------------------------------------------------------------
(* Admission.                                                              *)

\* A flip that has not committed yet.
Draining == flip.pc \in {"drain", "commit"}

\* The admission is closed only on behalf of somebody who opens it again: a
\* flip before its end, or a Stop, which has cancelled the loop.
AdmissionInv ==
    /\ sync.stopped => \/ Draining
                       \/ flip.pc = "end" /\ flip.kind = "promote"
                       \/ loop.pc = "off" \/ loop.cancelled
    /\ pull["loop"].pc # "idle" => loop.pc = "pull"

LEMMA AdmissionNext == TypeOK /\ AdmissionInv /\ [Next]_vars => AdmissionInv'
<1> SUFFICES ASSUME TypeOK, AdmissionInv, [Next]_vars PROVE AdmissionInv'
  OBVIOUS
<1>1. ASSUME NEW p \in Pullers, PullRead(p) PROVE AdmissionInv'
  BY <1>1
  DEF PullRead, AdmissionInv, Draining, TypeOK, SyncType, LoopType, FlipType, Return,
      Pullers, PullType
<1>2. ASSUME NEW p \in Pullers, PullFails(p) PROVE AdmissionInv'
  BY <1>2
  DEF PullFails, AdmissionInv, Draining, TypeOK, SyncType, LoopType, FlipType, Return,
      Pullers, PullType
<1>3. ASSUME NEW p \in Pullers, PullSnapshot(p) PROVE AdmissionInv'
  BY <1>3
  DEF PullSnapshot, AdmissionInv, Draining, TypeOK, SyncType, LoopType, FlipType, Pullers,
      PullType
<1>4. ASSUME NEW p \in Pullers, PullRepull(p) PROVE AdmissionInv'
  BY <1>4
  DEF PullRepull, AdmissionInv, Draining, TypeOK, SyncType, LoopType, FlipType, Goto,
      Pullers, PullType, NotModified
<1>5. ASSUME NEW p \in Pullers, PullUnchanged(p) PROVE AdmissionInv'
  BY <1>5
  DEF PullUnchanged, AdmissionInv, Draining, TypeOK, SyncType, LoopType, FlipType, Goto,
      Return, Pullers, PullType, NotModified
<1>6. ASSUME NEW p \in Pullers, PullCheck(p) PROVE AdmissionInv'
  BY <1>6
  DEF PullCheck, AdmissionInv, Draining, TypeOK, SyncType, LoopType, FlipType, Goto, Return,
      Pullers, PullType
<1>7. ASSUME NEW p \in Pullers, PullApply(p) PROVE AdmissionInv'
  BY <1>7
  DEF PullApply, AdmissionInv, Draining, TypeOK, SyncType, LoopType, FlipType, Return,
      Pullers, PullType
<1>8. ASSUME NEW p \in Pullers, PullTx(p) PROVE AdmissionInv'
  BY <1>8
  DEF PullTx, AdmissionInv, Draining, TypeOK, SyncType, LoopType, FlipType, Return, Pullers,
      PullType
<1>9. ASSUME NEW p \in Pullers, PullCommit(p) PROVE AdmissionInv'
  BY <1>9
  DEF PullCommit, AdmissionInv, Draining, TypeOK, SyncType, LoopType, FlipType, Goto,
      Return, Pullers, PullType
<1>10. ASSUME NEW p \in Pullers, PullBranding(p) PROVE AdmissionInv'
  BY <1>10
  DEF PullBranding, AdmissionInv, Draining, TypeOK, SyncType, LoopType, FlipType, Goto,
      Pullers, PullType
<1>11. ASSUME NEW p \in Pullers, PullHashes(p) PROVE AdmissionInv'
  BY <1>11
  DEF PullHashes, AdmissionInv, Draining, TypeOK, SyncType, LoopType, FlipType, Goto,
      Pullers, PullType
<1>12. ASSUME NEW p \in Pullers, PullFiles(p) PROVE AdmissionInv'
  BY <1>12
  DEF PullFiles, AdmissionInv, Draining, TypeOK, SyncType, LoopType, FlipType, Goto,
      Pullers, PullType
<1>13. ASSUME NEW p \in Pullers, PullLoad(p) PROVE AdmissionInv'
  BY <1>13
  DEF PullLoad, AdmissionInv, Draining, TypeOK, SyncType, LoopType, FlipType, Return,
      Pullers, PullType
<1>14. ASSUME NEW p \in Pullers, PullNote(p) PROVE AdmissionInv'
  BY <1>14
  DEF PullNote, AdmissionInv, Draining, TypeOK, SyncType, LoopType, FlipType, Pullers,
      PullType
<1>15. ASSUME NEW p \in Pullers, PullWrite(p) PROVE AdmissionInv'
  BY <1>15
  DEF PullWrite, AdmissionInv, Draining, TypeOK, SyncType, LoopType, FlipType, FinishRun,
      NoLoop, Pullers, PullType, NoPull
<1>16. CASE PullManual
  BY <1>16
  DEF PullManual, AdmissionInv, Draining, TypeOK, SyncType, LoopType, FlipType, Admit,
      Pullers, PullType
<1>17. CASE PullResume
  BY <1>17
  DEF PullResume, AdmissionInv, Draining, TypeOK, SyncType, LoopType, FlipType, Resume,
      StartLocked, NoLoop, Goto, Pullers, PullType
<1>18. CASE LoopEnds
  BY <1>18
  DEF LoopEnds, LoopUnchanged, AdmissionInv, Draining, TypeOK, SyncType, LoopType, FlipType,
      FinishRun, NoLoop
<1>19. CASE LoopLoad
  BY <1>19
  DEF LoopLoad, LoopUnchanged, AdmissionInv, Draining, TypeOK, SyncType, LoopType, FlipType,
      Goto, Pullers, PullType
<1>20. CASE LoopPolled
  BY <1>20
  DEF LoopPolled, LoopUnchanged, AdmissionInv, Draining, TypeOK, SyncType, LoopType,
      FlipType
<1>21. CASE LoopReport
  BY <1>21
  DEF LoopReport, LoopNote, LoopUnchanged, AdmissionInv, Draining, TypeOK, SyncType, LoopType,
      FlipType
<1>23. CASE LoopWrite
  BY <1>23
  DEF LoopWrite, LoopUnchanged, AdmissionInv, Draining, TypeOK, SyncType, LoopType, FlipType
<1>24. CASE Switch
  BY <1>24
  DEF Switch, TaskUnchanged, AdmissionInv, Draining, TypeOK, SyncType, LoopType, FlipType
<1>25. CASE TaskStart
  BY <1>25
  DEF TaskStart, TaskUnchanged, AdmissionInv, Draining, TypeOK, SyncType, LoopType,
      FlipType, Start, StartLocked, NoLoop
<1>26. CASE TaskStop
  BY <1>26
  DEF TaskStop, TaskUnchanged, AdmissionInv, Draining, TypeOK, SyncType, LoopType, FlipType
<1>27. CASE TaskStopped
  BY <1>27
  DEF TaskStopped, TaskUnchanged, AdmissionInv, Draining, TypeOK, SyncType, LoopType,
      FlipType
<1>28. CASE PromoteBegin
  BY <1>28
  DEF PromoteBegin, FlipUnchanged, AdmissionInv, Draining, TypeOK, SyncType, LoopType,
      FlipType, Drain
<1>29. CASE DemoteBegin
  BY <1>29
  DEF DemoteBegin, FlipUnchanged, AdmissionInv, Draining, TypeOK, SyncType, LoopType,
      FlipType, Drain
<1>30. CASE FlipDrained
  BY <1>30
  DEF FlipDrained, FlipUnchanged, AdmissionInv, Draining, TypeOK, SyncType, LoopType,
      FlipType
<1>31. CASE PromoteCommit
  BY <1>31
  DEF PromoteCommit, FlipUnchanged, AdmissionInv, Draining, TypeOK, SyncType, LoopType,
      FlipType
<1>32. CASE PromoteEnd
  BY <1>32
  DEF PromoteEnd, FlipUnchanged, AdmissionInv, Draining, TypeOK, SyncType, LoopType,
      FlipType
<1>33. CASE DemoteCommit
  BY <1>33
  DEF DemoteCommit, FlipUnchanged, AdmissionInv, Draining, TypeOK, SyncType, LoopType,
      FlipType
<1>34. CASE DemoteEnd
  BY <1>34
  DEF DemoteEnd, FlipUnchanged, AdmissionInv, Draining, TypeOK, SyncType, LoopType, FlipType
<1>35. CASE DemoteResume
  BY <1>35
  DEF DemoteResume, AdmissionInv, Draining, TypeOK, SyncType, LoopType, FlipType, Resume,
      StartLocked, NoLoop, NoFlip
<1>36. CASE FlipFails
  BY <1>36
  DEF FlipFails, FlipUnchanged, AdmissionInv, Draining, TypeOK, SyncType, LoopType,
      FlipType, NoFlip
<1>37. CASE Publish
  BY <1>37 DEF Publish, AdmissionInv, Draining, TypeOK, SyncType, LoopType, FlipType
<1>38. CASE Edit
  BY <1>38 DEF Edit, AdmissionInv, Draining, TypeOK, SyncType, LoopType, FlipType
<1>39. CASE Damage
  BY <1>39 DEF Damage, AdmissionInv, Draining, TypeOK, SyncType, LoopType, FlipType
<1>40. CASE Restart
  BY <1>40
  DEF Restart, AdmissionInv, Draining, TypeOK, SyncType, LoopType, FlipType, NoLoop, NoPull,
      Pullers
<1>41. CASE UNCHANGED vars BY <1>41 DEF vars, AdmissionInv, Draining
<1> QED
  BY <1>1, <1>2, <1>3, <1>4, <1>5, <1>6, <1>7, <1>8, <1>9, <1>10, <1>11, <1>12, <1>13,
     <1>14, <1>15, <1>16, <1>17, <1>18, <1>19, <1>20, <1>21, <1>23, <1>24, <1>25,
     <1>26, <1>27, <1>28, <1>29, <1>30, <1>31, <1>32, <1>33, <1>34, <1>35, <1>36, <1>37,
     <1>38, <1>39, <1>40, <1>41
  DEF Next, PullStep, LoopStep, TaskStep, FlipStep

\* However flips, stops, restarts and pulls interleave, a loop that nobody is
\* stopping finds the admission open (reopenPullAdmission on every path of
\* Promote and BecomeSlave, startLocked).
THEOREM LoopsAreAdmitted == Spec => []AdmissionOpen
<1>1. Init => AdmissionInv BY DEF Init, AdmissionInv, Pullers, NoPull
<1>2. TypeOK /\ AdmissionInv /\ [Next]_vars => AdmissionInv' BY AdmissionNext
<1>3. AdmissionInv => AdmissionOpen BY DEF AdmissionInv, AdmissionOpen, Draining
<1> QED BY <1>1, <1>2, <1>3, SyncTypeCorrect, PTL DEF Spec

-----------------------------------------------------------------------------
(* What the steps of a pull change.                                        *)

LEMMA PersistFrame ==
    ASSUME TypeOK, NEW m \in Errors, PersistSyncError(m)
    PROVE  /\ row'.role = row.role /\ row'.reg = row.reg /\ row'.token = row.token
           /\ row'.applied = row.applied
           /\ Slave => row'.error = m
           /\ ~Slave => row' = row
BY PersistTyped DEF TypeOK, PersistSyncError, RowType

LEMMA ReadFrame ==
    ASSUME TypeOK, NEW p \in Pullers, PullRead(p)
    PROVE  /\ pull[p].pc = "lock" /\ Others(p) /\ \A q \in Pullers : ~Holding(q)
           /\ UNCHANGED <<master, row, data, book, running, loop, flip, past>>
           /\ \/ pull'[p].pc = "note"
              \/ /\ pull'[p].pc = "sent" /\ Slave /\ row.token # 0
                 /\ pull'[p].reg = row.reg /\ pull'[p].token = row.token
                 /\ pull'[p].behind = pull[p].behind
<1>1. ASSUME pull' = [pull EXCEPT ![p].pc = "sent", ![p].reg = row.reg,
                                  ![p].token = row.token, ![p].since = row.applied]
      PROVE  /\ Others(p) /\ pull'[p].pc = "sent"
             /\ pull'[p].reg = row.reg /\ pull'[p].token = row.token
             /\ pull'[p].behind = pull[p].behind
  BY <1>1 DEF Others, TypeOK, PullType
<1>2. \A r : Return(p, r) => pull'[p].pc = "note" /\ Others(p) BY Moves
<1> QED BY <1>1, <1>2 DEF PullRead

LEMMA WaitFrame ==
    ASSUME TypeOK, NEW p \in Pullers,
           \/ PullFails(p) \/ PullSnapshot(p) \/ PullRepull(p) \/ PullUnchanged(p)
           \/ PullCheck(p)
    PROVE  /\ pull[p].pc \in {"sent", "full", "check"} /\ Others(p)
           /\ UNCHANGED <<master, row, data, book, running, loop, flip, past>>
           /\ \/ pull'[p].pc = "note"
              \/ /\ pull[p].pc \in {"sent", "full"} /\ pull'[p].pc = "check"
                 /\ Kept(p) /\ pull[p].token = pull[p].reg /\ pull'[p].snap = master
              \/ /\ pull[p].pc = "sent" /\ pull'[p].pc = "full"
                 /\ Kept(p) /\ pull[p].token = pull[p].reg
              \/ /\ pull[p].pc = "check" /\ pull'[p].pc = "apply"
                 /\ Same(p)
<1>1. \A r : Return(p, r) => pull'[p].pc = "note" /\ Others(p) BY Moves
<1>2. \A pc : Goto(p, pc) => pull'[p].pc = pc /\ Others(p) /\ Same(p) /\ Kept(p)
  BY Moves DEF Same
<1>3. ASSUME pull' = [pull EXCEPT ![p].pc = "check", ![p].snap = master]
      PROVE  /\ Others(p) /\ pull'[p].pc = "check" /\ Kept(p) /\ pull'[p].snap = master
  BY <1>3 DEF Others, Kept, TypeOK, PullType
<1>4. ASSUME pull' = [pull EXCEPT ![p].pc = "full", ![p].why = {"tried"}]
      PROVE  Others(p) /\ pull'[p].pc = "full" /\ Kept(p)
  BY <1>4 DEF Others, Kept, TypeOK, PullType
<1>5. CASE PullFails(p) BY <1>1, <1>5 DEF PullFails
<1>6. CASE PullSnapshot(p) BY <1>3, <1>6 DEF PullSnapshot
<1>7. CASE PullRepull(p) BY <1>2, <1>7 DEF PullRepull, NotModified
<1>8. CASE PullUnchanged(p) BY <1>1, <1>4, <1>8 DEF PullUnchanged, NotModified
<1>9. CASE PullCheck(p) BY <1>1, <1>2, <1>9 DEF PullCheck
<1> QED BY <1>5, <1>6, <1>7, <1>8, <1>9

LEMMA ApplyFrame ==
    ASSUME TypeOK, NEW p \in Pullers, PullApply(p)
    PROVE  /\ pull[p].pc = "apply" /\ Others(p)
           /\ UNCHANGED <<master, row, data, book, running, loop, flip, past>>
           /\ \/ pull'[p].pc = "note"
              \/ /\ pull'[p].pc = "tx" /\ Same(p)
                 /\ {row.error} \cap Markers \subseteq pull'[p].why
                 /\ \/ "changed" \in pull'[p].why
                    \/ book.sections = Rows(p) /\ data.content = Rows(p)
<1>1. Return(p, "quiet") => pull'[p].pc = "note" /\ Others(p) BY Moves
<1>2. ASSUME NEW why,
             pull' = [pull EXCEPT ![p].pc = "tx", ![p].local = data.content,
                                  ![p].why = pull[p].why \cup why]
      PROVE  Others(p) /\ pull'[p].pc = "tx" /\ Same(p) /\ why \subseteq pull'[p].why
  BY <1>2 DEF Others, Same, Kept, TypeOK, PullType
<1>3. CASE sync.stopped /\ Return(p, "quiet") BY <1>1, <1>3 DEF PullApply
<1>4. CASE ~sync.stopped
  <2> DEFINE same == book.sections = Rows(p)
             why  == {r \in {"changed"} : ~(same /\ data.content = Rows(p))}
                     \cup {r \in {"drifted"} : same /\ data.content # Rows(p)}
                     \cup ({row.error} \cap Markers)
  <2>1. pull' = [pull EXCEPT ![p].pc = "tx", ![p].local = data.content,
                             ![p].why = pull[p].why \cup why]
    BY <1>4 DEF PullApply
  <2>2. Others(p) /\ pull'[p].pc = "tx" /\ Same(p) /\ why \subseteq pull'[p].why
    BY <1>2, <2>1
  <2>3. {row.error} \cap Markers \subseteq pull'[p].why BY <2>2
  <2>4. "changed" \in pull'[p].why \/ (same /\ data.content = Rows(p)) BY <2>2
  <2> QED BY <2>2, <2>3, <2>4 DEF PullApply
<1> QED BY <1>3, <1>4 DEF PullApply

LEMMA TxFrame ==
    ASSUME TypeOK, NEW p \in Pullers, PullTx(p)
    PROVE  /\ pull[p].pc = "tx" /\ Others(p)
           /\ UNCHANGED <<master, row, data, book, running, loop, flip, past>>
           /\ \/ pull'[p].pc = "note"
              \/ /\ pull'[p].pc = "commit" /\ SameTopology(p) /\ Same(p)
                 /\ pull[p].why \subseteq pull'[p].why
<1>1. Return(p, "kept") => pull'[p].pc = "note" /\ Others(p) BY Moves
<1>2. ASSUME NEW why,
             pull' = [pull EXCEPT ![p].pc = "commit", ![p].why = pull[p].why \cup why]
      PROVE  /\ Others(p) /\ pull'[p].pc = "commit" /\ Same(p)
             /\ pull[p].why \subseteq pull'[p].why
  BY <1>2 DEF Others, Same, Kept, TypeOK, PullType
<1> QED BY <1>1, <1>2 DEF PullTx

LEMMA CommitFrame ==
    ASSUME TypeOK, NEW p \in Pullers, PullCommit(p), Slave
    PROVE  /\ pull[p].pc = "commit" /\ Others(p)
           /\ UNCHANGED <<master, book, running, loop, flip>>
           /\ row'.role = row.role /\ row'.reg = row.reg /\ row'.token = row.token
           /\ past'.erased = past.erased /\ past'.unbooked = past.unbooked
           /\ \/ /\ pull'[p].pc = "branding" /\ Same(p) /\ pull'[p].why = pull[p].why
                 /\ row'.applied = pull[p].snap /\ ~past'.unseen
                 /\ data'.content = Rows(p) /\ data'.from = pull[p].reg
              \/ pull'[p].pc = "note" /\ UNCHANGED <<row, data, past>>
              \/ /\ pull'[p].pc = "note" /\ row'.error = "uncertain" /\ ~past'.unseen
                 /\ row'.applied = pull[p].snap /\ data'.from = pull[p].reg
              \/ /\ pull'[p].pc = "note" /\ row'.error = "uncertain"
                 /\ row'.applied = row.applied /\ UNCHANGED <<data, past>>
<1>1. /\ Goto(p, "branding") => /\ pull'[p].pc = "branding" /\ Others(p) /\ Same(p)
                                /\ pull'[p].why = pull[p].why
      /\ Return(p, "kept") => pull'[p].pc = "note" /\ Others(p)
  BY Moves
<1>2. \A e \in {"none", "uncertain"} : Committed(p, e) =>
         /\ row'.applied = pull[p].snap /\ row'.error = e /\ row'.role = row.role
         /\ row'.reg = row.reg /\ row'.token = row.token
         /\ data'.content = Rows(p) /\ data'.from = pull[p].reg
         /\ past'.erased = past.erased /\ past'.unbooked = past.unbooked
         /\ ~past'.unseen
  BY DEF Committed, TypeOK, RowType, PastType
<1>3. PersistSyncError("uncertain") =>
         /\ row'.applied = row.applied /\ row'.error = "uncertain" /\ row'.role = row.role
         /\ row'.reg = row.reg /\ row'.token = row.token
  BY PersistFrame DEF Errors, Markers
<1> QED BY <1>1, <1>2, <1>3 DEF PullCommit

LEMMA BrandingFrame ==
    ASSUME TypeOK, NEW p \in Pullers, PullBranding(p)
    PROVE  /\ pull[p].pc = "branding" /\ pull'[p].pc = "hashes" /\ Others(p) /\ Same(p)
           /\ pull[p].why \subseteq pull'[p].why
           /\ UNCHANGED <<master, data, book, running, loop, flip, past>>
           /\ row'.role = row.role /\ row'.reg = row.reg /\ row'.token = row.token
           /\ row'.applied = row.applied
<1>1. Goto(p, "hashes") => /\ pull'[p].pc = "hashes" /\ Others(p) /\ Same(p)
                           /\ pull'[p].why = pull[p].why
  BY Moves
<1>2. ASSUME NEW why,
             pull' = [pull EXCEPT ![p].pc = "hashes", ![p].why = pull[p].why \cup why]
      PROVE  /\ Others(p) /\ pull'[p].pc = "hashes" /\ Same(p)
             /\ pull[p].why \subseteq pull'[p].why
  BY <1>2 DEF Others, Same, Kept, TypeOK, PullType
<1>3. PersistSyncError("branding") =>
         /\ row'.role = row.role /\ row'.reg = row.reg /\ row'.token = row.token
         /\ row'.applied = row.applied
  BY PersistFrame DEF Errors, Markers
<1> QED BY <1>1, <1>2, <1>3 DEF PullBranding

LEMMA HashesFrame ==
    ASSUME TypeOK, NEW p \in Pullers, PullHashes(p)
    PROVE  /\ pull[p].pc = "hashes" /\ pull'[p].pc = "files" /\ Others(p) /\ Same(p)
           /\ pull[p].why \subseteq pull'[p].why
           /\ UNCHANGED <<master, row, data, running, loop, flip>>
           /\ past'.erased = past.erased /\ past'.unseen = past.unseen
           /\ past'.unbooked \/ book'.files = pull[p].snap
<1>1. Goto(p, "files") => /\ pull'[p].pc = "files" /\ Others(p) /\ Same(p)
                          /\ pull'[p].why = pull[p].why
  BY Moves
<1>2. ASSUME pull' = [pull EXCEPT ![p].pc = "files",
                                  ![p].why = pull[p].why \cup {"unbooked"}]
      PROVE  /\ Others(p) /\ pull'[p].pc = "files" /\ Same(p)
             /\ pull[p].why \subseteq pull'[p].why
  BY <1>2 DEF Others, Same, Kept, TypeOK, PullType
<1>3. \A b \in BOOLEAN : past' = [past EXCEPT !.unbooked = b] =>
         past'.erased = past.erased /\ past'.unseen = past.unseen /\ past'.unbooked = b
  BY DEF TypeOK, PastType
<1>4. CASE past' = [past EXCEPT !.unbooked = FALSE]
  <2>1. past' # [past EXCEPT !.unbooked = TRUE] BY <1>3, <1>4
  <2>2. /\ Goto(p, "files")
        /\ \E s : book' = [sections |-> s, files |-> pull[p].snap]
    BY <2>1 DEF PullHashes
  <2>3. book'.files = pull[p].snap BY <2>2
  <2> QED BY <1>1, <1>3, <1>4, <2>2, <2>3 DEF PullHashes
<1>5. CASE past' = [past EXCEPT !.unbooked = TRUE]
  BY <1>1, <1>2, <1>3, <1>5 DEF PullHashes
<1> QED BY <1>4, <1>5 DEF PullHashes

LEMMA FilesFrame ==
    ASSUME TypeOK, NEW p \in Pullers, PullFiles(p)
    PROVE  /\ pull[p].pc = "files" /\ pull'[p].pc = "load" /\ Others(p) /\ Same(p)
           /\ pull[p].why \subseteq pull'[p].why
           /\ UNCHANGED <<master, row, data, book, running, loop, flip, past>>
<1>1. Goto(p, "load") => /\ pull'[p].pc = "load" /\ Others(p) /\ Same(p)
                         /\ pull'[p].why = pull[p].why
  BY Moves
<1>2. ASSUME pull' = [pull EXCEPT ![p].pc = "load", ![p].why = pull[p].why \cup {"files"}]
      PROVE  /\ Others(p) /\ pull'[p].pc = "load" /\ Same(p)
             /\ pull[p].why \subseteq pull'[p].why
  BY <1>2 DEF Others, Same, Kept, TypeOK, PullType
<1> QED BY <1>1, <1>2 DEF PullFiles

LEMMA LoadFrame ==
    ASSUME TypeOK, NEW p \in Pullers, PullLoad(p)
    PROVE  /\ pull[p].pc = "load" /\ pull'[p].pc = "note" /\ Others(p)
           /\ UNCHANGED <<master, data, book, loop, flip>>
           /\ row'.role = row.role /\ row'.reg = row.reg /\ row'.token = row.token
           /\ row'.applied = row.applied
           /\ past'.unbooked = past.unbooked /\ past'.unseen = past.unseen
           /\ past'.erased = (past.erased /\ ~MustReload(p))
           /\ \/ running' = data.content
              \/ ~MustReload(p) /\ UNCHANGED <<row, running>>
              \/ Slave /\ row'.error = "reload"
              \/ ~Slave
<1>1. Return(p, "ok") => pull'[p].pc = "note" /\ Others(p) BY Moves
<1>2. PersistSyncError("reload") =>
         /\ row'.role = row.role /\ row'.reg = row.reg /\ row'.token = row.token
         /\ row'.applied = row.applied /\ (Slave => row'.error = "reload")
  BY PersistFrame DEF Errors, Markers
<1>3. /\ past'.unbooked = past.unbooked /\ past'.unseen = past.unseen
      /\ past'.erased = (past.erased /\ ~MustReload(p))
  BY DEF PullLoad, TypeOK, PastType
<1> QED BY <1>1, <1>2, <1>3 DEF PullLoad

LEMMA NoteFrame ==
    ASSUME TypeOK, NEW p \in Pullers, PullNote(p)
    PROVE  /\ pull[p].pc = "note" /\ pull'[p].pc = "write" /\ Others(p)
           /\ pull'[p].result = pull[p].result
           /\ \E t : pull'[p].message = Message(pull[p].result, t)
           /\ UNCHANGED <<master, row, data, book, running, loop, flip, past>>
BY DEF PullNote, Others, TypeOK, PullType

LEMMA RecordFrame ==
    ASSUME TypeOK, NEW m \in Errors \cup {"skip"}, NEW final, Record(m), Erases(final)
    PROVE  /\ row'.role = row.role /\ row'.reg = row.reg /\ row'.token = row.token
           /\ row'.applied = row.applied
           /\ row' = row \/ (Slave /\ m # "skip" /\ row'.error = m)
           /\ past'.unbooked = past.unbooked /\ past'.unseen = past.unseen
           /\ past.erased \/ (Slave /\ Marked /\ final) => past'.erased
<1>1. CASE m = "skip"
  BY <1>1 DEF Record, Erases, TypeOK, PastType
<1>2. CASE m # "skip"
  BY <1>2, PersistFrame DEF Record, Erases, TypeOK, PastType
<1> QED BY <1>1, <1>2

LEMMA WriteFrame ==
    ASSUME TypeOK, NEW p \in Pullers, PullWrite(p)
    PROVE  /\ pull[p].pc = "write" /\ pull'[p].pc \in {"idle", "resume"} /\ Others(p)
           /\ UNCHANGED <<master, data, book, running, flip>>
           /\ loop' = loop \/ loop'.pc \in {"off", "report", "load"}
           /\ row'.role = row.role /\ row'.reg = row.reg /\ row'.token = row.token
           /\ row'.applied = row.applied
           /\ row' = row \/ (/\ Slave /\ pull[p].message # "skip"
                             /\ row'.error = pull[p].message)
           /\ past'.unbooked = past.unbooked /\ past'.unseen = past.unseen
           /\ past.erased => past'.erased
           /\ Slave /\ Marked /\ pull[p].result \in {"lost", "halt"} => past'.erased
<1>1. Others(p) /\ pull'[p].pc \in {"idle", "resume"}
  BY DEF PullWrite, Others, NoPull, TypeOK, PullType
<1>2. pull[p].message \in Errors \cup {"skip"} BY DEF TypeOK, PullType
<1>3. loop' = loop \/ loop'.pc \in {"off", "report", "load"}
  BY DEF PullWrite, FinishRun, NoLoop, TypeOK, LoopType
<1> QED BY <1>1, <1>2, <1>3, RecordFrame DEF PullWrite

-----------------------------------------------------------------------------
(* Where the rows come from.                                               *)

\* An open transaction belongs to the registration of the row: it has checked
\* it, and nobody else writes the row before it ends.  So do the rows of a slave
\* that counts itself as synchronised.
OriginInv ==
    /\ \A p \in Pullers : pull[p].pc = "commit" => Slave /\ row.reg = pull[p].reg
    /\ AppliedFromCurrent

\* What a step leaves alone if it neither opens nor ends a transaction nor flips.
OriginFrame ==
    /\ row'.role = row.role /\ row'.reg = row.reg /\ row'.applied = row.applied
    /\ data'.from = data.from
    /\ \A p \in Pullers : pull'[p].pc = "commit" =>
           pull[p].pc = "commit" /\ pull'[p].reg = pull[p].reg

LEMMA OriginFramed ==
    ASSUME OriginInv, OriginFrame PROVE OriginInv'
BY DEF OriginInv, OriginFrame, AppliedFromCurrent, Slave

\* A pull moves on, to a step that is not the transaction.
LEMMA PullMoves ==
    ASSUME TypeOK, NEW p \in Pullers, pull'[p].pc # "commit",
           \A q \in Pullers \ {p} : pull'[q] = pull[q]
    PROVE  \A q \in Pullers : pull'[q].pc = "commit" =>
               pull[q].pc = "commit" /\ pull'[q].reg = pull[q].reg
OBVIOUS

LEMMA OriginNext == TypeOK /\ OriginInv /\ [Next]_vars => OriginInv'
<1> SUFFICES ASSUME TypeOK, OriginInv, [Next]_vars PROVE OriginInv'
  OBVIOUS
<1>1. ASSUME UNCHANGED <<row, data, pull>> PROVE OriginInv'
  BY <1>1, OriginFramed DEF OriginFrame
<1>2. ASSUME UNCHANGED <<row, data>>, NEW p \in Pullers, pull'[p].pc # "commit",
             \A q \in Pullers \ {p} : pull'[q] = pull[q]
      PROVE  OriginInv'
  BY <1>2, PullMoves, OriginFramed DEF OriginFrame
<1>3. ASSUME NEW m \in Errors, PersistSyncError(m), UNCHANGED data,
             NEW p \in Pullers, pull'[p].pc # "commit",
             \A q \in Pullers \ {p} : pull'[q] = pull[q]
      PROVE  OriginInv'
  <2>1. row'.role = row.role /\ row'.reg = row.reg /\ row'.applied = row.applied
    BY <1>3, PersistTyped
  <2> QED BY <1>3, <2>1, PullMoves, OriginFramed DEF OriginFrame
<1>4. ASSUME NEW p \in Pullers,
             \/ PullRead(p) \/ PullFails(p) \/ PullSnapshot(p) \/ PullRepull(p)
             \/ PullUnchanged(p) \/ PullCheck(p) \/ PullApply(p)
      PROVE  OriginInv'
  BY <1>2, <1>4, ReadFrame, WaitFrame, ApplyFrame DEF Others
<1>5. ASSUME NEW p \in Pullers, PullTx(p) PROVE OriginInv'
  BY <1>5, TxFrame DEF OriginInv, AppliedFromCurrent, SameTopology, Slave, Others, Same, Kept
<1>6. ASSUME NEW p \in Pullers, PullCommit(p) PROVE OriginInv'
  <2>1. Slave /\ row.reg = pull[p].reg BY <1>6 DEF PullCommit, OriginInv
  <2> QED
    BY <1>6, <2>1, CommitFrame DEF OriginInv, AppliedFromCurrent, Slave, Others
<1>7. ASSUME NEW p \in Pullers,
             \/ PullBranding(p) \/ PullHashes(p) \/ PullFiles(p) \/ PullLoad(p)
             \/ PullNote(p)
      PROVE  OriginInv'
  <2>1. /\ row'.role = row.role /\ row'.reg = row.reg /\ row'.applied = row.applied
        /\ UNCHANGED data /\ Others(p) /\ pull'[p].pc # "commit"
    BY <1>7, BrandingFrame, HashesFrame, FilesFrame, LoadFrame, NoteFrame
  <2> QED BY <2>1, OriginFramed DEF OriginFrame, Others
<1>8. ASSUME NEW p \in Pullers, PullWrite(p) PROVE OriginInv'
  <2>1. /\ pull'[p].pc \in {"idle", "resume"}
        /\ \A q \in Pullers \ {p} : pull'[q] = pull[q]
    BY <1>8 DEF PullWrite, TypeOK, NoPull
  <2>2. pull[p].message \in Errors \cup {"skip"} /\ UNCHANGED data
    BY <1>8 DEF PullWrite, TypeOK, PullType
  <2>3. UNCHANGED row \/ \E m \in Errors : PersistSyncError(m)
    BY <1>8, <2>2 DEF PullWrite, Record
  <2> QED BY <1>2, <1>3, <2>1, <2>2, <2>3
<1>9. CASE PullManual \/ PullResume
  <2>1. /\ pull'["manual"].pc \in {"lock", "idle"}
        /\ \A q \in Pullers \ {"manual"} : pull'[q] = pull[q]
        /\ UNCHANGED <<row, data>>
    BY <1>9 DEF PullManual, PullResume, Admit, Goto, TypeOK, PullType, Pullers
  <2> QED BY <1>2, <2>1 DEF Pullers
<1>10. CASE LoopEnds \/ LoopReport
  BY <1>1, <1>10 DEF LoopEnds, LoopReport, LoopNote, LoopUnchanged
<1>11. CASE LoopLoad
  <2>1. UNCHANGED <<row, data>>
    BY <1>11 DEF LoopLoad, LoopUnchanged
  <2>2. \/ UNCHANGED pull
        \/ /\ pull'["loop"].pc = "lock"
           /\ \A q \in Pullers \ {"loop"} : pull'[q] = pull[q]
    BY <1>11 DEF LoopLoad, Admit, TypeOK, PullType, Pullers
  <2> QED BY <1>1, <1>2, <2>1, <2>2 DEF Pullers
<1>12. CASE LoopPolled
  <2>1. /\ row'.role = row.role /\ row'.reg = row.reg /\ row'.applied = row.applied
        /\ UNCHANGED <<data, pull>>
    BY <1>12 DEF LoopPolled, LoopUnchanged, TypeOK, RowType
  <2> QED BY <2>1, OriginFramed DEF OriginFrame
<1>13. CASE LoopWrite
  <2>1. loop.message \in Errors \cup {"skip"} /\ UNCHANGED <<data, pull>>
    BY <1>13 DEF LoopWrite, LoopUnchanged, TypeOK, LoopType
  <2>2. row'.role = row.role /\ row'.reg = row.reg /\ row'.applied = row.applied
    BY <1>13, <2>1, PersistTyped DEF LoopWrite, Record
  <2> QED BY <2>1, <2>2, OriginFramed DEF OriginFrame
<1>14. CASE Switch \/ TaskStart \/ TaskStop \/ TaskStopped
  BY <1>1, <1>14 DEF Switch, TaskStart, TaskStop, TaskStopped, TaskUnchanged
<1>15. CASE \/ PromoteBegin \/ DemoteBegin \/ FlipDrained \/ PromoteEnd \/ DemoteEnd
            \/ DemoteResume \/ FlipFails
  BY <1>1, <1>15 DEF PromoteBegin, DemoteBegin, FlipDrained, PromoteEnd, DemoteEnd,
                     DemoteResume, FlipFails, FlipUnchanged
<1>16. CASE PromoteCommit \/ DemoteCommit
  <2>1. /\ \A p \in Pullers : pull[p].pc # "commit"
        /\ UNCHANGED <<data, pull>> /\ row'.applied = 0
    BY <1>16 DEF PromoteCommit, DemoteCommit, FlipUnchanged, TxOpen, Cleared, TypeOK,
                 RowType
  <2> QED BY <2>1 DEF OriginInv, AppliedFromCurrent
<1>17. CASE Publish
  BY <1>1, <1>17 DEF Publish
<1>18. CASE Edit
  <2>1. ~Slave /\ UNCHANGED <<row, pull>>
    BY <1>18 DEF Edit
  <2> QED BY <2>1 DEF OriginInv, AppliedFromCurrent, Slave
<1>19. CASE Damage
  <2>1. data'.from = data.from /\ UNCHANGED <<row, pull>>
    BY <1>19 DEF Damage, TypeOK, DataType
  <2> QED BY <2>1, OriginFramed DEF OriginFrame
<1>20. CASE Restart
  <2>1. (\A p \in Pullers : pull'[p].pc = "idle") /\ UNCHANGED data
    BY <1>20 DEF Restart, NoPull
  <2>2. row'.role = row.role /\ row'.reg = row.reg /\ row'.applied = row.applied
    BY <1>20, PersistTyped DEF Restart, Errors, Markers
  <2> QED BY <2>1, <2>2, OriginFramed DEF OriginFrame
<1>21. CASE UNCHANGED vars
  BY <1>1, <1>21 DEF vars
<1> QED
  BY <1>4, <1>5, <1>6, <1>7, <1>8, <1>9, <1>10, <1>11, <1>12, <1>13, <1>14, <1>15,
     <1>16, <1>17, <1>18, <1>19, <1>20, <1>21
  DEF Next, PullStep, LoopStep, TaskStep, FlipStep

\* The rows of a slave that counts itself as synchronised come from its present
\* registration, with every failure and every overlap the code leaves open: the
\* check inside applySnapshot's transaction is enough, whatever the drain of a
\* flip misses.
THEOREM AppliedIsCurrent == Spec => []AppliedFromCurrent
<1>1. Init => OriginInv
  BY DEF Init, OriginInv, AppliedFromCurrent, NoPull
<1>2. OriginInv => AppliedFromCurrent
  BY DEF OriginInv
<1> QED BY <1>1, <1>2, OriginNext, SyncTypeCorrect, PTL DEF Spec

-----------------------------------------------------------------------------
(* What the other steps change.                                            *)

\* The steps that leave the row, the rows and what was booked and loaded alone.
Quiet ==
    \/ PullResume \/ LoopEnds \/ Switch \/ TaskStep \/ PromoteBegin \/ DemoteBegin
    \/ FlipDrained \/ PromoteEnd \/ DemoteEnd \/ DemoteResume \/ FlipFails \/ Publish
    \/ UNCHANGED vars

LEMMA LifeFrame ==
    ASSUME TypeOK, Start \/ Resume
    PROVE  loop' = loop \/ (loop.pc = "off" /\ loop'.pc = "load")
BY DEF TypeOK, Start, Resume, StartLocked, NoLoop, LoopType

LEMMA QuietFrame ==
    ASSUME TypeOK, Quiet
    PROVE  /\ UNCHANGED <<row, data, book, running, past>>
           /\ \A p \in Pullers : pull'[p] = pull[p] \/ pull'[p].pc = "idle"
           /\ pull'["loop"] = pull["loop"]
           /\ master' \in {master, master + 1}
           /\ \/ loop' = loop
              \/ loop'.pc \in {"off", "load"} /\ loop.pc # "pull"
              \/ /\ loop'.pc = loop.pc /\ loop'.message = loop.message
                 /\ loop'.saw = loop.saw
           /\ flip'.pc = "commit" => flip.pc = "commit" \/ Drained
<1>1. CASE PullResume
  <2>1. pull'["manual"].pc = "idle" /\ Others("manual")
    BY <1>1, Moves DEF PullResume, Pullers
  <2> QED BY <1>1, <2>1, LifeFrame DEF PullResume, Others, Pullers
<1>2. CASE LoopEnds
  BY <1>2 DEF LoopEnds, LoopUnchanged, FinishRun, NoLoop
<1>3. CASE Switch
  BY <1>3 DEF Switch, TaskUnchanged
<1>4. CASE TaskStart
  BY <1>4, LifeFrame DEF TaskStart, TaskUnchanged
<1>5. CASE TaskStop
  <2>1. /\ loop'.pc = loop.pc /\ loop'.message = loop.message /\ loop'.saw = loop.saw
    BY <1>5 DEF TaskStop, TypeOK, LoopType
  <2> QED BY <1>5, <2>1 DEF TaskStop, TaskUnchanged
<1>6. CASE TaskStopped
  BY <1>6 DEF TaskStopped, TaskUnchanged
<1>7. CASE PromoteBegin \/ DemoteBegin
  <2>1. flip'.pc = "drain" BY <1>7 DEF PromoteBegin, DemoteBegin
  <2> QED BY <1>7, <2>1 DEF PromoteBegin, DemoteBegin, FlipUnchanged
<1>8. CASE FlipDrained
  BY <1>8 DEF FlipDrained, FlipUnchanged
<1>9. CASE PromoteEnd \/ FlipFails
  BY <1>9 DEF PromoteEnd, FlipFails, FlipUnchanged, NoFlip
<1>10. CASE DemoteEnd
  <2>1. flip'.pc = "resume" BY <1>10 DEF DemoteEnd, TypeOK, FlipType
  <2> QED BY <1>10, <2>1 DEF DemoteEnd, FlipUnchanged
<1>11. CASE DemoteResume
  BY <1>11, LifeFrame DEF DemoteResume, NoFlip
<1>12. CASE Publish \/ UNCHANGED vars
  BY <1>12 DEF Publish, vars
<1> QED
  BY <1>1, <1>2, <1>3, <1>4, <1>5, <1>6, <1>7, <1>8, <1>9, <1>10, <1>11, <1>12
  DEF Quiet, TaskStep

LEMMA QuietPulls ==
    ASSUME TypeOK, Quiet
    PROVE  \A p \in Pullers : pull'[p] = pull[p] \/ pull[p].pc = "resume"
<1>1. CASE PullResume
  BY <1>1, Moves DEF PullResume, Others, Pullers
<1>2. CASE Quiet /\ ~PullResume
  BY <1>2 DEF Quiet, TaskStep, LoopEnds, Switch, TaskStart, TaskStop, TaskStopped,
     TaskUnchanged, PromoteBegin, DemoteBegin, FlipDrained, PromoteEnd, DemoteEnd,
     DemoteResume, FlipFails, FlipUnchanged, Publish, vars
<1> QED BY <1>1, <1>2

LEMMA AdmitFrame ==
    ASSUME TypeOK, PullManual \/ LoopLoad
    PROVE  /\ UNCHANGED <<master, row, data, book, running, flip, past>>
           /\ \/ /\ PullManual /\ UNCHANGED loop /\ pull["manual"].pc = "idle"
                 /\ pull'["manual"].pc = "lock" /\ Others("manual")
                 /\ pull'["manual"].behind = (flip.pc = "commit")
              \/ /\ LoopLoad /\ loop.pc = "load" /\ loop'.pc = "pull"
                 /\ pull'["loop"].pc = "lock" /\ Others("loop")
                 /\ pull'["loop"].behind = (flip.pc = "commit")
              \/ /\ LoopLoad /\ loop.pc = "load" /\ loop'.pc = "polled"
                 /\ row.token = 0 /\ UNCHANGED pull
              \/ LoopLoad /\ loop.pc = "load" /\ LoopNote("kept") /\ UNCHANGED pull
<1>1. CASE PullManual
  BY <1>1, Moves DEF PullManual, Pullers
<1>2. CASE LoopLoad
  BY <1>2, Moves DEF LoopLoad, LoopUnchanged, Pullers, TypeOK, LoopType
<1> QED BY <1>1, <1>2

LEMMA PolledFrame ==
    ASSUME TypeOK, LoopPolled
    PROVE  /\ UNCHANGED <<master, data, book, running, pull, flip, past>>
           /\ loop.pc = "polled" /\ loop'.pc = "load"
           /\ row'.role = row.role /\ row'.reg = row.reg /\ row'.applied = row.applied
           /\ row'.error = row.error
BY DEF LoopPolled, LoopUnchanged, TypeOK, RowType, LoopType

LEMMA ReportFrame ==
    ASSUME TypeOK, LoopReport
    PROVE  /\ UNCHANGED <<master, row, data, book, running, pull, flip, past>>
           /\ loop.pc = "report" /\ \E r \in {"ok", "kept"} : LoopNote(r)
BY DEF LoopReport, LoopUnchanged

LEMMA NoteLoop ==
    ASSUME TypeOK, NEW r, LoopNote(r)
    PROVE  /\ loop'.pc = "write" /\ loop'.saw = row.error
           /\ loop'.message = Message(r, FALSE)
BY DEF LoopNote, TypeOK, LoopType

LEMMA LoopWriteFrame ==
    ASSUME TypeOK, LoopWrite
    PROVE  /\ UNCHANGED <<master, data, book, running, pull, flip>>
           /\ loop.pc = "write" /\ loop'.pc = "load"
           /\ row'.role = row.role /\ row'.reg = row.reg /\ row'.token = row.token
           /\ row'.applied = row.applied
           /\ row' = row \/ (Slave /\ loop.message # "skip" /\ row'.error = loop.message)
           /\ past'.unbooked = past.unbooked /\ past'.unseen = past.unseen
           /\ past.erased => past'.erased
           /\ Slave /\ Marked /\ loop.message # "skip" /\ loop.saw # row.error
                => past'.erased
<1>1. loop.message \in Errors \cup {"skip"} BY DEF TypeOK, LoopType
<1>2. loop'.pc = "load" BY DEF LoopWrite, TypeOK, LoopType
<1> QED BY <1>1, <1>2, RecordFrame DEF LoopWrite, LoopUnchanged

LEMMA FlipFrame ==
    ASSUME TypeOK, PromoteCommit \/ DemoteCommit
    PROVE  /\ UNCHANGED <<master, data, running, loop, pull, past>>
           /\ \A p \in Pullers : pull[p].pc # "commit"
           /\ flip.pc = "commit" /\ flip'.pc = "end"
           /\ row'.token = 0 /\ row'.applied = 0
           /\ book'.sections = Unset
           /\ \/ row'.role = "master" /\ row'.reg = row.reg
              \/ row'.role = "slave" /\ row'.reg = row.reg + 1
<1>1. /\ \A p \in Pullers : pull[p].pc # "commit"
      /\ UNCHANGED <<master, data, running, loop, pull, past>>
  BY DEF PromoteCommit, DemoteCommit, FlipUnchanged, TxOpen
<1>2. flip.pc = "commit" /\ flip'.pc = "end"
  BY DEF PromoteCommit, DemoteCommit, TypeOK, FlipType
<1>3. /\ row'.token = 0 /\ row'.applied = 0
      /\ \/ row'.role = "master" /\ row'.reg = row.reg
         \/ row'.role = "slave" /\ row'.reg = row.reg + 1
  BY DEF PromoteCommit, DemoteCommit, Cleared, TypeOK, RowType
<1>4. book'.sections = Unset BY DEF PromoteCommit, DemoteCommit
<1> QED BY <1>1, <1>2, <1>3, <1>4

LEMMA RestartFrame ==
    ASSUME TypeOK, Restart
    PROVE  /\ UNCHANGED <<master, data, book>>
           /\ \A p \in Pullers : pull'[p].pc = "idle"
           /\ loop'.pc = "off" /\ flip'.pc = "idle"
           /\ row'.role = row.role /\ row'.reg = row.reg /\ row'.token = row.token
           /\ row'.applied = row.applied
           /\ past'.erased = past.erased /\ past'.unseen = past.unseen
           /\ past'.unbooked = (past.unbooked \/ Unbooked)
           /\ \/ running' = data.content /\ UNCHANGED row
              \/ running' = running /\ (Slave => row'.error = "reload")
<1>1. /\ \A p \in Pullers : pull'[p].pc = "idle"
      /\ loop'.pc = "off" /\ flip'.pc = "idle"
  BY DEF Restart, NoPull, NoLoop, NoFlip
<1>2. /\ past'.erased = past.erased /\ past'.unseen = past.unseen
      /\ past'.unbooked = (past.unbooked \/ Unbooked)
  BY DEF Restart, TypeOK, PastType
<1>3. PersistSyncError("reload") =>
         /\ row'.role = row.role /\ row'.reg = row.reg /\ row'.token = row.token
         /\ row'.applied = row.applied /\ (Slave => row'.error = "reload")
  BY PersistFrame DEF Errors, Markers
<1> QED BY <1>1, <1>2, <1>3 DEF Restart

-----------------------------------------------------------------------------
(* Who holds pullMu.                                                       *)

Working == {"check", "apply", "tx", "commit"} \cup Effects

\* One pull at a time is past the mutex, the loop waits for its own, and what a
\* pull works on is something the master published.
MutexInv ==
    /\ \A p, q \in Pullers : Holding(p) /\ Holding(q) => p = q
    /\ pull["loop"].pc # "idle" => loop.pc = "pull"
    /\ master # 0
    /\ \A p \in Pullers : pull[p].pc \in Working => pull[p].snap # 0

\* A pull that had the mutex keeps it or gives it up.
LEMMA MutexKept ==
    ASSUME MutexInv, NEW p \in Pullers, Holding(p), Others(p),
           pull'[p].pc \in Working =>
             \/ pull'[p].snap = master
             \/ pull'[p].snap = pull[p].snap /\ pull[p].pc \in Working,
           UNCHANGED master,
           loop' = loop \/ (p = "loop" /\ pull'[p].pc = "idle")
    PROVE  MutexInv'
<1>1. \A q \in Pullers : Holding(q)' => q = p
  BY DEF MutexInv, Holding, Others
<1>2. pull'["loop"].pc # "idle" => loop'.pc = "pull"
  BY DEF MutexInv, Holding, Others, Pullers
<1>3. \A q \in Pullers : pull'[q].pc \in Working => pull'[q].snap # 0
  BY DEF MutexInv, Others
<1> QED BY <1>1, <1>2, <1>3 DEF MutexInv

LEMMA MutexNext == TypeOK /\ MutexInv /\ [Next]_vars => MutexInv'
<1> SUFFICES ASSUME TypeOK, MutexInv, [Next]_vars PROVE MutexInv'
  OBVIOUS
<1>1. ASSUME NEW p \in Pullers, PullRead(p) PROVE MutexInv'
  <2>1. /\ Others(p) /\ UNCHANGED <<master, loop>> /\ pull[p].pc = "lock"
        /\ pull'[p].pc \in {"note", "sent"} /\ \A q \in Pullers : ~Holding(q)
    BY <1>1, ReadFrame
  <2>2. \A q \in Pullers : Holding(q)' => q = p
    BY <2>1 DEF Holding, Others
  <2>3. pull'[p].pc \notin Working /\ pull[p].pc # "idle"
    BY <2>1 DEF Working, Effects
  <2>4. pull'["loop"].pc # "idle" => loop'.pc = "pull"
    BY <2>1, <2>3 DEF MutexInv, Others, Pullers
  <2>5. \A q \in Pullers : pull'[q].pc \in Working => pull'[q].snap # 0
    BY <2>1, <2>3 DEF MutexInv, Others
  <2> QED BY <2>1, <2>2, <2>4, <2>5 DEF MutexInv
<1>2. ASSUME NEW p \in Pullers,
             \/ PullFails(p) \/ PullSnapshot(p) \/ PullRepull(p) \/ PullUnchanged(p)
             \/ PullCheck(p)
      PROVE  MutexInv'
  <2>1. /\ Holding(p) /\ Others(p) /\ UNCHANGED <<master, loop>>
        /\ pull'[p].pc \in Working =>
             \/ pull'[p].snap = master
             \/ pull'[p].snap = pull[p].snap /\ pull[p].pc \in Working
    <3>1. Holding(p) /\ Others(p) /\ UNCHANGED <<master, loop>>
      BY <1>2, WaitFrame DEF Holding
    <3>2. \/ pull'[p].pc \in {"note", "full"} \/ pull'[p].snap = master
          \/ pull'[p].snap = pull[p].snap /\ pull[p].pc = "check"
      BY <1>2, WaitFrame DEF Same
    <3>3. "note" \notin Working /\ "full" \notin Working /\ "check" \in Working
      BY DEF Working, Effects
    <3> QED BY <3>1, <3>2, <3>3
  <2> QED BY <2>1, MutexKept
<1>3. ASSUME NEW p \in Pullers,
             \/ PullApply(p) \/ PullTx(p) \/ PullBranding(p) \/ PullHashes(p)
             \/ PullFiles(p) \/ PullLoad(p) \/ PullNote(p)
      PROVE  MutexInv'
  <2>1. /\ Holding(p) /\ Others(p) /\ UNCHANGED <<master, loop>>
        /\ pull'[p].pc \in Working =>
             pull'[p].snap = pull[p].snap /\ pull[p].pc \in Working
    BY <1>3, ApplyFrame, TxFrame, BrandingFrame, HashesFrame, FilesFrame, LoadFrame,
       NoteFrame
    DEF Holding, Working, Effects, Same
  <2> QED BY <2>1, MutexKept
<1>4. ASSUME NEW p \in Pullers, PullCommit(p) PROVE MutexInv'
  <2>1. /\ Holding(p) /\ Others(p) /\ UNCHANGED <<master, loop>>
        /\ pull'[p].pc \in Working =>
             pull'[p].snap = pull[p].snap /\ pull[p].pc \in Working
    BY <1>4, Moves DEF PullCommit, Holding, Working, Effects, Same
  <2> QED BY <2>1, MutexKept
<1>5. ASSUME NEW p \in Pullers, PullWrite(p) PROVE MutexInv'
  <2>1. /\ Holding(p) /\ Others(p) /\ pull'[p].pc \notin Working /\ UNCHANGED master
    BY <1>5, WriteFrame DEF Holding, Working, Effects
  <2>2. loop' = loop \/ (p = "loop" /\ pull'[p].pc = "idle")
    BY <1>5, WriteFrame DEF PullWrite, TypeOK, NoPull, Pullers
  <2> QED BY <2>1, <2>2, MutexKept
<1>6. CASE PullManual \/ LoopLoad
  <2>1. CASE UNCHANGED <<pull, master>> /\ loop.pc = "load"
    BY <2>1 DEF MutexInv, Holding
  <2>2. CASE /\ UNCHANGED <<master, loop>> /\ pull'["manual"].pc = "lock"
             /\ Others("manual")
    BY <2>2 DEF MutexInv, Holding, Others, Working, Effects, Pullers
  <2>3. CASE /\ UNCHANGED master /\ loop'.pc = "pull" /\ pull'["loop"].pc = "lock"
             /\ Others("loop")
    BY <2>3 DEF MutexInv, Holding, Others, Working, Effects, Pullers
  <2> QED BY <1>6, <2>1, <2>2, <2>3, AdmitFrame
<1>7. CASE LoopPolled \/ LoopReport \/ LoopWrite
  <2>1. UNCHANGED <<pull, master>> /\ loop.pc # "pull"
    BY <1>7, PolledFrame, ReportFrame, LoopWriteFrame
  <2> QED BY <2>1 DEF MutexInv, Holding
<1>8. CASE Quiet
  <2>1. /\ \A p \in Pullers : pull'[p] = pull[p] \/ pull'[p].pc = "idle"
        /\ pull'["loop"] = pull["loop"] /\ master' \in {master, master + 1}
        /\ loop.pc = "pull" => loop'.pc = "pull"
    BY <1>8, QuietFrame
  <2>2. master' # 0 BY <2>1 DEF MutexInv, TypeOK
  <2> QED BY <2>1, <2>2 DEF MutexInv, Holding, Working, Effects
<1>9. CASE PromoteCommit \/ DemoteCommit
  BY <1>9, FlipFrame DEF MutexInv, Holding
<1>10. CASE Edit \/ Damage
  BY <1>10 DEF Edit, Damage, MutexInv, Holding
<1>11. CASE Restart
  BY <1>11, RestartFrame DEF MutexInv, Holding, Working, Effects, Pullers
<1> QED
  BY <1>1, <1>2, <1>3, <1>4, <1>5, <1>6, <1>7, <1>8, <1>9, <1>10, <1>11
  DEF Next, PullStep, LoopStep, TaskStep, FlipStep, Quiet

-----------------------------------------------------------------------------
(* What the drain of a flip protects.                                      *)

Asked == {"sent", "full", "check", "apply", "tx", "commit"} \cup Effects

\* A pull that was let in after the drain and that the flip has overtaken: the
\* row says master, or names a later registration, and nothing is applied yet.
Crossed(p) ==
    /\ pull[p].behind /\ row.applied = 0 /\ flip.pc # "commit"
    /\ ~Slave \/ row.reg # pull[p].reg

\* Every pull that has read the row is either of the present registration or
\* crossed, and only those let in after the drain are there when a flip
\* commits.  A crossed pull has no open transaction: the check inside it and
\* the lock on the database keep it out.
TopologyInv ==
    /\ flip.pc = "commit" => \A p \in Pullers :
         pull[p].pc \in Asked \cup {"lock"} => pull[p].behind
    /\ \A p \in Pullers : pull[p].pc \in Asked =>
         /\ SameTopology(p) \/ (Crossed(p) /\ pull[p].pc # "commit")
         /\ pull[p].token # 0
         /\ pull[p].pc # "sent" => pull[p].token = pull[p].reg
    /\ loop.pc = "polled" => row.token = 0
    /\ row.reg # 0
    /\ row.applied # 0 => Slave /\ data.from = row.reg /\ row.token = row.reg

LEMMA PcFacts ==
    /\ Asked = {"sent", "full", "check", "apply", "tx", "commit", "branding", "hashes",
                "files", "load"}
    /\ Effects = {"branding", "hashes", "files", "load"}
    /\ Working = {"check", "apply", "tx", "commit", "branding", "hashes", "files", "load"}
BY DEF Asked, Effects, Working

\* What a step leaves alone that neither commits nor flips.
TopologyFrame ==
    /\ row'.role = row.role /\ row'.reg = row.reg /\ row'.applied = row.applied
    /\ row'.token = row.token /\ data'.from = data.from
    /\ flip'.pc = "commit" => flip.pc = "commit"
    /\ loop'.pc = "polled" => loop.pc = "polled"

LEMMA TopologyFramed ==
    ASSUME TopologyInv, TopologyFrame,
           \A p \in Pullers : \/ pull'[p].pc \notin Asked \cup {"lock"}
                              \/ /\ Kept(p) /\ pull'[p].pc # "commit"
                                 /\ pull[p].pc \in Asked /\ pull'[p].pc # "sent"
                                 /\ pull[p].pc = "sent" => pull[p].token = pull[p].reg
                              \/ pull'[p] = pull[p]
    PROVE  TopologyInv'
<1>1. flip'.pc = "commit" => \A p \in Pullers :
         pull'[p].pc \in Asked \cup {"lock"} => pull'[p].behind
  BY DEF TopologyInv, TopologyFrame, Kept
<1>2. ASSUME NEW p \in Pullers, pull'[p].pc \in Asked
      PROVE  /\ SameTopology(p)' \/ (Crossed(p)' /\ pull'[p].pc # "commit")
             /\ pull'[p].token # 0
             /\ pull'[p].pc # "sent" => pull'[p].token = pull'[p].reg
  <2>1. /\ Kept(p) /\ pull[p].pc \in Asked
        /\ pull'[p].pc = "commit" => pull[p].pc = "commit"
        /\ pull'[p].pc # "sent" => pull[p].token = pull[p].reg
    <3>1. CASE pull'[p] = pull[p]
      BY <1>2, <3>1 DEF TopologyInv, Kept
    <3>2. CASE pull'[p] # pull[p]
      BY <1>2, <3>2, PcFacts DEF TopologyInv
    <3> QED BY <3>1, <3>2
  <2>2. SameTopology(p) => SameTopology(p)'
    BY <2>1 DEF SameTopology, TopologyFrame, Slave, Kept
  <2>3. Crossed(p) => Crossed(p)'
    BY <2>1 DEF Crossed, TopologyFrame, Slave, Kept
  <2> QED BY <2>1, <2>2, <2>3 DEF TopologyInv, Kept
<1>3. /\ loop'.pc = "polled" => row'.token = 0
      /\ row'.reg # 0
      /\ row'.applied # 0 => Slave' /\ data'.from = row'.reg /\ row'.token = row'.reg
  BY DEF TopologyInv, TopologyFrame, Slave
<1> QED BY <1>1, <1>2, <1>3 DEF TopologyInv

LEMMA TopologyNext ==
    TypeOK /\ MutexInv /\ TopologyInv /\ [Next]_vars => TopologyInv'
<1> SUFFICES ASSUME TypeOK, MutexInv, TopologyInv, [Next]_vars PROVE TopologyInv'
  OBVIOUS
<1>1. ASSUME NEW p \in Pullers, PullRead(p) PROVE TopologyInv'
  <2>1. /\ Others(p) /\ UNCHANGED <<row, data, loop, flip>> /\ pull[p].pc = "lock"
        /\ \/ pull'[p].pc = "note"
           \/ /\ pull'[p].pc = "sent" /\ Slave /\ row.token # 0
              /\ pull'[p].reg = row.reg /\ pull'[p].token = row.token
              /\ pull'[p].behind = pull[p].behind
    BY <1>1, ReadFrame
  <2>2. CASE pull'[p].pc = "note"
    BY <2>1, <2>2, TopologyFramed, PcFacts DEF TopologyFrame, Others
  <2>3. CASE pull'[p].pc = "sent"
    <3>1. SameTopology(p)' /\ pull'[p].token # 0
      BY <2>1, <2>3 DEF SameTopology, Slave
    <3>2. flip.pc = "commit" => pull'[p].behind
      BY <2>1, <2>3 DEF TopologyInv
    <3>3. ASSUME NEW q \in Pullers \ {p}, pull'[q].pc \in Asked
          PROVE  /\ SameTopology(q)' \/ (Crossed(q)' /\ pull'[q].pc # "commit")
                 /\ pull'[q].token # 0
                 /\ pull'[q].pc # "sent" => pull'[q].token = pull'[q].reg
      BY <2>1, <3>3 DEF TopologyInv, SameTopology, Crossed, Slave, Others
    <3>4. /\ loop'.pc = "polled" => row'.token = 0
          /\ row'.reg # 0
          /\ row'.applied # 0 => Slave' /\ data'.from = row'.reg /\ row'.token = row'.reg
      BY <2>1 DEF TopologyInv, Slave
    <3>5. flip'.pc = "commit" => \A q \in Pullers :
             pull'[q].pc \in Asked \cup {"lock"} => pull'[q].behind
      BY <2>1, <3>2 DEF TopologyInv, Others
    <3> QED BY <2>3, <3>1, <3>3, <3>4, <3>5 DEF TopologyInv
  <2> QED BY <2>1, <2>2, <2>3
<1>2. ASSUME NEW p \in Pullers,
             \/ PullFails(p) \/ PullSnapshot(p) \/ PullRepull(p) \/ PullUnchanged(p)
             \/ PullCheck(p) \/ PullApply(p) \/ PullBranding(p) \/ PullHashes(p)
             \/ PullFiles(p) \/ PullLoad(p) \/ PullNote(p) \/ PullWrite(p)
      PROVE  TopologyInv'
  <2>1. /\ Others(p) /\ UNCHANGED <<data, flip>>
        /\ row'.role = row.role /\ row'.reg = row.reg /\ row'.applied = row.applied
        /\ row'.token = row.token
        /\ loop' = loop \/ loop'.pc # "polled"
        /\ \/ pull'[p].pc \in {"note", "write", "idle", "resume"}
           \/ /\ pull'[p].pc \in {"check", "full", "apply", "tx", "hashes", "files", "load"}
              /\ pull[p].pc \in {"sent", "full", "check", "apply", "branding", "hashes",
                                 "files"}
              /\ Kept(p) /\ (pull[p].pc = "sent" => pull[p].token = pull[p].reg)
    BY <1>2, WaitFrame, ApplyFrame, BrandingFrame, HashesFrame, FilesFrame, LoadFrame,
       NoteFrame, WriteFrame DEF Same
  <2> QED BY <2>1, TopologyFramed, PcFacts DEF TopologyFrame, Others
<1>3. ASSUME NEW p \in Pullers, PullTx(p) PROVE TopologyInv'
  <2>1. /\ Others(p) /\ UNCHANGED <<row, data, loop, flip>> /\ pull[p].pc = "tx"
        /\ \/ pull'[p].pc = "note"
           \/ pull'[p].pc = "commit" /\ SameTopology(p) /\ Kept(p)
    BY <1>3, TxFrame DEF Same
  <2>2. CASE pull'[p].pc = "note"
    BY <2>1, <2>2, TopologyFramed, PcFacts DEF TopologyFrame, Others
  <2>3. CASE pull'[p].pc = "commit"
    <3>1. SameTopology(p)' /\ pull'[p].token # 0 /\ pull'[p].token = pull'[p].reg
      BY <2>1, <2>3, PcFacts DEF TopologyInv, SameTopology, Slave, Kept
    <3>2. flip.pc = "commit" => pull'[p].behind
      BY <2>1, <2>3, PcFacts DEF TopologyInv, Kept
    <3>3. ASSUME NEW q \in Pullers \ {p}, pull'[q].pc \in Asked
          PROVE  /\ SameTopology(q)' \/ (Crossed(q)' /\ pull'[q].pc # "commit")
                 /\ pull'[q].token # 0
                 /\ pull'[q].pc # "sent" => pull'[q].token = pull'[q].reg
      BY <2>1, <3>3 DEF TopologyInv, SameTopology, Crossed, Slave, Others
    <3>4. /\ loop'.pc = "polled" => row'.token = 0
          /\ row'.reg # 0
          /\ row'.applied # 0 => Slave' /\ data'.from = row'.reg /\ row'.token = row'.reg
      BY <2>1 DEF TopologyInv, Slave
    <3>5. flip'.pc = "commit" => \A q \in Pullers :
             pull'[q].pc \in Asked \cup {"lock"} => pull'[q].behind
      BY <2>1, <3>2 DEF TopologyInv, Others
    <3> QED BY <2>3, <3>1, <3>3, <3>4, <3>5 DEF TopologyInv
  <2> QED BY <2>1, <2>2, <2>3
<1>4. ASSUME NEW p \in Pullers, PullCommit(p) PROVE TopologyInv'
  <2>0. /\ pull[p].pc = "commit" /\ SameTopology(p) /\ pull[p].token = pull[p].reg
        /\ pull[p].token # 0
    BY <1>4, PcFacts DEF PullCommit, TopologyInv
  <2>1. Slave BY <2>0 DEF SameTopology
  <2>2. /\ Others(p) /\ UNCHANGED <<loop, flip>>
        /\ row'.role = row.role /\ row'.reg = row.reg /\ row'.token = row.token
        /\ pull'[p].pc = "note" \/ (pull'[p].pc = "branding" /\ Kept(p))
        /\ \/ row'.applied = row.applied /\ UNCHANGED data
           \/ row'.applied = pull[p].snap /\ data'.from = pull[p].reg
    BY <1>4, <2>1, CommitFrame DEF Same
  <2>3. \A q \in Pullers \ {p} : pull'[q].pc \notin Asked
    BY <2>0, <2>2, PcFacts DEF MutexInv, Holding, Others
  <2>4. pull'[p].pc = "branding" => SameTopology(p)'
    BY <2>0, <2>2 DEF SameTopology, Slave, Kept
  <2>5. /\ loop'.pc = "polled" => row'.token = 0
        /\ row'.reg # 0
        /\ row'.applied # 0 => Slave' /\ data'.from = row'.reg /\ row'.token = row'.reg
    BY <2>0, <2>1, <2>2 DEF TopologyInv, Slave, SameTopology
  <2>6. flip'.pc = "commit" => \A q \in Pullers :
           pull'[q].pc \in Asked \cup {"lock"} => pull'[q].behind
    BY <2>0, <2>2, PcFacts DEF TopologyInv, Others, Kept
  <2>7. pull'[p].pc \in Asked =>
           pull'[p].pc = "branding" /\ pull'[p].token # 0 /\ pull'[p].token = pull'[p].reg
    BY <2>0, <2>2, PcFacts DEF Kept
  <2> QED BY <2>3, <2>4, <2>5, <2>6, <2>7 DEF TopologyInv
<1>5. CASE PullManual \/ LoopLoad
  <2>1. UNCHANGED <<row, data, flip>> BY <1>5, AdmitFrame
  <2>2. loop'.pc = "polled" => row.token = 0
    BY <1>5, AdmitFrame, NoteLoop DEF TopologyInv
  <2>3. /\ flip.pc = "commit" => \A p \in Pullers :
             pull'[p].pc \in Asked \cup {"lock"} => pull'[p].behind
        /\ \A p \in Pullers : pull'[p].pc \in Asked => pull'[p] = pull[p]
    BY <1>5, AdmitFrame, PcFacts DEF TopologyInv, Others, Pullers
  <2>4. ASSUME NEW q \in Pullers, pull'[q].pc \in Asked
        PROVE  /\ SameTopology(q)' \/ (Crossed(q)' /\ pull'[q].pc # "commit")
               /\ pull'[q].token # 0
               /\ pull'[q].pc # "sent" => pull'[q].token = pull'[q].reg
    BY <2>1, <2>3, <2>4 DEF TopologyInv, SameTopology, Crossed, Slave
  <2> QED BY <2>1, <2>2, <2>3, <2>4 DEF TopologyInv, Slave
<1>6. CASE LoopPolled
  <2>1. /\ UNCHANGED <<data, pull, flip>> /\ row.token = 0 /\ loop'.pc = "load"
        /\ row'.role = row.role /\ row'.reg = row.reg /\ row'.applied = row.applied
    BY <1>6, PolledFrame DEF TopologyInv
  <2>2. row.applied = 0 BY <2>1 DEF TopologyInv
  <2>3. \A p \in Pullers : pull[p].pc \in Asked => Crossed(p) /\ Crossed(p)'
    BY <2>1 DEF TopologyInv, SameTopology, Crossed, Slave
  <2>4. \A p \in Pullers : pull[p].pc \in Asked => pull[p].pc # "commit"
    BY <2>1 DEF TopologyInv, SameTopology
  <2> QED BY <2>1, <2>2, <2>3, <2>4 DEF TopologyInv
<1>7. CASE LoopReport \/ LoopWrite
  <2>1. /\ UNCHANGED <<data, pull, flip>> /\ loop'.pc # "polled"
        /\ row'.role = row.role /\ row'.reg = row.reg /\ row'.applied = row.applied
        /\ row'.token = row.token
    BY <1>7, ReportFrame, NoteLoop, LoopWriteFrame
  <2> QED BY <2>1, TopologyFramed DEF TopologyFrame
<1>8. CASE Quiet
  <2>1. /\ UNCHANGED <<row, data>>
        /\ loop'.pc = "polled" => loop.pc = "polled"
        /\ \A p \in Pullers : pull'[p] = pull[p] \/ pull'[p].pc = "idle"
        /\ flip'.pc = "commit" => flip.pc = "commit" \/ Drained
    BY <1>8, QuietFrame
  <2>2. CASE flip'.pc = "commit" /\ Drained
    <3>1. \A p \in Pullers : pull'[p].pc \notin Asked \cup {"lock"}
      BY <2>1, <2>2, PcFacts DEF Drained, InFlight
    <3> QED BY <2>1, <3>1 DEF TopologyInv, Slave
  <2>3. CASE flip'.pc = "commit" => flip.pc = "commit"
    BY <2>1, <2>3, TopologyFramed, PcFacts DEF TopologyFrame
  <2> QED BY <2>1, <2>2, <2>3
<1>9. CASE PromoteCommit \/ DemoteCommit
  <2>1. /\ UNCHANGED <<data, loop, pull>> /\ flip.pc = "commit" /\ flip'.pc = "end"
        /\ \A p \in Pullers : pull[p].pc # "commit"
        /\ row'.token = 0 /\ row'.applied = 0
        /\ \/ row'.role = "master" /\ row'.reg = row.reg
           \/ row'.role = "slave" /\ row'.reg = row.reg + 1
    BY <1>9, FlipFrame
  <2>2. row.reg \in Nat BY SyncAssumption DEF TypeOK, RowType, Regs
  <2>3. ASSUME NEW p \in Pullers, pull[p].pc \in Asked
        PROVE  Crossed(p)'
    <3>1. SameTopology(p) /\ pull[p].behind BY <2>1, <2>3 DEF TopologyInv, Crossed
    <3> QED BY <2>1, <2>2, <3>1 DEF SameTopology, Crossed, Slave
  <2> QED BY <2>1, <2>2, <2>3 DEF TopologyInv
<1>10. CASE Edit \/ Damage
  <2>1. UNCHANGED <<row, pull, loop, flip>> BY <1>10 DEF Edit, Damage
  <2>2. data'.from = data.from \/ ~Slave
    BY <1>10 DEF Edit, Damage, TypeOK, DataType
  <2>3. ASSUME NEW q \in Pullers, pull'[q].pc \in Asked
        PROVE  /\ SameTopology(q)' \/ (Crossed(q)' /\ pull'[q].pc # "commit")
               /\ pull'[q].token # 0
               /\ pull'[q].pc # "sent" => pull'[q].token = pull'[q].reg
    BY <2>1, <2>3 DEF TopologyInv, SameTopology, Crossed, Slave
  <2> QED BY <2>1, <2>2, <2>3 DEF TopologyInv, Slave
<1>11. CASE Restart
  <2>1. /\ UNCHANGED data /\ loop'.pc = "off" /\ flip'.pc = "idle"
        /\ \A p \in Pullers : pull'[p].pc = "idle"
        /\ row'.role = row.role /\ row'.reg = row.reg /\ row'.applied = row.applied
        /\ row'.token = row.token
    BY <1>11, RestartFrame
  <2> QED BY <2>1, TopologyFramed, PcFacts DEF TopologyFrame
<1> QED
  BY <1>1, <1>2, <1>3, <1>4, <1>5, <1>6, <1>7, <1>8, <1>9, <1>10, <1>11
  DEF Next, PullStep, LoopStep, TaskStep, FlipStep, Quiet

LEMMA TopologyHolds == Spec => [](MutexInv /\ TopologyInv)
<1>1. Init => MutexInv /\ TopologyInv
  <2>1. ASSUME Init PROVE \A p \in Pullers : pull[p].pc = "idle"
    BY <2>1 DEF Init, NoPull
  <2>2. ASSUME Init PROVE MutexInv
    BY <2>1, <2>2, PcFacts DEF Init, MutexInv, Holding, Pullers, NoLoop
  <2>3. ASSUME Init PROVE TopologyInv
    BY <2>1, <2>3, PcFacts DEF Init, TopologyInv, NoLoop, NoFlip
  <2> QED BY <2>2, <2>3
<1> QED BY <1>1, MutexNext, TopologyNext, SyncTypeCorrect, PTL DEF Spec

\* What follows a commit is of the registration the row has now: the drain of
\* Promote and BecomeSlave (drainPullsLocked) and the mutex of the pulls keep it
\* so, and the only pulls that escape are those a start of the service lets in
\* between the drain and the commit of the flip.
THEOREM EffectsStayCurrent == Spec => []EffectsCurrent
<1>1. TopologyInv => EffectsCurrent
  BY DEF TopologyInv, EffectsCurrent, Crossed, Asked
<1> QED BY <1>1, TopologyHolds, PTL

-----------------------------------------------------------------------------
(* What is booked, and what is marked.                                     *)

\* What follows a commit finds the rows of its own snapshot.
BookInv ==
    \A p \in Pullers : pull[p].pc \in Effects =>
        /\ Slave => data.content = Rows(p)
        /\ row.applied # 0 => row.applied = pull[p].snap

\* The pull that has the mutex is alone with what the invariants are about.
Busy == Working \cup {"sent", "full", "note", "write"}

LEMMA Alone ==
    ASSUME MutexInv, NEW p \in Pullers, pull[p].pc \in Busy
    PROVE  \A q \in Pullers \ {p} : pull[q].pc \notin Busy
BY PcFacts DEF MutexInv, Holding, Busy

LEMMA BookFramed ==
    ASSUME BookInv, UNCHANGED data,
           Slave' => Slave \/ \A p \in Pullers : pull'[p].pc \notin Effects,
           row'.applied # 0 => row'.applied = row.applied,
           \A p \in Pullers : \/ pull'[p].pc \notin Effects
                              \/ pull[p].pc \in Effects /\ pull'[p].snap = pull[p].snap
    PROVE  BookInv'
BY DEF BookInv, Rows

LEMMA BookNext ==
    TypeOK /\ MutexInv /\ TopologyInv /\ BookInv /\ [Next]_vars => BookInv'
<1> SUFFICES ASSUME TypeOK, MutexInv, TopologyInv, BookInv, [Next]_vars PROVE BookInv'
  OBVIOUS
<1>1. ASSUME NEW p \in Pullers,
             \/ PullRead(p) \/ PullFails(p) \/ PullSnapshot(p) \/ PullRepull(p)
             \/ PullUnchanged(p) \/ PullCheck(p) \/ PullApply(p) \/ PullTx(p)
             \/ PullNote(p) \/ PullWrite(p) \/ PullLoad(p)
      PROVE  BookInv'
  <2>1. /\ UNCHANGED data /\ Others(p)
        /\ row'.role = row.role /\ row'.applied = row.applied
        /\ pull'[p].pc \in {"note", "sent", "full", "check", "apply", "tx", "commit",
                            "write", "idle", "resume"}
    BY <1>1, ReadFrame, WaitFrame, ApplyFrame, TxFrame, NoteFrame, WriteFrame, LoadFrame
  <2> QED BY <2>1, BookFramed, PcFacts DEF Others, Slave
<1>2. ASSUME NEW p \in Pullers, PullBranding(p) \/ PullHashes(p) \/ PullFiles(p)
      PROVE  BookInv'
  <2>1. /\ UNCHANGED data /\ Others(p) /\ pull'[p].snap = pull[p].snap
        /\ row'.role = row.role /\ row'.applied = row.applied
        /\ pull[p].pc \in {"branding", "hashes", "files"}
    BY <1>2, BrandingFrame, HashesFrame, FilesFrame DEF Same
  <2> QED BY <2>1, BookFramed, PcFacts DEF Others, Slave
<1>3. ASSUME NEW p \in Pullers, PullCommit(p) PROVE BookInv'
  <2>1. pull[p].pc = "commit" /\ Slave
    BY <1>3, PcFacts DEF PullCommit, TopologyInv, SameTopology
  <2>2. /\ Others(p)
        /\ \/ pull'[p].pc = "note"
           \/ /\ pull'[p].pc = "branding" /\ pull'[p].snap = pull[p].snap
              /\ row'.applied = pull[p].snap /\ data'.content = Rows(p)
    BY <1>3, <2>1, CommitFrame DEF Same
  <2>3. \A q \in Pullers \ {p} : pull'[q].pc \notin Effects
    BY <2>1, <2>2, Alone, PcFacts DEF Busy, Others
  <2> QED BY <2>2, <2>3, PcFacts DEF BookInv, Rows
<1>4. CASE PullManual \/ LoopLoad
  <2>1. /\ UNCHANGED <<row, data>>
        /\ \A p \in Pullers : pull'[p] = pull[p] \/ pull'[p].pc = "lock"
    BY <1>4, AdmitFrame DEF Others, Pullers
  <2> QED BY <2>1, BookFramed, PcFacts DEF Slave
<1>5. CASE LoopPolled \/ LoopReport \/ LoopWrite
  <2>1. /\ UNCHANGED <<data, pull>> /\ row'.role = row.role /\ row'.applied = row.applied
    BY <1>5, PolledFrame, ReportFrame, LoopWriteFrame
  <2> QED BY <2>1, BookFramed DEF Slave
<1>6. CASE Quiet
  <2>1. /\ UNCHANGED <<row, data>>
        /\ \A p \in Pullers : pull'[p] = pull[p] \/ pull'[p].pc = "idle"
    BY <1>6, QuietFrame
  <2> QED BY <2>1, BookFramed, PcFacts DEF Slave
<1>7. CASE PromoteCommit \/ DemoteCommit
  <2>1. /\ UNCHANGED <<data, pull>> /\ row'.applied = 0 /\ flip.pc = "commit"
    BY <1>7, FlipFrame
  <2>2. \A p \in Pullers : pull[p].pc \in Effects => Slave
    BY <2>1, PcFacts DEF TopologyInv, SameTopology, Crossed
  <2> QED BY <2>1, <2>2, BookFramed
<1>8. CASE Edit
  BY <1>8 DEF Edit, BookInv, Slave, Rows
<1>9. CASE Damage
  <2>1. UNCHANGED <<row, pull>> /\ \A p \in Pullers : pull[p].pc \notin Effects
    BY <1>9 DEF Damage, Settling
  <2> QED BY <2>1 DEF BookInv
<1>10. CASE Restart
  BY <1>10, RestartFrame, PcFacts DEF BookInv
<1> QED
  BY <1>1, <1>2, <1>3, <1>4, <1>5, <1>6, <1>7, <1>8, <1>9, <1>10
  DEF Next, PullStep, LoopStep, TaskStep, FlipStep, Quiet

\* The markers that make a later pull fetch and load everything, and the reasons
\* for which a pull reloads Caddy whatever it finds.
Hard == {"reload", "uncertain"}
ReloadReasons == {"changed", "reload", "uncertain"}

\* What a slave owes when no marker speaks for it: Caddy runs the rows, or a
\* later pull sees that they drifted, and the reference of the rule files is the
\* one of the snapshot.
Loaded ==
    (Slave /\ running # data.content /\ (row.applied # 0 \/ book.sections # Unset))
        => Drifted \/ past.erased \/ past.unseen
Filed == row.applied # 0 => past.unbooked \/ past.erased \/ book.files = row.applied
Sound == Loaded /\ Filed

\* No record on its way into the column erases a marker that is still needed.
RecordsInv ==
    /\ loop.pc = "write" /\ loop.saw \in Hard => loop.message \in {loop.saw, "skip"}
    /\ \A p \in Pullers :
         pull[p].pc = "write" /\ pull[p].result \notin {"lost", "halt"}
            /\ pull[p].message \notin Hard \cup {"skip"} => Sound

\* A pull that works on a snapshot will load it, or it runs already.
LoadsInv ==
    \A p \in Pullers :
        pull[p].pc \in {"tx", "commit"} \cup Effects /\ Slave =>
            \/ pull[p].why \cap ReloadReasons # {} \/ past.erased
            \/ running = Rows(p)

FilesInv ==
    \A p \in Pullers : pull[p].pc \in {"files", "load"} /\ row.applied # 0 =>
        past.unbooked \/ book.files = pull[p].snap

MarkInv ==
    /\ past.unseen => data.content = 0
    /\ ~Settling => Sound \/ (Slave /\ row.error \in Hard)
    /\ RecordsInv /\ LoadsInv /\ FilesInv

\* What holds of every step that neither commits, books nor loads.
StillFrame ==
    /\ row'.role = row.role /\ row'.applied = row.applied
    /\ UNCHANGED <<data, book, running>>
    /\ past'.unbooked = past.unbooked /\ past'.unseen = past.unseen
    /\ past.erased => past'.erased

LEMMA SoundKept ==
    ASSUME StillFrame, Sound PROVE Sound'
BY DEF StillFrame, Sound, Loaded, Filed, Slave, Drifted

\* A later message says at least as much as the marker that is there.
LEMMA HardKept ==
    ASSUME row.error \in Hard, NEW r \in {"ok", "kept", "quiet"}, NEW t
    PROVE  Message(r, t) \in {row.error, "skip"}
BY DEF Hard, Message, Marked, Markers

LEMMA NoteKept ==
    ASSUME TypeOK, NEW r \in {"ok", "kept"}, LoopNote(r)
    PROVE  loop'.saw \in Hard => loop'.message \in {loop'.saw, "skip"}
BY HardKept, NoteLoop

\* The pulls stay where they were, but for one that is not at work.
LEMMA MarkFramed ==
    ASSUME MarkInv, StillFrame,
           Slave /\ row.error \in Hard => row'.error \in Hard \/ past'.erased,
           \A p \in Pullers : \/ pull'[p] = pull[p]
                              \/ /\ pull'[p].pc \notin Working \cup {"write"}
                                 /\ pull[p].pc \notin Effects
                              \/ /\ pull'[p].pc \in {"check", "apply"}
                                 /\ pull[p].pc \notin Effects,
           loop'.pc = "write" /\ loop'.saw \in Hard =>
             loop'.message \in {loop'.saw, "skip"}
    PROVE  MarkInv'
<1>1. Sound => Sound' BY SoundKept
<1>2. Settling => Settling'
  BY DEF Settling
<1>3. \A p \in Pullers : pull'[p].pc \in {"tx", "commit", "write"} \cup Effects =>
         pull'[p] = pull[p]
  BY PcFacts
<1>4. ~Settling' => Sound' \/ (Slave' /\ row'.error \in Hard)
  <2>1. past'.erased => Sound' BY DEF Sound, Loaded, Filed
  <2> QED BY <1>1, <1>2, <2>1 DEF MarkInv, StillFrame, Slave
<1>5. RecordsInv'
  BY <1>1, <1>3 DEF MarkInv, RecordsInv
<1>6. LoadsInv'
  BY <1>3 DEF MarkInv, LoadsInv, StillFrame, Slave, Rows
<1>7. FilesInv'
  BY <1>3, PcFacts DEF MarkInv, FilesInv, StillFrame
<1> QED BY <1>4, <1>5, <1>6, <1>7 DEF MarkInv, StillFrame

LEMMA MarkNext ==
    TypeOK /\ MutexInv /\ TopologyInv /\ BookInv /\ MarkInv /\ [Next]_vars => MarkInv'
<1> SUFFICES ASSUME TypeOK, MutexInv, TopologyInv, BookInv, MarkInv, [Next]_vars
             PROVE  MarkInv'
  OBVIOUS
<1>1. ASSUME NEW p \in Pullers,
             \/ PullRead(p) \/ PullFails(p) \/ PullSnapshot(p) \/ PullRepull(p)
             \/ PullUnchanged(p) \/ PullCheck(p)
      PROVE  MarkInv'
  <2>1. /\ UNCHANGED <<row, data, book, running, loop, past>> /\ Others(p)
        /\ pull[p].pc \in {"lock", "sent", "full", "check"}
        /\ pull'[p].pc \in {"note", "sent", "full", "check", "apply"}
    BY <1>1, ReadFrame, WaitFrame
  <2> QED
    BY <2>1, MarkFramed, PcFacts DEF StillFrame, Others, MarkInv, RecordsInv
<1>2. ASSUME NEW p \in Pullers, PullApply(p) PROVE MarkInv'
  <2>1. /\ UNCHANGED <<row, data, book, running, loop, past>> /\ Others(p)
        /\ pull[p].pc = "apply"
        /\ \/ pull'[p].pc = "note"
           \/ /\ pull'[p].pc = "tx" /\ pull'[p].snap = pull[p].snap
              /\ {row.error} \cap Markers \subseteq pull'[p].why
              /\ \/ "changed" \in pull'[p].why
                 \/ book.sections = Rows(p) /\ data.content = Rows(p)
    BY <1>2, ApplyFrame DEF Same
  <2>2. CASE pull'[p].pc = "note"
    BY <2>1, <2>2, MarkFramed, PcFacts DEF StillFrame, Others, MarkInv, RecordsInv
  <2>3. CASE pull'[p].pc = "tx"
    <3>1. \A q \in Pullers \ {p} : pull'[q].pc \notin Busy
      BY <2>1, Alone, PcFacts DEF Others, Busy
    <3>2. ~Settling
      BY <2>1, Alone, PcFacts DEF Settling, Busy
    <3>3. ASSUME Slave
          PROVE  \/ pull'[p].why \cap ReloadReasons # {} \/ past.erased
                 \/ running = Rows(p)
      <4>1. CASE row.error \in Hard
        BY <2>1, <2>3, <4>1 DEF Hard, Markers, ReloadReasons
      <4>2. CASE "changed" \in pull'[p].why
        BY <4>2 DEF ReloadReasons
      <4>3. CASE /\ row.error \notin Hard /\ book.sections = Rows(p)
                 /\ data.content = Rows(p)
        <5>1. Loaded BY <3>2, <4>3 DEF MarkInv, Sound
        <5>2. Rows(p) # Unset /\ Rows(p) # 0
          BY <2>1, RowsTyped, PcFacts DEF MutexInv
        <5>3. ~past.unseen /\ ~Drifted BY <4>3, <5>2 DEF MarkInv, Drifted
        <5> QED BY <3>3, <4>3, <5>1, <5>2, <5>3 DEF Loaded
      <4> QED BY <2>1, <2>3, <4>1, <4>2, <4>3
    <3>4. LoadsInv'
      BY <2>1, <2>3, <3>1, <3>3, PcFacts DEF LoadsInv, Slave, Rows, Busy
    <3>5. Sound => Sound' BY <2>1, SoundKept DEF StillFrame
    <3>6. RecordsInv' /\ FilesInv'
      BY <2>1, <2>3, <3>1, PcFacts DEF MarkInv, RecordsInv, FilesInv, Busy
    <3> QED BY <2>1, <3>2, <3>4, <3>5, <3>6 DEF MarkInv, Slave
  <2> QED BY <2>1, <2>2, <2>3
<1>3. ASSUME NEW p \in Pullers, PullTx(p) PROVE MarkInv'
  <2>1. /\ UNCHANGED <<row, data, book, running, loop, past>> /\ Others(p)
        /\ pull[p].pc = "tx"
        /\ \/ pull'[p].pc = "note"
           \/ /\ pull'[p].pc = "commit" /\ pull'[p].snap = pull[p].snap
              /\ pull[p].why \subseteq pull'[p].why
    BY <1>3, TxFrame DEF Same
  <2>2. CASE pull'[p].pc = "note"
    BY <2>1, <2>2, MarkFramed, PcFacts DEF StillFrame, Others, MarkInv, RecordsInv
  <2>3. CASE pull'[p].pc = "commit"
    <3>1. \A q \in Pullers \ {p} : pull'[q].pc \notin Busy
      BY <2>1, Alone, PcFacts DEF Others, Busy
    <3>2. ~Settling
      BY <2>1, Alone, PcFacts DEF Settling, Busy
    <3>3. Slave => \/ pull'[p].why \cap ReloadReasons # {} \/ past.erased
                   \/ running = Rows(p)
      BY <2>1, <2>3 DEF MarkInv, LoadsInv
    <3>4. LoadsInv'
      BY <2>1, <2>3, <3>1, <3>3, PcFacts DEF LoadsInv, Slave, Rows, Busy
    <3>5. Sound => Sound' BY <2>1, SoundKept DEF StillFrame
    <3>6. RecordsInv' /\ FilesInv'
      BY <2>1, <2>3, <3>1, PcFacts DEF MarkInv, RecordsInv, FilesInv, Busy
    <3> QED BY <2>1, <3>2, <3>4, <3>5, <3>6 DEF MarkInv, Slave
  <2> QED BY <2>1, <2>2, <2>3
<1>4. ASSUME NEW p \in Pullers, PullCommit(p) PROVE MarkInv'
  <2>1. pull[p].pc = "commit" /\ Slave
    BY <1>4, PcFacts DEF PullCommit, TopologyInv, SameTopology
  <2>2. /\ Others(p) /\ UNCHANGED <<book, running, loop>> /\ row'.role = row.role
        /\ past'.erased = past.erased
        /\ \/ /\ pull'[p].pc = "branding" /\ pull'[p].snap = pull[p].snap
              /\ pull'[p].why = pull[p].why /\ ~past'.unseen
           \/ pull'[p].pc = "note" /\ UNCHANGED <<row, data, past>>
           \/ /\ pull'[p].pc = "note" /\ row'.error = "uncertain"
              /\ ~past'.unseen \/ UNCHANGED <<data, past>>
    BY <1>4, <2>1, CommitFrame DEF Same
  <2>3. \A q \in Pullers \ {p} : pull'[q].pc \notin Busy
    BY <2>1, <2>2, Alone, PcFacts DEF Others, Busy
  <2>4. past'.unseen => data'.content = 0
    BY <2>2 DEF MarkInv
  <2>5. RecordsInv'
    BY <2>2, <2>3, PcFacts DEF MarkInv, RecordsInv, Busy
  <2>6. FilesInv'
    BY <2>2, <2>3, PcFacts DEF FilesInv, Busy
  <2>7. LoadsInv'
    <3>1. pull'[p].pc = "branding" =>
             \/ pull'[p].why \cap ReloadReasons # {} \/ past'.erased
             \/ running' = Rows(p)'
      BY <2>1, <2>2 DEF MarkInv, LoadsInv, Rows
    <3> QED BY <2>2, <2>3, <3>1, PcFacts DEF LoadsInv, Busy
  <2>8. ~Settling' => Sound' \/ (Slave' /\ row'.error \in Hard)
    <3>1. ~Settling
      BY <2>1, Alone, PcFacts DEF Settling, Busy
    <3>2. UNCHANGED <<row, data, past>> => (Sound => Sound')
      BY <2>2, SoundKept DEF StillFrame
    <3>3. pull'[p].pc = "branding" => Settling' BY PcFacts DEF Settling
    <3> QED BY <2>1, <2>2, <3>1, <3>2, <3>3 DEF MarkInv, Slave, Hard
  <2> QED BY <2>4, <2>5, <2>6, <2>7, <2>8 DEF MarkInv
<1>5. ASSUME NEW p \in Pullers, PullBranding(p) \/ PullHashes(p) \/ PullFiles(p)
      PROVE  MarkInv'
  <2>1. /\ Others(p) /\ UNCHANGED <<data, running, loop>> /\ row'.role = row.role
        /\ row'.applied = row.applied
        /\ past'.erased = past.erased /\ past'.unseen = past.unseen
        /\ pull[p].pc \in {"branding", "hashes", "files"}
        /\ pull'[p].pc \in {"hashes", "files", "load"}
        /\ pull[p].why \subseteq pull'[p].why /\ pull'[p].snap = pull[p].snap
    BY <1>5, BrandingFrame, HashesFrame, FilesFrame DEF Same
  <2>2. \A q \in Pullers \ {p} : pull'[q].pc \notin Busy
    BY <2>1, Alone, PcFacts DEF Others, Busy
  <2>3. Settling' BY <2>1, PcFacts DEF Settling
  <2>4. RecordsInv'
    BY <2>1, <2>2, PcFacts DEF MarkInv, RecordsInv, Busy
  <2>5. LoadsInv'
    <3>1. Slave => \/ pull'[p].why \cap ReloadReasons # {} \/ past'.erased
                   \/ running' = Rows(p)'
      BY <2>1, PcFacts DEF MarkInv, LoadsInv, Rows
    <3> QED BY <2>1, <2>2, <3>1, PcFacts DEF LoadsInv, Slave, Busy
  <2>6. FilesInv'
    <3>1. pull'[p].pc \in {"files", "load"} /\ row'.applied # 0 =>
             past'.unbooked \/ book'.files = pull'[p].snap
      <4>1. CASE PullBranding(p) BY <4>1, BrandingFrame
      <4>2. CASE PullHashes(p) BY <2>1, <4>2, HashesFrame
      <4>3. CASE PullFiles(p) BY <2>1, <4>3, FilesFrame DEF MarkInv, FilesInv
      <4> QED BY <1>5, <4>1, <4>2, <4>3
    <3> QED BY <2>2, <3>1, PcFacts DEF FilesInv, Busy
  <2> QED BY <2>1, <2>3, <2>4, <2>5, <2>6 DEF MarkInv
<1>6. ASSUME NEW p \in Pullers, PullLoad(p) PROVE MarkInv'
  <2>1. /\ pull[p].pc = "load" /\ pull'[p].pc = "note" /\ Others(p)
        /\ UNCHANGED <<data, book, loop>>
        /\ row'.role = row.role /\ row'.applied = row.applied
        /\ past'.unbooked = past.unbooked /\ past'.unseen = past.unseen
        /\ past'.erased = (past.erased /\ ~MustReload(p))
        /\ \/ running' = data.content
           \/ ~MustReload(p) /\ UNCHANGED <<row, running>>
           \/ Slave /\ row'.error = "reload"
           \/ ~Slave
    BY <1>6, LoadFrame
  <2>2. \A q \in Pullers : pull'[q].pc \notin Working \cup {"write"}
    BY <2>1, Alone, PcFacts DEF Others, Busy
  <2>3. RecordsInv' /\ LoadsInv' /\ FilesInv'
    BY <2>1, <2>2, PcFacts DEF MarkInv, RecordsInv, LoadsInv, FilesInv
  <2>4. Filed'
    BY <2>1, PcFacts DEF Filed, MarkInv, FilesInv, BookInv
  <2>5. Loaded' \/ (Slave' /\ row'.error \in Hard)
    <3>1. CASE running' = data.content BY <2>1, <3>1 DEF Loaded
    <3>2. CASE ~MustReload(p) /\ UNCHANGED <<row, running>>
      <4>1. pull[p].why \cap ReloadReasons = {} BY <3>2 DEF MustReload, ReloadReasons
      <4>2. Slave => past.erased \/ running = data.content
        BY <2>1, <4>1, PcFacts DEF MarkInv, LoadsInv, BookInv
      <4> QED BY <2>1, <3>2, <4>2 DEF Loaded, Slave
    <3>3. CASE Slave /\ row'.error = "reload" BY <2>1, <3>3 DEF Slave, Hard
    <3>4. CASE ~Slave BY <2>1, <3>4 DEF Loaded, Slave
    <3> QED BY <2>1, <3>1, <3>2, <3>3, <3>4
  <2> QED BY <2>1, <2>3, <2>4, <2>5 DEF MarkInv, Sound
<1>7. ASSUME NEW p \in Pullers, PullNote(p) PROVE MarkInv'
  <2>1. /\ pull[p].pc = "note" /\ pull'[p].pc = "write" /\ Others(p)
        /\ pull'[p].result = pull[p].result
        /\ \E t : pull'[p].message = Message(pull[p].result, t)
        /\ UNCHANGED <<row, data, book, running, loop, past>>
    BY <1>7, NoteFrame
  <2>2. \A q \in Pullers \ {p} : pull'[q].pc \notin Busy
    BY <2>1, Alone, PcFacts DEF Others, Busy
  <2>3. ~Settling
    BY <2>1, Alone, PcFacts DEF Settling, Busy
  <2>4. Sound => Sound' BY <2>1, SoundKept DEF StillFrame
  <2>5. ASSUME pull'[p].result \notin {"lost", "halt"},
               pull'[p].message \notin Hard \cup {"skip"}
        PROVE  Sound'
    <3>1. pull[p].result \in {"ok", "kept", "quiet"}
      BY <2>1, <2>5 DEF TypeOK, PullType, Results
    <3>2. row.error \notin Hard BY <2>1, <2>5, <3>1, HardKept
    <3> QED BY <2>3, <2>4, <3>2 DEF MarkInv
  <2>6. RecordsInv'
    BY <2>1, <2>2, <2>5, PcFacts DEF MarkInv, RecordsInv, Busy
  <2>7. LoadsInv' /\ FilesInv'
    BY <2>1, <2>2, PcFacts DEF LoadsInv, FilesInv, Busy
  <2> QED BY <2>1, <2>3, <2>4, <2>6, <2>7 DEF MarkInv, Slave
<1>8. ASSUME NEW p \in Pullers, PullWrite(p) PROVE MarkInv'
  <2>1. /\ pull[p].pc = "write" /\ pull'[p].pc \in {"idle", "resume"} /\ Others(p)
        /\ loop' = loop \/ loop'.pc \in {"off", "report", "load"}
        /\ StillFrame
        /\ row' = row \/ (/\ Slave /\ pull[p].message # "skip"
                          /\ row'.error = pull[p].message)
        /\ Slave /\ Marked /\ pull[p].result \in {"lost", "halt"} => past'.erased
    BY <1>8, WriteFrame DEF StillFrame
  <2>2. \A q \in Pullers : pull'[q].pc \notin Working \cup {"write"}
    BY <2>1, Alone, PcFacts DEF Others, Busy
  <2>3. ~Settling
    BY <2>1, Alone, PcFacts DEF Settling, Busy
  <2>4. RecordsInv' /\ LoadsInv' /\ FilesInv'
    BY <2>1, <2>2, PcFacts DEF MarkInv, RecordsInv, LoadsInv, FilesInv
  <2>5. Sound' \/ (Slave' /\ row'.error \in Hard)
    <3>1. Sound => Sound' BY <2>1, SoundKept
    <3>2. past'.erased => Sound' BY DEF Sound, Loaded, Filed
    <3>3. Slave' = Slave BY <2>1 DEF StillFrame, Slave
    <3>4. CASE row' = row BY <2>3, <3>1, <3>3, <3>4 DEF MarkInv
    <3>5. CASE pull[p].result \in {"lost", "halt"} /\ Slave
      BY <2>1, <2>3, <3>1, <3>2, <3>5 DEF MarkInv, Marked, Markers, Hard
    <3>6. CASE /\ pull[p].result \notin {"lost", "halt"} /\ Slave
               /\ pull[p].message # "skip" /\ row'.error = pull[p].message
      BY <2>1, <3>1, <3>3, <3>6 DEF MarkInv, RecordsInv
    <3> QED BY <2>1, <3>4, <3>5, <3>6
  <2> QED BY <2>1, <2>4, <2>5 DEF MarkInv, StillFrame
<1>9. CASE PullManual \/ LoopLoad
  <2>1. /\ UNCHANGED <<row, data, book, running, past>>
        /\ \A p \in Pullers : \/ pull'[p] = pull[p]
                              \/ /\ pull'[p].pc = "lock"
                                 /\ pull[p].pc = "idle" \/ loop.pc = "load"
    BY <1>9, AdmitFrame DEF Others, Pullers
  <2>2. loop.pc = "load" => pull["loop"].pc = "idle" BY DEF MutexInv
  <2>3. \A p \in Pullers : \/ pull'[p] = pull[p]
                           \/ pull'[p].pc = "lock" /\ pull[p].pc = "idle"
    BY <1>9, <2>1, <2>2, AdmitFrame DEF Others, Pullers
  <2>4. \/ loop' = loop \/ loop'.pc # "write" \/ LoopNote("kept")
    BY <1>9, AdmitFrame
  <2>5. loop'.pc = "write" /\ loop'.saw \in Hard => loop'.message \in {loop'.saw, "skip"}
    BY <2>4, NoteKept DEF MarkInv, RecordsInv
  <2> QED BY <2>1, <2>3, <2>5, MarkFramed, PcFacts DEF StillFrame
<1>10. CASE LoopPolled
  <2>1. /\ StillFrame /\ UNCHANGED pull /\ row'.error = row.error /\ loop'.pc = "load"
    BY <1>10, PolledFrame DEF StillFrame
  <2> QED BY <2>1, MarkFramed
<1>11. CASE LoopReport
  <2>1. /\ StillFrame /\ UNCHANGED <<row, pull>> /\ \E r \in {"ok", "kept"} : LoopNote(r)
    BY <1>11, ReportFrame DEF StillFrame
  <2>2. loop'.saw \in Hard => loop'.message \in {loop'.saw, "skip"}
    BY <2>1, NoteKept
  <2> QED BY <2>1, <2>2, MarkFramed
<1>12. CASE LoopWrite
  <2>1. /\ StillFrame /\ UNCHANGED pull /\ loop.pc = "write" /\ loop'.pc = "load"
        /\ row' = row \/ (Slave /\ loop.message # "skip" /\ row'.error = loop.message)
        /\ Slave /\ Marked /\ loop.message # "skip" /\ loop.saw # row.error
             => past'.erased
    BY <1>12, LoopWriteFrame DEF StillFrame
  <2>2. Slave /\ row.error \in Hard => row'.error \in Hard \/ past'.erased
    BY <2>1 DEF MarkInv, RecordsInv, Marked, Markers, Hard
  <2> QED BY <2>1, <2>2, MarkFramed
<1>13. CASE Quiet
  <2>1. /\ StillFrame /\ UNCHANGED row
        /\ \A p \in Pullers : pull'[p] = pull[p] \/ pull'[p].pc = "idle"
        /\ pull'["loop"] = pull["loop"]
        /\ \/ loop' = loop \/ loop'.pc \in {"off", "load"}
           \/ /\ loop'.pc = loop.pc /\ loop'.message = loop.message
              /\ loop'.saw = loop.saw
    BY <1>13, QuietFrame DEF StillFrame
  <2>2. \A p \in Pullers : \/ pull'[p] = pull[p]
                           \/ pull'[p].pc = "idle" /\ pull[p].pc \notin Effects
    BY <1>13, <2>1, QuietPulls, PcFacts
  <2>3. loop'.pc = "write" /\ loop'.saw \in Hard => loop'.message \in {loop'.saw, "skip"}
    BY <2>1 DEF MarkInv, RecordsInv
  <2> QED BY <2>1, <2>2, <2>3, MarkFramed, PcFacts
<1>14. CASE PromoteCommit \/ DemoteCommit
  <2>1. /\ UNCHANGED <<data, running, loop, pull, past>> /\ row'.applied = 0
        /\ flip.pc = "commit" /\ book'.sections = Unset
    BY <1>14, FlipFrame
  <2>2. \A p \in Pullers : pull[p].pc \in {"tx", "commit"} \cup Effects => Slave
    BY <2>1, PcFacts DEF TopologyInv, SameTopology, Crossed
  <2>3. Sound' BY <2>1 DEF Sound, Loaded, Filed
  <2>4. LoadsInv' BY <2>1, <2>2 DEF MarkInv, LoadsInv, Rows
  <2>5. RecordsInv' /\ FilesInv'
    BY <2>1, <2>3 DEF MarkInv, RecordsInv, FilesInv
  <2> QED BY <2>1, <2>3, <2>4, <2>5 DEF MarkInv
<1>16. CASE Edit
  <2>1. /\ ~Slave /\ data'.content = 0 /\ UNCHANGED <<row, book, loop, pull, past>>
    BY <1>16 DEF Edit
  <2>2. Sound => Sound' BY <2>1 DEF Sound, Loaded, Filed, Slave
  <2>3. LoadsInv' /\ FilesInv' BY <2>1 DEF MarkInv, LoadsInv, FilesInv, Slave
  <2>4. RecordsInv' BY <2>1, <2>2 DEF MarkInv, RecordsInv
  <2>5. Settling' <=> Settling BY <2>1 DEF Settling
  <2> QED BY <2>1, <2>2, <2>3, <2>4, <2>5 DEF MarkInv, Slave
<1>17. CASE Damage
  <2>1. /\ ~Settling /\ ~Drifted /\ data'.content = 0
        /\ UNCHANGED <<row, book, running, loop, pull>>
    BY <1>17 DEF Damage, TypeOK, DataType
  <2>2. /\ past'.erased = past.erased /\ past'.unbooked = past.unbooked
        /\ past'.unseen = (past.unseen \/ book.sections = Unset)
    BY <1>17 DEF Damage, TypeOK, PastType
  <2>3. Filed => Filed' BY <2>1, <2>2 DEF Filed
  <2>4. Loaded => Loaded' BY <2>1, <2>2 DEF Loaded, Drifted, Slave
  <2>5. LoadsInv' /\ FilesInv'
    BY <2>1, <2>2 DEF MarkInv, LoadsInv, FilesInv, Rows, Slave
  <2>6. RecordsInv' BY <2>1, <2>3, <2>4 DEF MarkInv, RecordsInv, Sound
  <2> QED BY <2>1, <2>2, <2>3, <2>4, <2>5, <2>6 DEF MarkInv, Sound, Slave
<1>18. CASE Restart
  <2>1. /\ UNCHANGED <<data, book>> /\ loop'.pc = "off"
        /\ \A p \in Pullers : pull'[p].pc = "idle"
        /\ row'.role = row.role /\ row'.applied = row.applied
        /\ past'.erased = past.erased /\ past'.unseen = past.unseen
        /\ past'.unbooked = (past.unbooked \/ Unbooked)
        /\ \/ running' = data.content /\ UNCHANGED row
           \/ running' = running /\ (Slave => row'.error = "reload")
    BY <1>18, RestartFrame
  <2>2. RecordsInv' /\ LoadsInv' /\ FilesInv'
    BY <2>1, PcFacts DEF RecordsInv, LoadsInv, FilesInv
  <2>3. CASE Slave' /\ row'.error \in Hard
    BY <2>1, <2>2, <2>3 DEF MarkInv
  <2>4. CASE ~(Slave' /\ row'.error \in Hard)
    <3>1. Slave => running' = data.content /\ row.error \notin Hard
      BY <2>1, <2>4 DEF Slave, Hard
    <3>2. Loaded' BY <2>1, <3>1 DEF Loaded, Slave
    <3>3. Filed'
      <4>1. CASE ~Settling
        <5>1. Filed BY <3>1, <4>1 DEF MarkInv, Sound
        <5> QED BY <2>1, <5>1 DEF Filed
      <4>2. CASE Settling
        <5>1. PICK p \in Pullers : pull[p].pc \in Effects BY <4>2 DEF Settling
        <5>2. row.applied # 0 => row.applied = pull[p].snap
          BY <5>1 DEF BookInv
        <5>3. Unbooked \/ pull[p].pc \in {"files", "load"}
          BY <5>1, PcFacts DEF Unbooked
        <5> QED BY <2>1, <5>2, <5>3 DEF Filed, MarkInv, FilesInv
      <4> QED BY <4>1, <4>2
    <3> QED BY <2>1, <2>2, <3>2, <3>3 DEF MarkInv, Sound
  <2> QED BY <2>3, <2>4
<1> QED
  BY <1>1, <1>2, <1>3, <1>4, <1>5, <1>6, <1>7, <1>8, <1>9, <1>10, <1>11, <1>12, <1>13,
     <1>14, <1>16, <1>17, <1>18
  DEF Next, PullStep, LoopStep, TaskStep, FlipStep, Quiet

LEMMA MarkHolds == Spec => [](TypeOK /\ MarkInv)
<1>1. Init => BookInv /\ MarkInv
  <2>1. ASSUME Init PROVE \A p \in Pullers : pull[p].pc = "idle"
    BY <2>1 DEF Init, NoPull
  <2>2. ASSUME Init PROVE BookInv /\ MarkInv
    BY <2>1, <2>2, PcFacts
    DEF Init, BookInv, MarkInv, Sound, Loaded, Filed, RecordsInv, LoadsInv, FilesInv,
        NoLoop
  <2> QED BY <2>2
<1> QED BY <1>1, BookNext, MarkNext, TopologyHolds, SyncTypeCorrect, PTL DEF Spec

\* A slave whose Caddy does not run its rows carries a marker, or a later pull
\* sees it anyway: every other record leaves the marker alone (recordSyncError),
\* except an error that needs the administrator and a record of the loop that
\* was decided before the marker was set.
THEOREM DivergenceIsMarked == Spec => []DivergenceMarked
<1>1. MarkInv => DivergenceMarked
  BY DEF MarkInv, DivergenceMarked, Sound, Loaded, Hard, Marked, Markers
<1> QED BY <1>1, MarkHolds, PTL

\* A rule file that was not fetched is not forgotten once the bookkeeping of its
\* snapshot is done (wafFilesDrifted compares it again), wherever a pull fails
\* or the process stops.
THEOREM FilesAreAccounted == Spec => []FilesAccounted
<1>1. TypeOK /\ MarkInv => FilesAccounted
  <2>1. TypeOK => row.applied # Unset
    BY SyncAssumption DEF TypeOK, RowType, Content, Unset
  <2> QED
    BY <2>1 DEF MarkInv, FilesAccounted, FilesCompared, Sound, Filed, FilesDrifted, Hard,
                Marked, Markers
<1> QED BY <1>1, MarkHolds, PTL

=============================================================================
