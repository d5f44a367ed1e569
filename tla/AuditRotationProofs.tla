------------------------ MODULE AuditRotationProofs ------------------------
(***************************************************************************)
(* Theorems about AuditRotation: types and NothingLost, for any number of  *)
(* lines, faults and rotations, every threshold and every backlog limit.   *)
(***************************************************************************)
EXTENDS AuditRotation, SequenceTheorems, TLAPS

-----------------------------------------------------------------------------
(* The inductive invariant.                                                *)

Lost    == late \cup cut \cup passed
Safe(p) == p \in db \cup Lost

\* A line that is whole, or may still become so: it must not be passed over
\* before its rest has arrived.
Open(p) ==
    /\ stream[p] = "head"
    /\ p = Len(stream) \/ stream[p + 1] = "rest"
    /\ p - 1 \in cuts \/ (p > 1 /\ stream[p - 1] = "rest")
    /\ p \notin cuts

Opens == {p \in 1..Len(stream) : Open(p)}

\* The live file begins at the last truncation, and no truncation lies inside
\* the archive.
CutsInv == base \in cuts /\ \A c \in cuts : c \in Nat /\ c <= base

ArchInv ==
    /\ arch.lo <= arch.hi /\ arch.hi <= Len(stream)
    /\ \A c \in cuts : c <= arch.lo \/ arch.hi <= c

\* Below the offset everything was ingested.
OffsetInv == \A p \in Opens : base < p /\ p <= base + offset => Safe(p)

\* What is no longer in the live file was ingested, or the marker covers it.
Settled     == \A p \in Opens : p <= base => Safe(p)
ArchivedInv == \A p \in Opens : p <= base => Safe(p) \/ InDelta(p)

\* A marker that is not of the archive is a left-over.
MarkerInv == marker # None /\ ArchSize # marker.size => Settled

FileInv == CutsInv /\ ArchInv /\ OffsetInv /\ ArchivedInv /\ MarkerInv

\* The rotation is at one of the steps, or in a pass of one of the kinds.
At(steps, kinds) ==
    pc \in steps \/ (pc \in {"pass", "ret"} /\ pass.kind \in kinds)

\* The rotation owes nothing to an earlier marker once it goes on.
SettledInv ==
    At({"size", "copy", "shift", "promote", "tail", "final", "mark", "trunc"},
       {"gate", "tail"}) => Settled

\* Before the start of the delta everything was ingested.
StartInv ==
    At({"copy", "shift", "promote", "tail", "final", "mark", "trunc"},
       {"gate", "tail"}) =>
        /\ \A p \in Opens : base < p /\ p <= base + rot.start => Safe(p)
        /\ rot.start <= offset \/ base + rot.start <= Len(stream)
        /\ base + 2 <= Len(stream)

StagedInv ==
    pc \in {"shift", "promote"} =>
        base + 2 <= rot.staged /\ rot.staged <= Len(stream)

\* What the copy does not hold whole was ingested as far as was reached, once
\* the first tail pass made progress.
TailInv ==
    At({"tail", "final", "mark", "trunc"}, {"tail"}) =>
        /\ arch.lo = base /\ base + 2 <= arch.hi
        /\ arch.hi <= base + rot.reached /\ base + rot.reached <= Len(stream)
        /\ arch.hi < base + rot.reached =>
             \A p \in Opens : arch.hi <= p /\ p <= base + rot.reached => Safe(p)
        /\ rot.round > 0 => arch.hi < base + rot.reached
        /\ pc \in {"pass", "ret"} => rot.round < Rounds

FinInv == pc \in {"mark", "trunc"} => rot.fin = rot.reached

\* The marker is the one of this rotation.
DeltaInv ==
    At({"trunc", "reset", "delta"}, {"rotated"}) =>
        marker = [from |-> rot.start, size |-> ArchSize]

RotInv == SettledInv /\ StartInv /\ StagedInv /\ TailInv /\ FinInv /\ DeltaInv

\* The lines a pass is responsible for, and what it did about them.
Live == pass.kind \in {"tick", "gate", "tail"}

Scope(p) ==
    IF pass.kind \in {"tick", "gate"} THEN base < p
    ELSE IF pass.kind = "tail" THEN arch.hi <= p
    ELSE arch.lo + marker.from < p /\ p + 1 <= arch.hi

\* Nothing is truncated between the stat of a tick and its use.
InfoInv == pc = "tick" => base + tail.info <= Len(stream)

PassInv ==
    pc \in {"pass", "ret"} =>
        /\ pass.kind \in Kinds /\ pass.lo <= pass.done /\ pass.done <= pass.cur
        /\ pass.lo = IF Live THEN base ELSE arch.lo
        /\ Live => pass.cur <= Len(stream)
        /\ ~Live => marker # None
        /\ pc = "ret" => pass.batch = {}

CoverInv ==
    pc \in {"pass", "ret"} =>
        \A p \in Opens : Scope(p) =>
            /\ p <= pass.cur => p \in pass.batch \/ Safe(p)
            /\ p <= pass.done => Safe(p)

EndInv ==
    pc = "ret" /\ ~Live /\ ~pass.err => \A p \in Opens : Scope(p) => Safe(p)

ReadInv == PassInv /\ CoverInv /\ EndInv

IInv == TypeOK /\ FileInv /\ RotInv /\ InfoInv /\ ReadInv

-----------------------------------------------------------------------------
(* What steps leave alone.                                                 *)

\* As long as nothing is written and nothing truncated the lines are the same.
LEMMA SameLines ==
    ASSUME UNCHANGED <<stream, cuts>>
    PROVE  Opens' = Opens
BY DEF Opens, Open

\* Ingesting more keeps everything that was said about the files.
LEMMA FilesStay ==
    ASSUME FileInv, UNCHANGED <<stream, cuts, late, cut, passed, files>>,
           db \subseteq db'
    PROVE  /\ FileInv' /\ Opens' = Opens /\ (Settled => Settled')
           /\ \A p \in Opens : Safe(p) => Safe(p)'
<1>1. Opens' = Opens
  BY SameLines
<1>2. \A p \in Opens : Safe(p) => Safe(p)'
  BY DEF Safe, Lost
<1>3. CutsInv' /\ ArchInv'
  BY DEF FileInv, CutsInv, ArchInv, files
<1>4. OffsetInv'
  BY <1>1, <1>2 DEF FileInv, OffsetInv, files
<1>5. Settled => Settled'
  BY <1>1, <1>2 DEF Settled, files
<1>6. ArchivedInv'
  BY <1>1, <1>2 DEF FileInv, ArchivedInv, InDelta, files
<1>7. MarkerInv'
  BY <1>5 DEF FileInv, MarkerInv, ArchSize, files
<1> QED BY <1>1, <1>2, <1>3, <1>4, <1>5, <1>6, <1>7 DEF FileInv

\* Between polls, in a tick that does not read, and at the entry of the
\* rotation nothing is claimed about a pass or a rotation.
LEMMA AtRest ==
    ASSUME pc' \in {"idle", "tick", "rot"}
    PROVE  RotInv' /\ ReadInv' /\ (pc' # "tick" => InfoInv')
BY DEF RotInv, ReadInv, InfoInv, SettledInv, StartInv, StagedInv, TailInv, FinInv, DeltaInv,
       PassInv, CoverInv, EndInv, At

\* A step of a pass keeps what is claimed about the rotation around it.
LEMMA PassKeepsRotation ==
    ASSUME IInv, pc = "pass", pc' \in {"pass", "ret"}, pass'.kind = pass.kind,
           UNCHANGED <<stream, cuts, late, cut, passed, files, rot>>, db \subseteq db'
    PROVE  RotInv'
<1>1. /\ Opens' = Opens /\ (Settled => Settled')
      /\ \A p \in Opens : Safe(p) => Safe(p)'
  BY FilesStay DEF IInv
<1>3. SettledInv'
  BY <1>1 DEF IInv, RotInv, SettledInv, At
<1>4. StartInv'
  BY <1>1 DEF IInv, RotInv, StartInv, At, files
<1>5. StagedInv' /\ FinInv'
  BY DEF StagedInv, FinInv
<1>6. TailInv'
  BY <1>1 DEF IInv, RotInv, TailInv, At, files
<1>7. DeltaInv'
  BY <1>1 DEF IInv, RotInv, DeltaInv, At, ArchSize, files
<1> QED BY <1>3, <1>4, <1>5, <1>6, <1>7 DEF RotInv

-----------------------------------------------------------------------------
(* The writer.                                                             *)

LEMMA HeadLines ==
    ASSUME TypeOK, stream' = Append(stream, "head"), UNCHANGED cuts
    PROVE  /\ stream' \in Seq({"head", "rest"}) /\ Len(stream') = Len(stream) + 1
           /\ \A p \in Opens' : p \in Opens \/ p = Len(stream) + 1
<1>1. /\ stream' \in Seq({"head", "rest"})
      /\ Len(stream) \in Nat /\ Len(stream') = Len(stream) + 1
      /\ \A i \in 1..Len(stream) : stream'[i] = stream[i]
      /\ stream'[Len(stream) + 1] = "head"
  BY AppendProperties, LenProperties, "head" \in {"head", "rest"} DEF TypeOK
<1>2. ASSUME NEW p \in Opens', p # Len(stream) + 1
      PROVE  p \in Opens
  <2>1. p \in 1..Len(stream) /\ Open(p)'
    BY <1>1, <1>2 DEF Opens
  <2>2. p # Len(stream)
    BY <1>1, <2>1 DEF Open
  <2>3. Open(p)
    BY <1>1, <2>1, <2>2 DEF Open
  <2> QED BY <2>1, <2>3 DEF Opens
<1> QED BY <1>1, <1>2

LEMMA RestLines ==
    ASSUME TypeOK, stream' = Append(stream, "rest"), UNCHANGED cuts
    PROVE  /\ stream' \in Seq({"head", "rest"}) /\ Len(stream') = Len(stream) + 1
           /\ Opens' \subseteq Opens
<1>1. /\ stream' \in Seq({"head", "rest"})
      /\ Len(stream) \in Nat /\ Len(stream') = Len(stream) + 1
      /\ \A i \in 1..Len(stream) : stream'[i] = stream[i]
      /\ stream'[Len(stream) + 1] = "rest"
  BY AppendProperties, LenProperties, "rest" \in {"head", "rest"} DEF TypeOK
<1>2. ASSUME NEW p \in Opens'
      PROVE  p \in Opens
  <2>1. p \in 1..Len(stream) /\ Open(p)'
    BY <1>1, <1>2 DEF Opens, Open
  <2>3. Open(p)
    BY <1>1, <2>1 DEF Open
  <2> QED BY <2>1, <2>3 DEF Opens
<1> QED BY <1>1, <1>2

\* A step of the writer, whatever it appends: a line that is new begins after
\* everything anybody has read or is on record as passed over.
LEMMA WriterKeeps ==
    ASSUME IInv, TypeOK', Len(stream') \in {Len(stream), Len(stream) + 1},
           \A p \in Opens' : p \in Opens \/ (p = Len(stream) + 1
                                  /\ (p <= base + offset => p \in passed')),
           passed \subseteq passed',
           UNCHANGED <<files, db, pc, tail, pass, rot, late, cut, cuts>>
    PROVE  IInv'
<1>1. \A p : Safe(p) => Safe(p)'
  BY DEF Safe, Lost
<1>2. /\ base \in Nat /\ offset \in Nat /\ Len(stream) \in Nat /\ rot.start \in Nat
      /\ rot.reached \in Nat /\ pass.cur \in Nat /\ pass.done \in Nat
      /\ arch.hi \in Nat /\ arch.lo \in Nat /\ base <= Len(stream)
  BY LenProperties DEF IInv, TypeOK, RotType, PassType
<1>3. CutsInv' /\ ArchInv' /\ DeltaInv' /\ FinInv' /\ StagedInv' /\ PassInv'
  <2>1. CutsInv' /\ FinInv'
    BY DEF IInv, FileInv, RotInv, CutsInv, FinInv, files
  <2>2. ArchInv'
    BY <1>2 DEF IInv, FileInv, ArchInv, files
  <2>4. DeltaInv'
    BY DEF IInv, RotInv, DeltaInv, ArchSize, At, files
  <2>5. StagedInv'
    BY SMTT(40), <1>2 DEF IInv, TypeOK, RotType, RotInv, StagedInv, files
  <2>3. PassInv'
    BY <1>2 DEF IInv, ReadInv, PassInv, Live, files
  <2> QED BY <2>1, <2>2, <2>3, <2>4, <2>5
<1>4. OffsetInv'
  BY <1>1, <1>2 DEF IInv, FileInv, OffsetInv, Safe, Lost, files
<1>5. Settled => Settled'
  BY <1>1, <1>2 DEF Settled, files
<1>6. ArchivedInv' /\ MarkerInv'
  BY <1>1, <1>2, <1>5 DEF IInv, FileInv, ArchivedInv, MarkerInv, InDelta, ArchSize, files
<1>7. SettledInv'
  BY <1>5 DEF IInv, RotInv, SettledInv, At
<1>8. StartInv'
  BY <1>1, <1>2 DEF IInv, RotInv, StartInv, At, Safe, Lost, files
<1>9. TailInv'
  BY <1>1, <1>2 DEF IInv, RotInv, TailInv, At, files
<1>10. CoverInv' /\ EndInv'
  <2>1. ASSUME NEW p \in Opens', Scope(p)', pc \in {"pass", "ret"}
        PROVE  \/ p \in Opens /\ Scope(p)
               \/ Live /\ ~(p <= pass.cur) /\ ~(p <= pass.done)
    BY <2>1, <1>2 DEF Scope, files, IInv, ReadInv, PassInv, Live, FileInv, ArchInv, Kinds
  <2>2. CoverInv'
    BY <2>1, <1>1 DEF IInv, ReadInv, CoverInv
  <2>3. EndInv'
    BY <2>1, <1>1 DEF IInv, ReadInv, EndInv, Live
  <2> QED BY <2>2, <2>3
<1>11. InfoInv'
  <2>1. tail.info \in Nat
    BY DEF IInv, TypeOK, TailType
  <2> QED BY <1>2, <2>1 DEF IInv, InfoInv, files
<1> QED BY <1>3, <1>4, <1>6, <1>7, <1>8, <1>9, <1>10, <1>11
        DEF IInv, FileInv, RotInv, ReadInv

LEMMA WriterStep == IInv /\ Writer => IInv'
<1> SUFFICES ASSUME IInv, Writer PROVE IInv'
  OBVIOUS
<1>1. CASE WriteHead
  <2>0. /\ stream' \in Seq({"head", "rest"}) /\ Len(stream') = Len(stream) + 1
        /\ Len(stream) \in Nat
    BY <1>1, HeadLines, LenProperties DEF IInv, TypeOK, WriteHead
  <2>4. base' \in 0..Len(stream')
    BY <1>1, <2>0 DEF IInv, TypeOK, WriteHead, files
  <2>5. passed' = passed \/ passed' = passed \cup {Len(stream) + 1}
    BY <1>1 DEF WriteHead
  <2>6. passed \subseteq Nat
    BY DEF IInv, TypeOK
  <2>3. passed' \subseteq Nat
    <3>1. Len(stream) + 1 \in Nat
      BY <2>0
    <3> QED BY <3>1, <2>5, <2>6
  <2>1. TypeOK'
    BY <1>1, <2>0, <2>3, <2>4 DEF IInv, TypeOK, WriteHead, files
  <2>2. \A p \in Opens' : p \in Opens \/ (p = Len(stream) + 1
                                /\ (p <= base + offset => p \in passed'))
    BY <1>1, HeadLines DEF IInv, WriteHead
  <2> QED BY <1>1, <2>1, <2>2, HeadLines, WriterKeeps DEF IInv, WriteHead
<1>2. CASE WriteRest
  <2>1. TypeOK'
    BY <1>2, RestLines, LenProperties DEF IInv, TypeOK, WriteRest, files, history
  <2> QED BY <1>2, <2>1, RestLines, WriterKeeps DEF IInv, WriteRest, history
<1>3. CASE Tear
  <2>1. TypeOK'
    BY <1>3, RotationAssumption DEF IInv, TypeOK, Tear, Fault, files, history
  <2>2. Opens' = Opens
    BY <1>3, SameLines DEF Tear, history
  <2> QED BY <1>3, <2>1, <2>2, WriterKeeps DEF IInv, Tear, history
<1> QED BY <1>1, <1>2, <1>3 DEF Writer

-----------------------------------------------------------------------------
(* The pass.                                                               *)

LEMMA NumberFacts ==
    ASSUME IInv
    PROVE  /\ Len(stream) \in Nat /\ base \in Nat /\ base <= Len(stream)
           /\ offset \in Nat /\ arch.lo \in Nat /\ arch.hi \in Nat
           /\ marker.from \in Nat /\ pass.lo \in Nat /\ pass.cur \in Nat
           /\ pass.done \in Nat /\ rot.pre \in Nat
           /\ rot.start \in Nat /\ rot.reached \in Nat /\ rot.fin \in Nat
           /\ rot.staged \in Nat /\ rot.round \in 0..3
           /\ tail.info \in Nat /\ tail.at \in Nat /\ tail.count \in Nat
BY LenProperties DEF IInv, TypeOK, RotType, PassType, TailType, Rounds

LEMMA FaultTyped == IInv /\ Fault => faults' \in 0..MaxFaults
BY RotationAssumption DEF IInv, TypeOK, Fault

LEMMA BatchTyped == IInv => pass.batch \in SUBSET Nat
BY DEF IInv, TypeOK, PassType

LEMMA OpenFacts ==
    ASSUME IInv, NEW p \in Opens
    PROVE  /\ p \in Nat /\ p >= 1 /\ p <= Len(stream) /\ stream[p] = "head"
           /\ p = Len(stream) \/ stream[p + 1] = "rest"
           /\ p - 1 \in cuts \/ stream[p - 1] = "rest"
           /\ p # base
<1>1. p \in 1..Len(stream) /\ Open(p)
  BY DEF Opens
<1>2. base \in cuts
  BY DEF IInv, FileInv, CutsInv
<1>3. Len(stream) \in Nat
  BY NumberFacts
<1>4. p \in Nat /\ p >= 1 /\ p <= Len(stream)
  BY <1>1, <1>3
<1>5. /\ stream[p] = "head"
      /\ p = Len(stream) \/ stream[p + 1] = "rest"
      /\ p - 1 \in cuts \/ stream[p - 1] = "rest"
      /\ p \notin cuts
  BY <1>1 DEF Open
<1> QED BY <1>2, <1>4, <1>5

\* The decoder, or its scan, finds every readable line that is ahead.
LEMMA Found ==
    ASSUME IInv, pc = "pass", NEW p \in Opens, p > pass.cur, p + 1 <= End
    PROVE  /\ p = pass.cur + 1 => DocAt(pass.cur)
           /\ p # pass.cur + 1 => p \in Ahead(pass.cur)
<1>0. p \in Nat /\ pass.cur \in Nat /\ pass.lo \in Nat /\ pass.lo <= pass.cur
  BY SMTT(40), OpenFacts, NumberFacts DEF IInv, ReadInv, PassInv
<1>1. End <= Len(stream) /\ End \in Nat
  BY NumberFacts DEF End, IInv, FileInv, ArchInv
<1>2. stream[p + 1] = "rest"
  BY <1>1, OpenFacts, NumberFacts
<1>3. ASSUME p = pass.cur + 1
      PROVE  DocAt(pass.cur)
  BY <1>0, <1>1, <1>2, <1>3, OpenFacts DEF DocAt
<1>4. ASSUME p # pass.cur + 1
      PROVE  p \in Ahead(pass.cur)
  <2>1. p - 1 > pass.lo /\ p - 1 < End
    BY <1>0, <1>1, <1>4
  <2>2. p - 1 \notin cuts
    <3>1. CASE Live
      BY SMTT(40), <3>1, <2>1, OpenFacts, NumberFacts DEF IInv, ReadInv, PassInv, FileInv, CutsInv
    <3>2. CASE ~Live
      <4>1. End = arch.hi /\ pass.lo = arch.lo
        BY <3>2 DEF IInv, ReadInv, PassInv, Live, Kinds, End
      <4>2. \A c \in cuts : c <= arch.lo \/ arch.hi <= c
        BY DEF IInv, FileInv, ArchInv
      <4> QED BY <4>1, <4>2, <2>1, <1>0, <1>1
    <3> QED BY <3>1, <3>2
  <2>3. LineStart(p)
    BY <2>2, OpenFacts DEF LineStart
  <2> QED BY <2>3, <1>0, <1>1, <1>4 DEF Ahead
<1> QED BY <1>3, <1>4

\* What a step of the pass leaves to show.
LEMMA PassFrame ==
    ASSUME IInv, pc = "pass", pc' \in {"pass", "ret"}, pass'.kind = pass.kind,
           pass'.lo = pass.lo, pass' \in PassType, tail' \in TailType,
           faults' \in 0..MaxFaults, db' \subseteq Nat, db \subseteq db',
           UNCHANGED <<writer, files, rot, history>>, ReadInv'
    PROVE  IInv'
<1>1. TypeOK'
  BY DEF IInv, TypeOK, writer, files, history, Steps
<1>2. FileInv'
  BY FilesStay DEF IInv, writer, history
<1>3. RotInv'
  BY PassKeepsRotation DEF writer, history
<1> QED BY <1>1, <1>2, <1>3 DEF IInv, InfoInv

LEMMA ScopeStays ==
    ASSUME pass'.kind = pass.kind, UNCHANGED files
    PROVE  \A p : Scope(p)' <=> Scope(p)
BY DEF Scope, files

LEMMA DocStep ==
    ASSUME IInv, pc = "pass", DocAt(pass.cur),
           \/ /\ pass' = [pass EXCEPT !.batch = @ \cup {pass.cur + 1}, !.cur = @ + 2]
              /\ UNCHANGED <<db, pc, tail>>
           \/ /\ pass' = [pass EXCEPT !.batch = {}, !.cur = @ + 2,
                                      !.done = pass.cur + 2]
              /\ db' = db \cup pass.batch \cup {pass.cur + 1}
              /\ \/ UNCHANGED <<pc, tail>>
                 \/ /\ ~Archive /\ pc' = "ret"
                    /\ tail' = [tail EXCEPT !.bound = TRUE],
           UNCHANGED <<writer, files, rot, faults, history>>
    PROVE  IInv'
<1>1. /\ pass'.kind = pass.kind /\ pass'.lo = pass.lo /\ pass'.cur = pass.cur + 2
      /\ pass'.err = pass.err
      /\ \/ /\ pass'.batch = pass.batch \cup {pass.cur + 1}
            /\ pass'.done = pass.done /\ db' = db /\ pc' = "pass"
         \/ /\ pass'.batch = {} /\ pass'.done = pass.cur + 2
            /\ db' = db \cup pass.batch \cup {pass.cur + 1}
            /\ pc' = "pass" \/ (pc' = "ret" /\ pass.kind = "tick")
  BY DEF IInv, TypeOK, PassType, Archive
<1>2. pass.cur + 1 \in Nat /\ pass.cur + 2 \in Nat
  <2>1. pass.cur \in Nat
    BY NumberFacts
  <2> QED BY <2>1
<1>3. pass' \in PassType
  <2>1. pass.batch \cup {pass.cur + 1} \in SUBSET Nat
    BY <1>2, BatchTyped
  <2> QED BY <1>2, <2>1 DEF IInv, TypeOK, PassType
<1>4. tail' \in TailType
  BY DEF IInv, TypeOK, TailType
<1>5. db' \subseteq Nat /\ db \subseteq db' /\ faults' \in 0..MaxFaults
  BY <1>1, <1>2, BatchTyped DEF IInv, TypeOK
<1>6. Opens' = Opens /\ \A p : Scope(p)' <=> Scope(p)
  BY <1>1, SameLines, ScopeStays DEF writer, history
<1>7. pass.cur + 2 <= End /\ stream[pass.cur + 2] = "rest"
  BY DEF DocAt
<1>8. PassInv'
  <2>1. Live => pass.cur + 2 <= Len(stream)
    BY <1>7 DEF End, Live
  <2>2. pass.lo <= pass.done /\ pass.done <= pass.cur
    BY DEF IInv, ReadInv, PassInv
  <2>3. pass'.lo <= pass'.done /\ pass'.done <= pass'.cur
    BY SMTT(40), <1>1, <2>2, NumberFacts
  <2>4. pc' = "ret" => pass'.batch = {}
    BY <1>1
  <2> QED BY <1>1, <2>1, <2>3, <2>4 DEF IInv, ReadInv, PassInv, Live, writer, files
<1>9. CoverInv'
  <2>1. ASSUME NEW p \in Opens, Scope(p)
        PROVE  /\ p <= pass.cur + 2 => p \in pass.batch \cup {pass.cur + 1} \/ Safe(p)
               /\ p <= pass.done => Safe(p)
    <3>1. p # pass.cur + 2
      BY <1>7, OpenFacts
    <3>2. /\ p <= pass.cur => p \in pass.batch \/ Safe(p)
          /\ p <= pass.done => Safe(p)
      BY <2>1 DEF IInv, ReadInv, CoverInv
    <3>3. p \in Nat /\ pass.cur \in Nat
      BY OpenFacts, NumberFacts
    <3>4. p <= pass.cur + 2 => p <= pass.cur \/ p = pass.cur + 1
      BY <3>1, <3>3
    <3> QED BY <3>2, <3>4
  <2>2. \A p : p \in db' \/ Safe(p) => Safe(p)'
    BY <1>5 DEF Safe, Lost, history
  <2>3. CASE db' = db /\ pass'.done = pass.done /\ pass'.batch = pass.batch \cup {pass.cur + 1}
    BY <1>1, <1>6, <2>1, <2>2, <2>3 DEF CoverInv
  <2>4. CASE pass'.done = pass.cur + 2 /\ db' = db \cup pass.batch \cup {pass.cur + 1}
    BY <1>1, <1>6, <2>1, <2>2, <2>4 DEF CoverInv
  <2> QED BY <1>1, <2>3, <2>4
<1>10. EndInv'
  BY <1>1 DEF EndInv, Live
<1> QED BY <1>1, <1>3, <1>4, <1>5, <1>8, <1>9, <1>10, PassFrame DEF ReadInv

\* A pass that returns where it is, with what it holds committed.
LEMMA ReturnStep ==
    ASSUME IInv, pc = "pass", pc' = "ret", NEW e \in BOOLEAN,
           pass' = [pass EXCEPT !.batch = {}, !.done = pass.cur, !.err = e],
           db' = db \cup pass.batch, tail' \in TailType,
           Live \/ e \/ (~DocAt(pass.cur) /\ Ahead(pass.cur) = {}),
           faults' \in 0..MaxFaults, UNCHANGED <<writer, files, rot, history>>
    PROVE  IInv'
<1>1. /\ pass'.kind = pass.kind /\ pass'.lo = pass.lo /\ pass'.cur = pass.cur
      /\ pass'.done = pass.cur /\ pass'.batch = {} /\ pass'.err = e
  BY DEF IInv, TypeOK, PassType
<1>2. pass' \in PassType
  BY DEF IInv, TypeOK, PassType
<1>3. db' \subseteq Nat /\ db \subseteq db'
  BY BatchTyped DEF IInv, TypeOK
<1>4. Opens' = Opens /\ \A p : Scope(p)' <=> Scope(p)
  BY <1>1, SameLines, ScopeStays DEF writer, history
<1>5. PassInv'
  <2>1. pass.lo <= pass.cur /\ pass.cur <= pass.cur
    BY SMTT(40), NumberFacts DEF IInv, ReadInv, PassInv
  <2> QED BY <1>1, <2>1 DEF IInv, ReadInv, PassInv, Live, writer, files
<1>6. \A p : p \in pass.batch \/ Safe(p) => Safe(p)'
  BY DEF Safe, Lost, history
<1>7. CoverInv'
  BY <1>1, <1>4, <1>6 DEF IInv, ReadInv, CoverInv
<1>8. EndInv'
  <2> SUFFICES ASSUME ~Live, ~e, NEW p \in Opens, Scope(p)
               PROVE  Safe(p)'
    BY <1>1, <1>4 DEF EndInv, Live
  <2>1. CASE p <= pass.cur
    BY <2>1, <1>6 DEF IInv, ReadInv, CoverInv
  <2>2. CASE ~(p <= pass.cur)
    <3>1. p > pass.cur
      BY <2>2, OpenFacts, NumberFacts
    <3>2. p + 1 <= End
      BY DEF Scope, End, Live, IInv, ReadInv, PassInv, Kinds
    <3> QED BY <3>1, <3>2, Found
  <2> QED BY <2>1, <2>2
<1> QED BY <1>1, <1>2, <1>3, <1>5, <1>7, <1>8, PassFrame DEF ReadInv

LEMMA SkipStep == IInv /\ PassSkip => IInv'
<1> SUFFICES ASSUME IInv, PassSkip PROVE IInv'
  OBVIOUS
<1>0. PICK q \in FindNextDocument(pass.cur) :
         /\ pass' = [pass EXCEPT !.cur = q - 1]
         /\ tail' = IF Archive THEN tail
                    ELSE [tail EXCEPT !.at = q - 1 - pass.lo,
                                      !.count = StallLimit + 1]
  BY DEF PassSkip
<1>1. /\ pass'.kind = pass.kind /\ pass'.lo = pass.lo /\ pass'.cur = q - 1
      /\ pass'.done = pass.done /\ pass'.batch = pass.batch /\ pass'.err = pass.err
      /\ pc = "pass" /\ pc' = "pass" /\ ~DocAt(pass.cur)
      /\ UNCHANGED <<writer, files, db, rot, faults, history>>
  BY <1>0 DEF IInv, TypeOK, PassType, PassSkip
<1>2. /\ q \in Ahead(pass.cur) /\ \A r \in Ahead(pass.cur) : q <= r
      /\ End \in Nat /\ End <= Len(stream)
  BY NumberFacts DEF FindNextDocument, End, IInv, FileInv, ArchInv
<1>3. /\ q \in Nat /\ q >= pass.cur + 2 /\ q <= End /\ LineStart(q)
      /\ pass.cur \in Nat /\ pass.lo \in Nat /\ pass.lo <= pass.done
      /\ pass.done <= pass.cur /\ pass.done \in Nat
  <2>1. pass.cur \in Nat
    BY NumberFacts
  <2>2. q \in pass.cur + 2 .. End /\ LineStart(q)
    BY <1>2 DEF Ahead
  <2>3. q \in Nat /\ q >= pass.cur + 2 /\ q <= End
    BY <2>1, <2>2, <1>2
  <2> QED BY <2>2, <2>3, <1>1, NumberFacts DEF IInv, ReadInv, PassInv
<1>4. q - 1 \in Nat /\ q - 1 - pass.lo \in Nat
  BY <1>3
<1>5. pass' \in PassType
  BY <1>0, <1>4 DEF IInv, TypeOK, PassType
<1>6. tail' \in TailType
  <2>1. CASE Archive
    BY <1>0, <2>1 DEF IInv, TypeOK
  <2>2. CASE ~Archive
    <3>1. StallLimit + 1 \in Nat
      BY RotationAssumption
    <3> QED BY <1>0, <1>4, <2>2, <3>1 DEF IInv, TypeOK, TailType
  <2> QED BY <2>1, <2>2
<1>7. Opens' = Opens /\ (\A p : Scope(p)' <=> Scope(p)) /\ \A p : Safe(p)' <=> Safe(p)
  BY <1>1, SameLines, ScopeStays DEF writer, history, Safe, Lost
<1>8. PassInv'
  <2>1. pass'.lo <= pass'.done /\ pass'.done <= pass'.cur
    BY <1>1, <1>3
  <2>2. Live => q - 1 <= Len(stream)
    BY <1>2, <1>3, NumberFacts
  <2> QED BY <1>1, <2>1, <2>2 DEF IInv, ReadInv, PassInv, Live, writer, files
<1>9. CoverInv'
  <2> SUFFICES ASSUME NEW p \in Opens, Scope(p)
               PROVE  /\ p <= q - 1 => p \in pass.batch \/ Safe(p)
                      /\ p <= pass.done => Safe(p)
    BY <1>1, <1>7 DEF CoverInv
  <2>1. /\ p <= pass.cur => p \in pass.batch \/ Safe(p)
        /\ p <= pass.done => Safe(p)
    BY <1>1 DEF IInv, ReadInv, CoverInv
  <2>2. ASSUME p <= q - 1 PROVE p <= pass.cur
    <3>1. p \in Nat
      BY OpenFacts
    <3> SUFFICES ASSUME p > pass.cur PROVE FALSE
      BY <3>1, <1>3
    <3>2. p + 1 <= End
      BY <3>1, <2>2, <1>2, <1>3
    <3>3. p # pass.cur + 1
      BY <3>2, <1>1, Found
    <3>4. q <= p
      BY <3>2, <3>3, <1>1, <1>2, Found
    <3> QED BY <3>1, <3>4, <2>2, <1>3
  <2> QED BY <2>1, <2>2
<1>10. EndInv'
  BY <1>1 DEF EndInv
<1>11. db' \subseteq Nat /\ db \subseteq db' /\ faults' \in 0..MaxFaults
  BY <1>1 DEF IInv, TypeOK
<1> QED BY <1>1, <1>5, <1>6, <1>8, <1>9, <1>10, <1>11, PassFrame DEF ReadInv

LEMMA FailStep == IInv /\ PassFail => IInv'
<1> SUFFICES ASSUME IInv, PassFail PROVE IInv'
  OBVIOUS
<1>1. /\ pass'.kind = pass.kind /\ pass'.lo = pass.lo /\ pass'.cur = pass.done
      /\ pass'.done = pass.done /\ pass'.batch = {} /\ pass'.err = TRUE
      /\ pc = "pass" /\ pc' = "ret" /\ pass' \in PassType
      /\ UNCHANGED <<writer, files, db, tail, rot, history>>
  BY DEF IInv, TypeOK, PassType, PassFail
<1>2. faults' \in 0..MaxFaults
  BY RotationAssumption DEF IInv, TypeOK, PassFail, Fault
<1>3. Opens' = Opens /\ (\A p : Scope(p)' <=> Scope(p)) /\ \A p : Safe(p)' <=> Safe(p)
  BY <1>1, SameLines, ScopeStays DEF writer, history, Safe, Lost
<1>4. PassInv'
  <2>1. /\ pass.lo <= pass.done /\ pass.done <= pass.cur /\ pass.done <= pass.done
        /\ Live => pass.done <= Len(stream)
    BY SMTT(40), <1>1, NumberFacts DEF IInv, ReadInv, PassInv
  <2> QED BY <1>1, <2>1 DEF IInv, ReadInv, PassInv, Live, writer, files
<1>5. CoverInv' /\ EndInv'
  BY <1>1, <1>3 DEF IInv, ReadInv, CoverInv, EndInv
<1>6. db' \subseteq Nat /\ db \subseteq db' /\ tail' \in TailType
  BY <1>1 DEF IInv, TypeOK
<1> QED BY <1>1, <1>2, <1>4, <1>5, <1>6, PassFrame DEF ReadInv

LEMMA PassStep == IInv /\ Pass => IInv'
<1> SUFFICES ASSUME IInv, Pass PROVE IInv'
  OBVIOUS
<1>1. CASE PassDoc \/ PassBatch
  BY <1>1, DocStep DEF PassDoc, PassBatch
<1>2. CASE PassEnd
  <2>1. pass.err \in BOOLEAN /\ tail \in TailType /\ faults \in 0..MaxFaults
    BY DEF IInv, TypeOK, PassType
  <2>2. pass' = [pass EXCEPT !.batch = {}, !.done = pass.cur, !.err = pass.err]
    BY <1>2 DEF PassEnd, IInv, TypeOK, PassType
  <2> QED BY <1>2, <2>1, <2>2, ReturnStep DEF PassEnd
<1>3. CASE PassStall
  <2>1. pass.cur - pass.lo \in Nat /\ Stalls \in Nat
    <3>1. pass.lo <= pass.done /\ pass.done <= pass.cur
      BY <1>3 DEF PassStall, IInv, ReadInv, PassInv
    <3>2. /\ pass.lo \in Nat /\ pass.done \in Nat /\ pass.cur \in Nat
          /\ tail.count \in Nat
      BY NumberFacts
    <3>3. pass.cur - pass.lo \in Nat /\ tail.count + 1 \in Nat /\ 1 \in Nat
      BY <3>1, <3>2
    <3> QED BY <3>3 DEF Stalls
  <2>2. tail' \in TailType
    BY <1>3, <2>1 DEF PassStall, IInv, TypeOK, TailType
  <2>3. faults \in 0..MaxFaults
    BY DEF IInv, TypeOK
  <2> QED BY <1>3, <2>2, <2>3, ReturnStep DEF PassStall
<1>4. CASE PassSkip
  BY <1>4, SkipStep
<1>5. CASE PassFail
  BY <1>5, FailStep
<1>6. CASE PassCancel
  <2>1. pass.err \in BOOLEAN /\ tail' \in TailType
    BY <1>6 DEF PassCancel, IInv, TypeOK, PassType, TailType
  <2>2. pass' = [pass EXCEPT !.batch = {}, !.done = pass.cur, !.err = pass.err]
    BY <1>6 DEF PassCancel, IInv, TypeOK, PassType
  <2>3. Live
    BY <1>6 DEF PassCancel, Archive, Live
  <2> QED BY <1>6, <2>1, <2>2, <2>3, FaultTyped, ReturnStep DEF PassCancel
<1> QED BY <1>1, <1>2, <1>3, <1>4, <1>5, <1>6 DEF Pass

-----------------------------------------------------------------------------
(* The tick.                                                               *)

LEMMA AtStart ==
    Idle \in PassType /\ NoRot \in RotType /\ Fresh \in TailType
<1>1. Idle \in PassType
  BY DEF Idle, PassType
<1>2. NoRot \in RotType
  BY DEF NoRot, RotType, Rounds
<1>3. Fresh \in TailType
  BY DEF Fresh, TailType, Unseen
<1> QED BY <1>1, <1>2, <1>3

LEMMA Rests ==
    ASSUME TypeOK', FileInv', pc' \in {"idle", "rot"}
    PROVE  IInv'
BY AtRest DEF IInv

\* The offset moves to a place below which everything was ingested.
LEMMA OffsetMoves ==
    ASSUME FileInv, OffsetInv',
           UNCHANGED <<stream, cuts, late, cut, passed, base, arch, marker, db>>
    PROVE  /\ FileInv' /\ Opens' = Opens /\ (Settled => Settled')
           /\ \A p : Safe(p)' <=> Safe(p)
<1>1. Opens' = Opens
  BY SameLines
<1>2. \A p : Safe(p)' <=> Safe(p)
  BY DEF Safe, Lost
<1>3. CutsInv' /\ ArchInv'
  BY DEF FileInv, CutsInv, ArchInv
<1>4. Settled => Settled'
  BY <1>1, <1>2 DEF Settled
<1>5. ArchivedInv'
  BY <1>1, <1>2 DEF FileInv, ArchivedInv, InDelta
<1>6. MarkerInv'
  BY <1>4 DEF FileInv, MarkerInv, ArchSize
<1> QED BY <1>1, <1>2, <1>3, <1>4, <1>5, <1>6 DEF FileInv

LEMMA OffsetZero ==
    ASSUME IInv, offset' = 0, UNCHANGED <<stream, base, cuts>>
    PROVE  OffsetInv'
<1>1. Opens' = Opens
  BY SameLines
<1>2. ASSUME NEW p \in Opens PROVE ~(base < p /\ p <= base + 0)
  BY OpenFacts, NumberFacts
<1> QED BY <1>1, <1>2 DEF OffsetInv

\* A pass that starts where everything before was ingested.
LEMMA Starts ==
    ASSUME IInv, NEW kind \in Kinds, NEW STATE lo, NEW STATE from,
           lo \in Nat, from \in Nat,
           StartPass(kind, lo, from), Opens' = Opens, \A p : Safe(p) => Safe(p)',
           lo = IF Live' THEN base' ELSE arch.lo',
           Live' => lo + from <= Len(stream'), ~Live' => marker' # None,
           \A p \in Opens : Scope(p)' /\ p <= lo + from => Safe(p)
    PROVE  /\ pass' \in PassType /\ pc' \in Steps
           /\ InfoInv' /\ ReadInv'
<1>1. /\ pc' = "pass" /\ pass'.kind = kind /\ pass'.lo = lo /\ pass'.cur = lo + from
      /\ pass'.done = lo + from /\ pass'.batch = {}
  BY DEF StartPass
<1>2. lo + from \in Nat /\ lo <= lo + from /\ lo + from <= lo + from
  <2>1. lo \in Nat /\ from \in Nat
    OBVIOUS
  <2> QED BY ONLY <2>1
<1>3. pass' \in PassType
  BY <1>2 DEF StartPass, PassType
<1>4. PassInv'
  BY <1>1, <1>2 DEF PassInv
<1>5. CoverInv'
  BY <1>1 DEF CoverInv
<1>6. EndInv' /\ InfoInv'
  BY <1>1 DEF EndInv, InfoInv
<1> QED BY <1>1, <1>3, <1>4, <1>5, <1>6 DEF ReadInv, Steps

LEMMA TickStep == IInv /\ Tick => IInv'
<1> SUFFICES ASSUME IInv, Tick PROVE IInv'
  OBVIOUS
<1>1. CASE TickStat
  <2>1. Size \in Nat /\ base + Size <= Len(stream)
    BY SMTT(40), NumberFacts DEF Size
  <2>2. TypeOK'
    BY <1>1, <2>1 DEF IInv, TypeOK, TickStat, TailType, Steps, writer, files, history
  <2>3. FileInv'
    BY <1>1, FilesStay DEF IInv, TickStat, writer, history
  <2>4. InfoInv'
    <3>1. tail'.info = Size
      BY <1>1 DEF TickStat, IInv, TypeOK, TailType
    <3> QED BY <1>1, <2>1, <3>1 DEF InfoInv, TickStat, writer, files
  <2> QED BY <1>1, <2>2, <2>3, <2>4, AtRest DEF IInv, TickStat
<1>2. CASE TickReset
  <2>1. FileInv' /\ Opens' = Opens /\ \A p : Safe(p)' <=> Safe(p)
    BY <1>2, OffsetZero, OffsetMoves DEF IInv, TickReset, writer, history
  <2>2. /\ pass'.kind = "tick" /\ base' = base /\ stream' = stream
        /\ StartPass("tick", base, 0) /\ "tick" \in Kinds
    BY <1>2 DEF TickReset, StartPass, writer, Kinds
  <2>3. base \in Nat /\ base + 0 <= Len(stream)
    BY NumberFacts
  <2>4. ASSUME NEW p \in Opens PROVE ~(Scope(p)' /\ p <= base + 0)
    BY <2>2, OpenFacts, NumberFacts DEF Scope
  <2>5. pass' \in PassType /\ pc' \in Steps /\ InfoInv' /\ ReadInv'
    BY <2>1, <2>2, <2>3, <2>4, Starts DEF Live
  <2>6. TypeOK'
    BY <1>2, <2>5 DEF IInv, TypeOK, TickReset, TailType, writer, history
  <2>7. RotInv'
    BY <1>2, <2>2 DEF TickReset, StartPass, RotInv, SettledInv, StartInv, StagedInv,
                      TailInv, FinInv, DeltaInv, At
  <2> QED BY <2>1, <2>5, <2>6, <2>7 DEF IInv
<1>3. CASE TickIdle
  <2>1. TypeOK'
    BY <1>3 DEF IInv, TypeOK, TickIdle, Steps, writer, files, history
  <2>2. FileInv'
    BY <1>3, FilesStay DEF IInv, TickIdle, writer, history
  <2> QED BY <1>3, <2>1, <2>2, Rests DEF TickIdle
<1>4. CASE TickRead
  <2>1. FileInv' /\ Opens' = Opens /\ \A p : Safe(p)' <=> Safe(p)
    BY <1>4, FilesStay DEF IInv, TickRead, writer, history, Safe, Lost
  <2>2. /\ pass'.kind = "tick" /\ base' = base /\ stream' = stream
        /\ StartPass("tick", base, offset) /\ "tick" \in Kinds
    BY <1>4 DEF TickRead, StartPass, writer, files, Kinds
  <2>3. base \in Nat /\ offset \in Nat /\ base + offset <= Len(stream)
    <3>1. ~(tail.info < offset) /\ base + tail.info <= Len(stream)
      BY <1>4 DEF TickRead, ShouldReset, IInv, InfoInv
    <3>2. tail.info \in Nat /\ base \in Nat /\ offset \in Nat /\ Len(stream) \in Nat
      BY NumberFacts
    <3> QED BY <3>1, <3>2
  <2>4. ASSUME NEW p \in Opens, Scope(p)', p <= base + offset PROVE Safe(p)
    BY <2>2, <2>4 DEF Scope, IInv, FileInv, OffsetInv
  <2>5. pass' \in PassType /\ pc' \in Steps /\ InfoInv' /\ ReadInv'
    BY <2>1, <2>2, <2>3, <2>4, Starts DEF Live
  <2>6. TypeOK'
    BY <1>4, <2>5 DEF IInv, TypeOK, TickRead, TailType, writer, files, history
  <2>7. RotInv'
    BY <1>4, <2>2 DEF TickRead, StartPass, RotInv, SettledInv, StartInv, StagedInv,
                      TailInv, FinInv, DeltaInv, At
  <2> QED BY <2>1, <2>5, <2>6, <2>7 DEF IInv
<1>5. CASE TickFail
  <2>1. offset' = offset \/ offset' = 0
    BY <1>5 DEF TickFail
  <2>2. OffsetInv'
    <3>1. CASE offset' = offset
      <4>1. Opens' = Opens /\ \A p : Safe(p)' <=> Safe(p)
        BY <1>5, SameLines DEF TickFail, writer, history, Safe, Lost
      <4> QED BY <1>5, <3>1, <4>1 DEF TickFail, IInv, FileInv, OffsetInv
    <3>2. CASE offset' = 0
      BY <1>5, <3>2, OffsetZero DEF TickFail, writer, history
    <3> QED BY <2>1, <3>1, <3>2
  <2>3. FileInv'
    BY <1>5, <2>2, OffsetMoves DEF IInv, TickFail, writer, history
  <2>4. TypeOK'
    BY SMTT(40), <1>5, <2>1, FaultTyped DEF IInv, TypeOK, TickFail, Steps, writer, history
  <2> QED BY <1>5, <2>3, <2>4, Rests DEF TickFail
<1>6. CASE TickReturn
  <2>0. /\ pc = "ret" /\ pass.kind = "tick" /\ Live
        /\ pass.lo = base /\ pass.batch = {}
        /\ pass.lo <= pass.done /\ pass.done <= pass.cur
    BY <1>6 DEF TickReturn, IInv, ReadInv, PassInv, Live
  <2>1. /\ pass.cur - pass.lo \in Nat /\ base + (pass.cur - pass.lo) = pass.cur
    <3>1. pass.lo \in Nat /\ pass.cur \in Nat /\ pass.done \in Nat /\ base \in Nat
      BY NumberFacts
    <3> QED BY <2>0, <3>1
  <2>2. offset' = offset \/ offset' = pass.cur - pass.lo
    BY <1>6 DEF TickReturn
  <2>3. OffsetInv'
    <3>1. Opens' = Opens /\ \A p : Safe(p)' <=> Safe(p)
      BY <1>6, SameLines DEF TickReturn, writer, history, Safe, Lost
    <3>2. \A p \in Opens : base < p /\ p <= pass.cur => Safe(p)
      BY <2>0 DEF IInv, ReadInv, CoverInv, Scope
    <3>3. CASE offset' = offset
      BY <1>6, <3>1, <3>3 DEF TickReturn, IInv, FileInv, OffsetInv
    <3>4. CASE offset' = pass.cur - pass.lo
      BY <1>6, <2>1, <3>1, <3>2, <3>4 DEF TickReturn, OffsetInv
    <3> QED BY <2>2, <3>3, <3>4
  <2>4. FileInv'
    BY <1>6, <2>3, OffsetMoves DEF IInv, TickReturn, writer, history
  <2>5. tail' \in TailType
    <3>1. tail.info \in Int /\ base \in Nat /\ pass.err \in BOOLEAN
      BY NumberFacts DEF IInv, TypeOK, PassType
    <3> QED BY ZenonT(60), <1>6, <3>1 DEF IInv, TypeOK, TailType, TickReturn
  <2>6. faults' \in 0..MaxFaults
    BY <1>6, FaultTyped DEF TickReturn, IInv, TypeOK
  <2>7. TypeOK'
    BY <1>6, <2>1, <2>2, <2>5, <2>6, AtStart
    DEF IInv, TypeOK, TickReturn, Steps, writer, history
  <2> QED BY <1>6, <2>4, <2>7, Rests DEF TickReturn
<1> QED BY <1>1, <1>2, <1>3, <1>4, <1>5, <1>6 DEF Tick

-----------------------------------------------------------------------------
(* The rotation.                                                           *)

\* When nothing is owed to the archive it and the marker may change.
LEMMA SettledFiles ==
    ASSUME FileInv, Settled, ArchInv',
           UNCHANGED <<stream, cuts, late, cut, passed, base, offset, db>>
    PROVE  /\ FileInv' /\ Settled' /\ Opens' = Opens
           /\ \A p : Safe(p)' <=> Safe(p)
<1>1. Opens' = Opens
  BY SameLines
<1>2. \A p : Safe(p)' <=> Safe(p)
  BY DEF Safe, Lost
<1>3. CutsInv' /\ OffsetInv'
  BY <1>1, <1>2 DEF FileInv, CutsInv, OffsetInv
<1>4. Settled'
  BY <1>1, <1>2 DEF Settled
<1>5. ArchivedInv' /\ MarkerInv'
  BY <1>4 DEF ArchivedInv, MarkerInv, Settled
<1> QED BY <1>1, <1>2, <1>3, <1>4, <1>5 DEF FileInv

LEMMA SameArchive == FileInv /\ UNCHANGED <<stream, cuts, arch>> => ArchInv'
BY DEF FileInv, ArchInv

LEMMA MarkerTyped ==
    ASSUME IInv, Unmark
    PROVE  marker' \in [from : Nat, size : Nat \cup {-1}] /\ faults' \in 0..MaxFaults
BY FaultTyped DEF Unmark, None, IInv, TypeOK

\* Where the rotation does no more than leave.
LEMMA LeaveStep ==
    ASSUME IInv, Leave, faults' \in 0..MaxFaults, tail' \in TailType,
           UNCHANGED <<writer, files, db, history>>
    PROVE  IInv'
<1>1. FileInv'
  BY FilesStay DEF IInv, writer, history
<1>2. TypeOK'
  BY AtStart DEF IInv, TypeOK, Leave, Steps, writer, files, history
<1> QED BY <1>1, <1>2, Rests DEF Leave

\* After a retry that ended without an error nothing is owed any more.
LEMMA RetrySettles ==
    ASSUME IInv, pc = "ret", pass.kind \in {"retry", "rotated"}, ~pass.err
    PROVE  Settled
<1>1. \A p \in Opens : InDelta(p) => Scope(p)
  BY DEF InDelta, Scope
<1>2. \A p \in Opens : Scope(p) => Safe(p)
  BY DEF IInv, ReadInv, EndInv, Live
<1> QED BY <1>1, <1>2 DEF Settled, IInv, FileInv, ArchivedInv

LEMMA ToSize ==
    ASSUME IInv, Settled, pc' = "size", pass' \in PassType,
           marker' \in [from : Nat, size : Nat \cup {-1}], faults' \in 0..MaxFaults,
           UNCHANGED <<writer, base, offset, arch, db, tail, rot, history>>
    PROVE  IInv'
<1>1. FileInv' /\ Settled'
  BY SameArchive, SettledFiles DEF IInv, writer, history
<1>2. TypeOK'
  BY DEF IInv, TypeOK, Steps, writer, history
<1>3. RotInv' /\ InfoInv' /\ ReadInv'
  BY <1>1 DEF RotInv, InfoInv, ReadInv, SettledInv, StartInv, StagedInv, TailInv,
              FinInv, DeltaInv, PassInv, CoverInv, EndInv, At
<1> QED BY <1>1, <1>2, <1>3 DEF IInv

LEMMA EntryStep ==
    IInv /\ (RotateEntry \/ RotateRetry \/ RetryReturn \/ RotateGivesUp \/ RotateFail
             \/ NotDue) => IInv'
<1> SUFFICES ASSUME IInv, RotateEntry \/ RotateRetry \/ RetryReturn \/ RotateGivesUp
                          \/ RotateFail \/ NotDue
             PROVE  IInv'
  OBVIOUS
<1>0. faults \in 0..MaxFaults /\ tail \in TailType /\ pass \in PassType
  BY DEF IInv, TypeOK
<1>1. CASE RotateEntry
  <2>1. Settled
    <3>1. CASE marker = None
      BY <3>1 DEF IInv, FileInv, ArchivedInv, InDelta, Settled
    <3>2. CASE marker # None /\ ArchSize < marker.size
      <4>1. ArchSize # marker.size
        <5>1. ArchSize \in Int
          BY SMTT(40), NumberFacts DEF ArchSize
        <5>2. ~(ArchSize < ArchSize)
          BY <5>1
        <5> QED BY <3>2, <5>1, <5>2
      <4> QED BY <3>2, <4>1 DEF IInv, FileInv, MarkerInv
    <3> QED BY <1>1, <3>1, <3>2 DEF RotateEntry
  <2>2. marker' \in [from : Nat, size : Nat \cup {-1}] /\ faults' \in 0..MaxFaults
    BY <1>1, MarkerTyped DEF RotateEntry, IInv, TypeOK
  <2> QED BY <1>0, <1>1, <2>1, <2>2, ToSize DEF RotateEntry
<1>2. CASE RotateRetry
  <2>1. FileInv' /\ Opens' = Opens /\ \A p : Safe(p)' <=> Safe(p)
    BY <1>2, FilesStay DEF IInv, RotateRetry, writer, history, Safe, Lost
  <2>2. /\ pc' = "pass" /\ pass'.kind = "retry" /\ arch' = arch /\ marker' = marker
        /\ marker # None
        /\ StartPass("retry", arch.lo, marker.from) /\ "retry" \in Kinds
    BY <1>2 DEF RotateRetry, StartPass, files, Kinds
  <2>3. arch.lo \in Nat /\ marker.from \in Nat
    BY NumberFacts
  <2>4. ASSUME NEW p \in Opens PROVE ~(Scope(p)' /\ p <= arch.lo + marker.from)
    BY <2>2, <2>3, OpenFacts DEF Scope
  <2>5. pass' \in PassType /\ pc' \in Steps /\ InfoInv' /\ ReadInv'
    BY <2>1, <2>2, <2>3, <2>4, Starts DEF Live
  <2>6. TypeOK'
    BY <1>2, <2>5 DEF IInv, TypeOK, RotateRetry, writer, files, history
  <2>7. RotInv'
    BY <2>2 DEF RotInv, SettledInv, StartInv, StagedInv, TailInv, FinInv, DeltaInv, At
  <2> QED BY <2>1, <2>5, <2>6, <2>7 DEF IInv
<1>3. CASE RetryReturn
  <2>1. Settled
    BY <1>3, RetrySettles DEF RetryReturn
  <2>2. marker' \in [from : Nat, size : Nat \cup {-1}] /\ faults' \in 0..MaxFaults
    BY <1>3, MarkerTyped DEF RetryReturn
  <2> QED BY <1>3, <2>1, <2>2, AtStart, ToSize DEF RetryReturn
<1>4. CASE RotateGivesUp
  BY <1>0, <1>4, LeaveStep DEF RotateGivesUp
<1>5. CASE RotateFail
  BY <1>0, <1>5, FaultTyped, LeaveStep DEF RotateFail
<1>6. CASE NotDue
  BY <1>0, <1>6, LeaveStep DEF NotDue
<1> QED BY <1>1, <1>2, <1>3, <1>4, <1>5, <1>6

\* The offset the gate takes, be it 0, is one below which all was ingested.
LEMMA GateStep == IInv /\ Gate => IInv'
<1> SUFFICES ASSUME IInv, Gate PROVE IInv'
  OBVIOUS
<1>0. PICK o \in Offsets :
         /\ faults' = IF o = offset THEN faults ELSE faults + 1
         /\ \/ Size - o > Backlog /\ Leave
            \/ /\ Size > o /\ Size - o <= Backlog
               /\ rot' = [rot EXCEPT !.pre = Size, !.start = o]
               /\ StartPass("gate", base, o)
            \/ /\ Size <= o
               /\ rot' = [rot EXCEPT !.pre = Size, !.start = o]
               /\ pc' = "copy" /\ UNCHANGED pass
  BY DEF Gate
<1>1. /\ pc = "size" /\ ~Small /\ UNCHANGED <<writer, files, db, tail, history>>
      /\ Settled
  BY DEF Gate, IInv, RotInv, SettledInv, At
<1>2. /\ o \in Nat /\ (o = offset \/ (o = 0 /\ faults < MaxFaults)) /\ o <= offset
      /\ base \in Nat /\ Len(stream) \in Nat /\ offset \in Nat
  <2>1. offset \in Nat /\ base \in Nat /\ Len(stream) \in Nat
    BY NumberFacts
  <2>2. o = offset \/ (o = 0 /\ faults < MaxFaults)
    BY DEF Offsets
  <2> QED BY <2>1, <2>2
<1>3. faults' \in 0..MaxFaults
  BY <1>0, <1>2, RotationAssumption DEF IInv, TypeOK
<1>4. /\ FileInv' /\ Opens' = Opens /\ Settled'
      /\ \A p : Safe(p)' <=> Safe(p)
  BY <1>1, FilesStay DEF IInv, writer, history, Safe, Lost
<1>5. \A p \in Opens : base < p /\ p <= base + o => Safe(p)
  <2>1. ASSUME NEW p \in Opens, base < p, p <= base + o PROVE p <= base + offset
    BY <2>1, <1>2, OpenFacts
  <2> QED BY <2>1 DEF IInv, FileInv, OffsetInv
<1>6. base + 2 <= Len(stream) /\ Size \in Nat /\ base + Size = Len(stream)
  <2>1. ~(Size < Threshold)
    BY <1>1 DEF Small
  <2>2. base <= Len(stream)
    BY NumberFacts
  <2> QED BY <2>1, <2>2, <1>2, RotationAssumption DEF Size
<1>7. CASE Leave
  BY <1>1, <1>3, <1>7, LeaveStep DEF IInv, TypeOK
<1>8. CASE /\ Size > o
           /\ rot' = [rot EXCEPT !.pre = Size, !.start = o]
           /\ StartPass("gate", base, o)
  <2>1. /\ rot' \in RotType /\ rot'.start = o
    BY <1>2, <1>6, <1>8 DEF IInv, TypeOK, RotType
  <2>2. /\ pc' = "pass" /\ pass'.kind = "gate" /\ base' = base /\ stream' = stream
        /\ "gate" \in Kinds /\ offset' = offset
    BY <1>1, <1>8 DEF StartPass, writer, files, Kinds
  <2>3. base + o <= Len(stream)
    BY <1>2, <1>6, <1>8
  <2>4. ASSUME NEW p \in Opens, Scope(p)', p <= base + o PROVE Safe(p)
    BY <1>5, <2>2, <2>4 DEF Scope
  <2>5. pass' \in PassType /\ pc' \in Steps /\ InfoInv' /\ ReadInv'
    BY <1>2, <1>4, <1>8, <2>2, <2>3, <2>4, Starts DEF Live
  <2>6. TypeOK'
    BY <1>1, <1>3, <2>1, <2>5 DEF IInv, TypeOK, writer, files, history
  <2>7. StartInv'
    BY <1>2, <1>4, <1>5, <1>6, <2>1, <2>2 DEF StartInv
  <2>8. RotInv'
    BY <1>4, <2>2, <2>7 DEF RotInv, SettledInv, StagedInv, TailInv, FinInv, DeltaInv, At
  <2> QED BY <1>4, <2>5, <2>6, <2>8 DEF IInv
<1>9. CASE /\ rot' = [rot EXCEPT !.pre = Size, !.start = o]
           /\ pc' = "copy" /\ UNCHANGED pass
  <2>1. /\ rot' \in RotType /\ rot'.start = o
    BY <1>2, <1>6, <1>9 DEF IInv, TypeOK, RotType
  <2>2. base' = base /\ stream' = stream /\ offset' = offset
    BY <1>1 DEF writer, files
  <2>3. StartInv'
    BY <1>2, <1>4, <1>5, <1>6, <2>1, <2>2 DEF StartInv
  <2>4. RotInv'
    BY <1>4, <1>9, <2>3 DEF RotInv, SettledInv, StagedInv, TailInv, FinInv, DeltaInv, At
  <2>5. TypeOK'
    BY <1>1, <1>3, <1>9, <2>1 DEF IInv, TypeOK, Steps, writer, files, history
  <2>6. InfoInv' /\ ReadInv'
    BY <1>9 DEF InfoInv, ReadInv, PassInv, CoverInv, EndInv
  <2> QED BY <1>4, <2>4, <2>5, <2>6 DEF IInv
<1> QED BY <1>0, <1>7, <1>8, <1>9

\* A step of the rotation outside a pass that goes on to a step of its own.
LEMMA Goes ==
    ASSUME pc' \notin {"tick", "pass", "ret"}
    PROVE  InfoInv' /\ ReadInv'
BY DEF InfoInv, ReadInv, PassInv, CoverInv, EndInv

LEMMA GateReturnStep == IInv /\ GateReturn => IInv'
<1> SUFFICES ASSUME IInv, GateReturn PROVE IInv'
  OBVIOUS
<1>1. CASE Leave
  BY <1>1, LeaveStep DEF GateReturn, IInv, TypeOK
<1>2. CASE /\ rot' = [rot EXCEPT !.start = Later(@, pass.cur - pass.lo)]
           /\ pass' = Idle /\ pc' = "copy"
  <2>0. /\ pc = "ret" /\ pass.kind = "gate" /\ Live
        /\ UNCHANGED <<writer, files, db, tail, faults, history>>
        /\ pass.lo = base /\ pass.batch = {} /\ pass.cur <= Len(stream)
        /\ pass.lo <= pass.done /\ pass.done <= pass.cur
    BY DEF GateReturn, IInv, ReadInv, PassInv, Live
  <2>1. /\ base \in Nat /\ pass.cur \in Nat /\ pass.done \in Nat /\ rot.start \in Nat
        /\ offset \in Nat /\ Len(stream) \in Nat
    BY NumberFacts
  <2>2. pass.cur - pass.lo \in Nat /\ base + (pass.cur - pass.lo) = pass.cur
    BY <2>0, <2>1
  <2>3. Later(rot.start, pass.cur - pass.lo) \in {rot.start, pass.cur - pass.lo}
    BY DEF Later
  <2>4. /\ rot' \in RotType
        /\ rot'.start = rot.start \/ rot'.start = pass.cur - pass.lo
    <3>1. Later(rot.start, pass.cur - pass.lo) \in Nat
      BY <2>1, <2>2, <2>3
    <3> QED BY <1>2, <2>3, <3>1 DEF IInv, TypeOK, RotType
  <2>5. /\ FileInv' /\ Opens' = Opens /\ (Settled => Settled')
        /\ \A p : Safe(p)' <=> Safe(p)
    BY <2>0, FilesStay DEF IInv, writer, history, Safe, Lost
  <2>6. Settled'
    BY <2>0, <2>5 DEF IInv, RotInv, SettledInv, At
  <2>7. /\ \A p \in Opens : base < p /\ p <= base + rot.start => Safe(p)
        /\ rot.start <= offset \/ base + rot.start <= Len(stream)
        /\ base + 2 <= Len(stream)
    BY <2>0 DEF IInv, RotInv, StartInv, At
  <2>8. \A p \in Opens : base < p /\ p <= pass.cur => Safe(p)
    BY <2>0 DEF IInv, ReadInv, CoverInv, Scope
  <2>9. StartInv'
    <3>1. base' = base /\ stream' = stream /\ offset' = offset
      BY <2>0 DEF writer, files
    <3>2. CASE rot'.start = rot.start
      BY <2>5, <2>7, <3>1, <3>2 DEF StartInv
    <3>3. CASE rot'.start = pass.cur - pass.lo
      BY <2>0, <2>2, <2>5, <2>7, <2>8, <3>1, <3>3 DEF StartInv
    <3> QED BY <2>4, <3>2, <3>3
  <2>10. RotInv'
    BY <1>2, <2>6, <2>9 DEF RotInv, SettledInv, StagedInv, TailInv, FinInv, DeltaInv, At
  <2>11. TypeOK'
    BY <1>2, <2>0, <2>4, AtStart DEF IInv, TypeOK, Steps, writer, files, history
  <2> QED BY <1>2, <2>5, <2>10, <2>11, Goes DEF IInv
<1> QED BY <1>1, <1>2 DEF GateReturn

\* From the copy to its promotion: the archive is the live file up to here.
LEMMA ArchiveStep == IInv /\ (Copy \/ Shift \/ Promote) => IInv'
<1> SUFFICES ASSUME IInv, Copy \/ Shift \/ Promote PROVE IInv'
  OBVIOUS
<1>0. /\ UNCHANGED <<writer, base, offset, marker, db, tail, pass, faults, history>>
      /\ pc \in {"copy", "shift", "promote"}
  BY DEF Copy, Shift, Promote, files
<1>1. /\ Settled
      /\ \A p \in Opens : base < p /\ p <= base + rot.start => Safe(p)
      /\ rot.start <= offset \/ base + rot.start <= Len(stream)
      /\ base + 2 <= Len(stream)
  BY <1>0 DEF IInv, RotInv, SettledInv, StartInv, At
<1>2. /\ base \in Nat /\ Len(stream) \in Nat /\ rot.staged \in Nat
  BY NumberFacts
<1>3. pc' \in {"shift", "promote", "tail"}
  BY DEF Copy, Shift, Promote
<1>4. /\ ArchInv' /\ arch' \in [lo : Nat, hi : Nat]
      /\ rot' \in RotType /\ rot'.start = rot.start
      /\ StagedInv' /\ TailInv'
  <2>1. CASE Copy
    <3>1. rot' \in RotType /\ rot'.start = rot.start /\ rot'.staged = Len(stream)
      BY <1>2, <2>1 DEF Copy, IInv, TypeOK, RotType
    <3>2. StagedInv'
      BY <1>0, <1>1, <1>2, <3>1 DEF StagedInv, writer
    <3>3. TailInv'
      BY <2>1 DEF Copy, TailInv, At
    <3>4. ArchInv' /\ arch' \in [lo : Nat, hi : Nat]
      BY <2>1, SameArchive DEF Copy, IInv, TypeOK, writer, files, history
    <3> QED BY <3>1, <3>2, <3>3, <3>4
  <2>2. CASE Shift
    <3>1. arch'.lo = 0 /\ arch'.hi = 0 /\ arch' \in [lo : Nat, hi : Nat]
      BY <2>2 DEF Shift, NoArch
    <3>2. \A c \in cuts : c \in Nat
      BY DEF IInv, TypeOK
    <3>3. ArchInv'
      BY <1>0, <1>2, <3>1, <3>2 DEF ArchInv, writer, history
    <3>4. StagedInv' /\ TailInv'
      BY <1>0, <2>2 DEF Shift, IInv, RotInv, StagedInv, TailInv, At, writer
    <3> QED BY <2>2, <3>1, <3>3, <3>4 DEF Shift, IInv, TypeOK
  <2>3. CASE Promote
    <3>0. base + 2 <= rot.staged /\ rot.staged <= Len(stream)
      BY <2>3 DEF Promote, IInv, RotInv, StagedInv
    <3>1. arch'.lo = base /\ arch'.hi = rot.staged /\ arch' \in [lo : Nat, hi : Nat]
      BY <1>2, <2>3 DEF Promote
    <3>2. rot.staged - base \in Nat /\ base + (rot.staged - base) = rot.staged
      BY <1>2, <3>0
    <3>3. /\ rot' \in RotType /\ rot'.start = rot.start /\ rot'.round = 0
          /\ rot'.reached = rot.staged - base
      <4>1. 0 \in 0..Rounds
        BY DEF Rounds
      <4>2. rot' = [rot EXCEPT !.reached = rot.staged - base, !.round = 0]
        BY <2>3 DEF Promote
      <4>3. rot \in RotType
        BY DEF IInv, TypeOK
      <4> QED BY <3>2, <4>1, <4>2, <4>3 DEF RotType
    <3>4. \A c \in cuts : c \in Nat /\ c <= base
      BY DEF IInv, FileInv, CutsInv
    <3>5. ArchInv'
      BY <1>0, <1>2, <3>0, <3>1, <3>4 DEF ArchInv, writer, history
    <3>6. StagedInv'
      BY <2>3 DEF Promote, StagedInv
    <3>7. TailInv'
      <4>1. pc' = "tail" /\ base' = base /\ stream' = stream
        BY <1>0, <2>3 DEF Promote, writer
      <4>2. /\ ~(rot.staged < rot.staged) /\ rot.staged <= rot.staged /\ ~(0 > 0)
        BY <1>2
      <4> QED BY <3>0, <3>1, <3>2, <3>3, <4>1, <4>2 DEF TailInv
    <3> QED BY <3>1, <3>3, <3>5, <3>6, <3>7
  <2> QED BY <2>1, <2>2, <2>3
<1>5. FileInv' /\ Settled' /\ Opens' = Opens /\ \A p : Safe(p)' <=> Safe(p)
  BY <1>0, <1>1, <1>4, SettledFiles DEF IInv, writer, history
<1>6. TypeOK'
  BY <1>0, <1>3, <1>4 DEF IInv, TypeOK, Steps, writer, history
<1>7. StartInv'
  BY <1>0, <1>1, <1>4, <1>5 DEF StartInv, writer
<1>8. SettledInv' /\ FinInv' /\ DeltaInv'
  BY <1>3, <1>5 DEF SettledInv, FinInv, DeltaInv, At
<1> QED BY <1>3, <1>4, <1>5, <1>6, <1>7, <1>8, Goes DEF IInv, RotInv

\* What holds in the tail phase.
LEMMA TailFacts ==
    ASSUME IInv, At({"tail", "final", "mark", "trunc"}, {"tail"})
    PROVE  /\ Settled
           /\ \A p \in Opens : base < p /\ p <= base + rot.start => Safe(p)
           /\ rot.start <= offset \/ base + rot.start <= Len(stream)
           /\ base + 2 <= Len(stream)
           /\ arch.lo = base /\ base + 2 <= arch.hi
           /\ arch.hi <= base + rot.reached /\ base + rot.reached <= Len(stream)
           /\ arch.hi < base + rot.reached =>
                \A p \in Opens : arch.hi <= p /\ p <= base + rot.reached => Safe(p)
           /\ rot.round > 0 => arch.hi < base + rot.reached
           /\ pc \in {"pass", "ret"} => rot.round < Rounds
BY DEF IInv, RotInv, SettledInv, StartInv, TailInv, At

\* A step of the tail phase that changes no file keeps its facts.
LEMMA TailGoes ==
    ASSUME IInv, At({"tail", "final", "mark", "trunc"}, {"tail"}),
           pc' \in {"tail", "final", "mark"} \/ (pc' = "pass" /\ pass'.kind = "tail"),
           UNCHANGED <<writer, files, db, tail, history>>, faults' \in 0..MaxFaults,
           rot' \in RotType, rot'.start = rot.start,
           TailInv', FinInv', InfoInv' /\ ReadInv', pass' \in PassType
    PROVE  IInv'
<1>1. /\ FileInv' /\ Opens' = Opens /\ (Settled => Settled')
      /\ \A p : Safe(p)' <=> Safe(p)
  BY FilesStay DEF IInv, writer, history, Safe, Lost
<1>2. TypeOK'
  BY DEF IInv, TypeOK, Steps, writer, files, history
<1>3. SettledInv'
  BY <1>1, TailFacts DEF SettledInv
<1>4. StartInv'
  BY <1>1, TailFacts DEF StartInv, writer, files
<1>5. StagedInv' /\ DeltaInv'
  BY DEF StagedInv, DeltaInv, At
<1> QED BY <1>1, <1>2, <1>3, <1>4, <1>5 DEF IInv, RotInv

\* The scan back from the end of the copy passes the line the copy cut.
LEMMA BackscanPasses ==
    ASSUME IInv, At({"tail"}, {}), NEW from \in Backscan(ArchSize)
    PROVE  /\ from \in Nat /\ base + from <= arch.hi
           /\ \A p \in Opens : ~(arch.hi <= p /\ p <= base + from)
<1>0. At({"tail", "final", "mark", "trunc"}, {"tail"})
  BY DEF At
<1>1. /\ base \in Nat /\ arch.hi \in Nat /\ arch.lo = base /\ base + 2 <= arch.hi
      /\ Len(stream) \in Nat
  BY <1>0, NumberFacts, TailFacts
<1>2. ArchSize \in Nat /\ base + ArchSize = arch.hi
  BY <1>1 DEF ArchSize
<1>3. from \in 0..ArchSize
  BY DEF Backscan
<1>4. from \in Nat /\ base + from <= arch.hi
  BY <1>1, <1>2, <1>3
<1>5. ASSUME NEW p \in Opens, arch.hi <= p, p <= base + from PROVE FALSE
  <2>1. p \in Nat /\ stream[p] = "head" /\ (p - 1 \in cuts \/ stream[p - 1] = "rest")
    BY OpenFacts
  <2>2. p = arch.hi /\ from = ArchSize
    BY <1>1, <1>2, <1>3, <1>4, <1>5, <2>1
  <2>3. p - 1 \notin cuts
    <3>1. \A c \in cuts : c \in Nat /\ c <= base
      BY DEF IInv, FileInv, CutsInv
    <3> QED BY <3>1, <1>1, <2>1, <2>2
  <2>4. p \in Behind(ArchSize)
    <3>1. LineStart(p)
      BY <2>1, <2>3 DEF LineStart
    <3>2. p \in base + 2 .. base + ArchSize
      BY <1>1, <1>2, <2>1, <2>2
    <3> QED BY <3>1, <3>2 DEF Behind
  <2>5. base + from + 1 \in Behind(ArchSize)
    BY <2>4 DEF Backscan
  <2>6. base + from + 1 <= base + ArchSize
    <3>1. base + from + 1 \in base + 2 .. base + ArchSize
      BY <2>5 DEF Behind
    <3> QED BY <3>1, <1>1, <1>2, <1>4
  <2> QED BY <2>6, <2>2, <1>1, <1>2
<1> QED BY <1>4, <1>5

LEMMA TailStep ==
    IInv /\ (TailRead \/ TailReturn \/ TailDone \/ FinalStat) => IInv'
<1> SUFFICES ASSUME IInv, TailRead \/ TailReturn \/ TailDone \/ FinalStat
             PROVE  IInv'
  OBVIOUS
<1>0. /\ At({"tail", "final", "mark", "trunc"}, {"tail"})
      /\ UNCHANGED <<writer, files, db, tail, history>>
      /\ faults' \in 0..MaxFaults
  BY FaultTyped DEF TailRead, TailReturn, TailDone, FinalStat, At, IInv, TypeOK
<1>1. /\ base \in Nat /\ arch.hi \in Nat /\ rot.reached \in Nat /\ Len(stream) \in Nat
      /\ pass.cur \in Nat /\ pass.lo \in Nat /\ pass.done \in Nat
      /\ rot.round \in 0..3
  BY NumberFacts
<1>2. /\ Opens' = Opens /\ \A p : Safe(p)' <=> Safe(p)
      /\ base' = base /\ arch' = arch /\ stream' = stream
  BY <1>0, SameLines DEF writer, files, history, Safe, Lost
<1>3. CASE TailRead
  <2>0. PICK from \in IF rot.round = 0 THEN Backscan(ArchSize) ELSE {rot.reached} :
           StartPass("tail", base, from)
    BY <1>3 DEF TailRead
  <2>1. /\ pc = "tail" /\ rot.round < Rounds /\ rot' = rot
        /\ pc' = "pass" /\ pass'.kind = "tail" /\ "tail" \in Kinds
    BY <1>3, <2>0 DEF TailRead, StartPass, Kinds
  <2>2. /\ from \in Nat /\ base + from <= Len(stream)
        /\ \A p \in Opens : arch.hi <= p /\ p <= base + from => Safe(p)
    <3>1. CASE rot.round = 0
      <4>1. from \in Backscan(ArchSize)
        BY <2>0, <3>1
      <4>2. At({"tail"}, {})
        BY <2>1 DEF At
      <4>3. /\ from \in Nat /\ base + from <= arch.hi
            /\ \A p \in Opens : ~(arch.hi <= p /\ p <= base + from)
        BY <4>1, <4>2, BackscanPasses
      <4>4. arch.hi <= Len(stream)
        BY DEF IInv, FileInv, ArchInv
      <4> QED BY <1>1, <4>3, <4>4
    <3>2. CASE rot.round # 0
      <4>1. from = rot.reached
        BY <2>0, <3>2
      <4>2. rot.round > 0
        BY <1>1, <3>2
      <4> QED BY <1>0, <1>1, <4>1, <4>2, TailFacts
    <3> QED BY <3>1, <3>2
  <2>3. ASSUME NEW p \in Opens, Scope(p)', p <= base + from PROVE Safe(p)
    BY <1>2, <2>1, <2>2, <2>3 DEF Scope
  <2>4. pass' \in PassType /\ InfoInv' /\ ReadInv'
    BY <1>1, <1>2, <2>0, <2>1, <2>2, <2>3, Starts DEF Live
  <2>5. TailInv'
    BY <1>0, <1>2, <2>1, TailFacts DEF TailInv
  <2>6. FinInv' /\ rot' \in RotType
    BY <2>1 DEF FinInv, IInv, TypeOK
  <2> QED BY <1>0, <2>1, <2>4, <2>5, <2>6, TailGoes
<1>4. CASE TailReturn
  <2>0. /\ pc = "ret" /\ pass.kind = "tail" /\ Live /\ pass' = Idle
        /\ pass.lo = base /\ pass.batch = {} /\ pass.cur <= Len(stream)
        /\ pass.lo <= pass.done /\ pass.done <= pass.cur
        /\ pc' \in {"tail", "final"}
    BY <1>4 DEF TailReturn, IInv, ReadInv, PassInv, Live
  <2>1. pass.cur - pass.lo \in Nat /\ base + (pass.cur - pass.lo) = pass.cur
    BY <1>1, <2>0
  <2>2. InfoInv' /\ ReadInv' /\ FinInv' /\ pass' \in PassType
    BY <2>0, Goes, AtStart DEF FinInv
  <2>3. CASE pc' = "final" /\ UNCHANGED rot
    <3>1. TailInv'
      BY <1>0, <1>2, <2>3, TailFacts DEF TailInv
    <3> QED BY <1>0, <2>2, <2>3, <3>1, TailGoes DEF IInv, TypeOK
  <2>4. CASE /\ pass.cur - pass.lo > rot.reached /\ pc' = "tail"
             /\ rot' = [rot EXCEPT !.reached = pass.cur - pass.lo, !.round = @ + 1]
    <3>1. rot.round + 1 \in 0..3 /\ rot.round < 3
      BY <1>0, <1>1, <2>0, TailFacts DEF Rounds
    <3>2. /\ rot' \in RotType /\ rot'.start = rot.start
          /\ rot'.reached = pass.cur - pass.lo
      BY <2>1, <2>4, <3>1 DEF IInv, TypeOK, RotType, Rounds
    <3>3. \A p \in Opens : arch.hi <= p /\ p <= pass.cur => Safe(p)
      BY <2>0 DEF IInv, ReadInv, CoverInv, Scope
    <3>4. arch.hi < pass.cur
      <4>1. arch.hi <= base + rot.reached
        BY <1>0, TailFacts
      <4> QED BY <1>1, <2>1, <2>4, <4>1
    <3>5. arch.hi <= pass.cur
      BY <3>4, <1>1
    <3>6. TailInv'
      BY <1>0, <1>2, <2>0, <2>1, <2>4, <3>2, <3>3, <3>4, <3>5, TailFacts DEF TailInv
    <3> QED BY <1>0, <2>2, <2>4, <3>2, <3>6, TailGoes
  <2> QED BY <1>4, <2>3, <2>4 DEF TailReturn
<1>5. CASE TailDone
  <2>1. pc' = "final" /\ UNCHANGED <<rot, pass>>
    BY <1>5 DEF TailDone
  <2>2. TailInv' /\ FinInv'
    BY <1>0, <1>2, <2>1, TailFacts DEF TailInv, FinInv
  <2> QED BY <1>0, <2>1, <2>2, Goes, TailGoes DEF IInv, TypeOK
<1>6. CASE FinalStat
  <2>1. CASE Leave
    BY <1>0, <2>1, LeaveStep DEF IInv, TypeOK
  <2>2. CASE /\ Size <= rot.reached /\ pc' = "mark" /\ UNCHANGED pass
             /\ rot' = [rot EXCEPT !.fin = Size]
    <3>1. Size = rot.reached /\ Size \in Nat
      <4>1. base + rot.reached <= Len(stream)
        BY <1>0, TailFacts
      <4> QED BY <1>1, <2>2, <4>1 DEF Size
    <3>2. /\ rot' \in RotType /\ rot'.start = rot.start /\ rot'.reached = rot.reached
          /\ rot'.round = rot.round /\ rot'.fin = Size
      BY <2>2, <3>1 DEF IInv, TypeOK, RotType
    <3>3. TailInv' /\ FinInv'
      BY <1>0, <1>2, <2>2, <3>1, <3>2, TailFacts DEF TailInv, FinInv
    <3> QED BY <1>0, <2>2, <3>2, <3>3, Goes, TailGoes DEF IInv, TypeOK
  <2> QED BY <1>6, <2>1, <2>2 DEF FinalStat
<1> QED BY <1>3, <1>4, <1>5, <1>6

LEMMA MarkStep == IInv /\ WriteMarker => IInv'
<1> SUFFICES ASSUME IInv, WriteMarker PROVE IInv'
  OBVIOUS
<1>0. /\ At({"tail", "final", "mark", "trunc"}, {"tail"}) /\ pc = "mark"
      /\ pc' = "trunc" /\ marker' = [from |-> rot.start, size |-> ArchSize]
      /\ UNCHANGED <<writer, base, offset, arch, db, tail, pass, rot, faults, history>>
  BY DEF WriteMarker, At
<1>1. ArchSize \in Nat /\ rot.start \in Nat
  <2>1. arch.lo <= arch.hi
    BY DEF IInv, FileInv, ArchInv
  <2>2. arch.lo \in Nat /\ arch.hi \in Nat /\ rot.start \in Nat
    BY NumberFacts
  <2> QED BY <2>1, <2>2 DEF ArchSize
<1>2. FileInv' /\ Settled' /\ Opens' = Opens /\ \A p : Safe(p)' <=> Safe(p)
  BY <1>0, TailFacts, SameArchive, SettledFiles DEF IInv, writer, history
<1>3. TypeOK'
  BY <1>0, <1>1 DEF IInv, TypeOK, Steps, writer, history
<1>4. SettledInv' /\ StagedInv'
  BY <1>0, <1>2 DEF SettledInv, StagedInv
<1>5. StartInv'
  BY <1>0, <1>2, TailFacts DEF StartInv, writer
<1>6. TailInv'
  BY <1>0, <1>2, TailFacts DEF TailInv, writer
<1>7. FinInv' /\ DeltaInv'
  BY <1>0 DEF IInv, RotInv, FinInv, DeltaInv, ArchSize
<1> QED BY <1>0, <1>2, <1>3, <1>4, <1>5, <1>6, <1>7, Goes DEF IInv, RotInv

\* A truncation makes nothing readable that was not.
LEMMA TruncatedLines ==
    ASSUME IInv, UNCHANGED stream, cuts' = cuts \cup {Len(stream)}
    PROVE  \A p \in Opens' : p \in Opens /\ p < Len(stream)
<1>1. TAKE p \in Opens'
<1>2. p \in 1..Len(stream) /\ Open(p)' /\ Len(stream) \in Nat
  BY NumberFacts DEF Opens
<1>3. p # Len(stream) /\ p \notin cuts
  BY <1>2 DEF Open
<1>4. p - 1 # Len(stream) /\ p < Len(stream)
  BY <1>2, <1>3
<1>5. Open(p)
  BY <1>2, <1>3, <1>4 DEF Open
<1> QED BY <1>2, <1>4, <1>5 DEF Opens

\* What the truncation takes out of the live file was ingested, is in the
\* archive behind the start the marker records, or is on record as caught.
LEMMA TruncateStep == IInv /\ Truncate => IInv'
<1> SUFFICES ASSUME IInv, Truncate PROVE IInv'
  OBVIOUS
<1>0. /\ At({"tail", "final", "mark", "trunc"}, {"tail"}) /\ pc = "trunc"
      /\ pc' = "reset" /\ base' = Len(stream)
      /\ late' = late \cup (base + rot.fin + 1 .. Len(stream))
      /\ cut' = cut \cup {p \in {base + rot.fin} : p > base /\ stream[p] = "head"}
      /\ cuts' = cuts \cup {Len(stream)}
      /\ UNCHANGED <<stream, owed, offset, arch, marker, db, tail, pass, rot, faults,
                     passed>>
  BY DEF Truncate, At, writer
<1>1. /\ base \in Nat /\ Len(stream) \in Nat /\ base <= Len(stream) /\ offset \in Nat
      /\ arch.lo \in Nat /\ arch.hi \in Nat /\ rot.start \in Nat
      /\ rot.reached \in Nat /\ rot.fin \in Nat
  BY NumberFacts
<1>2. /\ rot.fin = rot.reached
      /\ marker = [from |-> rot.start, size |-> ArchSize]
  BY <1>0 DEF IInv, RotInv, FinInv, DeltaInv, At
<1>3. marker # None /\ marker.from = rot.start /\ ArchSize = marker.size
  <2>1. arch.lo <= arch.hi
    BY DEF IInv, FileInv, ArchInv
  <2>2. ArchSize # -1
    BY <2>1, <1>1 DEF ArchSize
  <2> QED BY <1>2, <2>2 DEF None
<1>4. \A p \in Opens' : p \in Opens /\ p < Len(stream)
  BY <1>0, TruncatedLines
<1>5. TypeOK'
  <2>1. late' \subseteq Nat
    <3>1. base + rot.fin + 1 .. Len(stream) \subseteq Nat
      BY <1>1
    <3> QED BY <1>0, <3>1 DEF IInv, TypeOK
  <2>2. cut' \subseteq Nat
    <3>1. base + rot.fin \in Nat
      BY <1>1
    <3> QED BY <1>0, <3>1 DEF IInv, TypeOK
  <2>3. cuts' \subseteq Nat
    BY <1>0, <1>1 DEF IInv, TypeOK
  <2>4. base' \in 0..Len(stream')
    BY <1>0, <1>1
  <2> QED BY <1>0, <2>1, <2>2, <2>3, <2>4 DEF IInv, TypeOK, Steps
<1>6. CutsInv' /\ ArchInv'
  <2>1. \A c \in cuts : c \in Nat /\ c <= base
    BY DEF IInv, FileInv, CutsInv
  <2>2. /\ arch.lo <= arch.hi /\ arch.hi <= Len(stream)
        /\ \A c \in cuts : c <= arch.lo \/ arch.hi <= c
    BY DEF IInv, FileInv, ArchInv
  <2>3. CutsInv'
    BY <1>0, <1>1, <2>1 DEF CutsInv
  <2>4. ArchInv'
    BY <1>0, <2>2 DEF ArchInv
  <2> QED BY <2>3, <2>4
<1>7. OffsetInv'
  <2>1. ASSUME NEW p \in Opens' PROVE ~(Len(stream) < p)
    BY <1>1, <1>4, OpenFacts
  <2> QED BY <1>0, <2>1 DEF OffsetInv
<1>8. ArchivedInv'
  <2> SUFFICES ASSUME NEW p \in Opens' PROVE Safe(p)' \/ InDelta(p)'
    BY DEF ArchivedInv
  <2>0. p \in Opens /\ p < Len(stream) /\ p \in Nat /\ p # base /\ stream[p] = "head"
    BY <1>4, OpenFacts
  <2>1. \A x : Safe(x) => Safe(x)'
    BY <1>0 DEF Safe, Lost
  <2>2. CASE p < base
    <3>1. p <= base
      BY <1>1, <2>0, <2>2
    <3> QED BY <1>0, <2>0, <2>1, <3>1, TailFacts DEF Settled
  <2>3. CASE base < p /\ p < arch.hi
    <3>1. CASE p <= base + rot.start
      BY <1>0, <2>0, <2>1, <2>3, <3>1, TailFacts
    <3>2. CASE ~(p <= base + rot.start)
      <4>1. base + rot.start < p /\ p + 1 <= arch.hi
        BY <1>1, <2>0, <2>3, <3>2
      <4> QED BY <1>0, <1>3, <4>1, TailFacts DEF InDelta
    <3> QED BY <3>1, <3>2
  <2>4. CASE arch.hi <= p
    <3>1. CASE p > base + rot.fin
      <4>1. p \in base + rot.fin + 1 .. Len(stream)
        BY <1>1, <2>0, <3>1
      <4> QED BY <1>0, <4>1 DEF Safe, Lost
    <3>2. CASE p = base + rot.fin
      <4>1. p > base
        <5>1. base + 2 <= arch.hi
          BY <1>0, TailFacts
        <5> QED BY <1>1, <2>0, <2>4, <5>1
      <4> QED BY <1>0, <2>0, <3>2, <4>1 DEF Safe, Lost
    <3>3. CASE p < base + rot.fin
      <4>1. arch.hi < base + rot.reached /\ p <= base + rot.reached
        BY <1>1, <1>2, <2>0, <2>4, <3>3
      <4> QED BY <1>0, <2>0, <2>1, <2>4, <4>1, TailFacts
    <3>4. p > base + rot.fin \/ p = base + rot.fin \/ p < base + rot.fin
      BY <1>1, <2>0
    <3> QED BY <3>1, <3>2, <3>3, <3>4
  <2>5. p < base \/ (base < p /\ p < arch.hi) \/ arch.hi <= p
    BY <1>1, <2>0
  <2> QED BY <2>2, <2>3, <2>4, <2>5
<1>9. MarkerInv'
  BY <1>0, <1>3 DEF MarkerInv, ArchSize
<1>10. DeltaInv'
  BY <1>0, <1>2 DEF DeltaInv, ArchSize
<1>11. SettledInv' /\ StartInv' /\ StagedInv' /\ TailInv' /\ FinInv'
  BY <1>0 DEF SettledInv, StartInv, StagedInv, TailInv, FinInv, At
<1> QED BY <1>0, <1>5, <1>6, <1>7, <1>8, <1>9, <1>10, <1>11, Goes DEF IInv, FileInv, RotInv

\* Giving up with nothing owed.
LEMMA LeaveSettled ==
    ASSUME IInv, Settled, Leave, faults' \in 0..MaxFaults,
           marker' \in [from : Nat, size : Nat \cup {-1}],
           UNCHANGED <<writer, base, offset, arch, db, tail, history>>
    PROVE  IInv'
<1>1. FileInv'
  BY SameArchive, SettledFiles DEF IInv, writer, history
<1>2. TypeOK'
  BY AtStart DEF IInv, TypeOK, Leave, Steps, writer, history
<1> QED BY <1>1, <1>2, Rests DEF Leave

LEMMA FinishStep ==
    IInv /\ (TruncateFail \/ ResetOffset \/ RotatedDelta \/ RotatedReturn) => IInv'
<1> SUFFICES ASSUME IInv, TruncateFail \/ ResetOffset \/ RotatedDelta \/ RotatedReturn
             PROVE  IInv'
  OBVIOUS
<1>1. CASE TruncateFail
  <2>1. Settled
    BY <1>1, TailFacts DEF TruncateFail, At
  <2>2. marker' \in [from : Nat, size : Nat \cup {-1}]
    BY <1>1 DEF TruncateFail, None, IInv, TypeOK
  <2> QED BY <1>1, <2>1, <2>2, FaultTyped, LeaveSettled DEF TruncateFail
<1>2. CASE ResetOffset
  <2>0. /\ pc = "reset" /\ pc' = "delta" /\ (offset' = 0 \/ offset' = offset)
        /\ UNCHANGED <<writer, base, arch, marker, db, tail, pass, rot, history>>
        /\ faults' \in 0..MaxFaults
    BY <1>2, FaultTyped DEF ResetOffset, IInv, TypeOK
  <2>1. OffsetInv'
    <3>1. CASE offset' = offset
      <4>1. Opens' = Opens /\ \A p : Safe(p)' <=> Safe(p)
        BY <2>0, SameLines DEF writer, history, Safe, Lost
      <4> QED BY <2>0, <3>1, <4>1 DEF IInv, FileInv, OffsetInv
    <3>2. CASE offset' = 0
      BY <2>0, <3>2, OffsetZero DEF writer, history
    <3> QED BY <2>0, <3>1, <3>2
  <2>2. FileInv'
    BY <2>0, <2>1, OffsetMoves DEF IInv, writer, history
  <2>3. TypeOK'
    BY <2>0 DEF IInv, TypeOK, Steps, writer, history
  <2>4. RotInv'
    <3>1. DeltaInv'
      BY <2>0 DEF IInv, RotInv, DeltaInv, ArchSize, At
    <3> QED BY <2>0, <3>1 DEF RotInv, SettledInv, StartInv, StagedInv, TailInv, FinInv, At
  <2> QED BY <2>0, <2>2, <2>3, <2>4, Goes DEF IInv
<1>3. CASE RotatedDelta
  <2>0. /\ pc = "delta"
        /\ UNCHANGED <<writer, base, offset, arch, db, tail, history>>
        /\ marker = [from |-> rot.start, size |-> ArchSize]
    BY <1>3 DEF RotatedDelta, IInv, RotInv, DeltaInv, At
  <2>1. /\ arch.lo \in Nat /\ arch.hi \in Nat /\ rot.start \in Nat
        /\ marker.from = rot.start
    BY <2>0, NumberFacts
  <2>2. CASE ArchSize <= rot.start /\ Unmark /\ Leave
    <3>1. ASSUME NEW p \in Opens PROVE ~InDelta(p)
      <4>1. p \in Nat
        BY OpenFacts
      <4>2. ~(arch.lo + rot.start < p /\ p + 1 <= arch.hi)
        BY <2>1, <2>2, <4>1 DEF ArchSize
      <4> QED BY <2>1, <4>2 DEF InDelta
    <3>2. Settled
      BY <3>1 DEF Settled, IInv, FileInv, ArchivedInv
    <3> QED BY <2>0, <2>2, <3>2, MarkerTyped, LeaveSettled
  <2>3. CASE /\ ArchSize > rot.start /\ StartPass("rotated", arch.lo, rot.start)
             /\ UNCHANGED <<marker, rot, faults>>
    <3>1. FileInv' /\ Opens' = Opens /\ \A p : Safe(p)' <=> Safe(p)
      BY <2>0, <2>3, FilesStay DEF IInv, writer, files, history, Safe, Lost
    <3>2. /\ pc' = "pass" /\ pass'.kind = "rotated" /\ "rotated" \in Kinds
      BY <2>3 DEF StartPass, Kinds
    <3>3. marker # None
      <4>1. arch.lo <= arch.hi
        BY DEF IInv, FileInv, ArchInv
      <4>2. ArchSize # -1
        BY <4>1, <2>1 DEF ArchSize
      <4> QED BY <2>0, <4>2 DEF None
    <3>4. ASSUME NEW p \in Opens PROVE ~(Scope(p)' /\ p <= arch.lo + rot.start)
      BY <2>0, <2>1, <2>3, <3>2, OpenFacts DEF Scope
    <3>5. pass' \in PassType /\ pc' \in Steps /\ InfoInv' /\ ReadInv'
      BY <2>0, <2>1, <2>3, <3>1, <3>2, <3>3, <3>4, Starts DEF Live
    <3>6. TypeOK'
      BY <2>0, <2>3, <3>5 DEF IInv, TypeOK, writer, history
    <3>7. RotInv'
      <4>1. DeltaInv'
        BY <2>0, <2>3 DEF DeltaInv, ArchSize
      <4> QED BY <3>2, <4>1 DEF RotInv, SettledInv, StartInv, StagedInv, TailInv, FinInv, At
    <3> QED BY <3>1, <3>5, <3>6, <3>7 DEF IInv
  <2>4. CASE Fault /\ Leave /\ UNCHANGED marker
    <3>1. tail' \in TailType /\ UNCHANGED <<writer, files, db, history>>
      BY <2>0, <2>4 DEF IInv, TypeOK, files
    <3> QED BY <2>4, <3>1, FaultTyped, LeaveStep
  <2> QED BY <1>3, <2>2, <2>3, <2>4 DEF RotatedDelta
<1>4. CASE RotatedReturn
  BY <1>4, RetrySettles, MarkerTyped, LeaveSettled DEF RotatedReturn
<1> QED BY <1>1, <1>2, <1>3, <1>4

-----------------------------------------------------------------------------
(* The theorems.                                                           *)

LEMMA InitInv == Init => IInv
<1> SUFFICES ASSUME Init PROVE IInv
  OBVIOUS
<1>1. Len(stream) = 0 /\ stream \in Seq({"head", "rest"})
  BY EmptySeq DEF Init
<1>2. TypeOK
  BY <1>1, AtStart, RotationAssumption DEF Init, TypeOK, NoArch, None, Steps
<1>3. Opens = {}
  BY <1>1 DEF Opens
<1>4. FileInv
  BY <1>1, <1>3 DEF Init, FileInv, CutsInv, ArchInv, OffsetInv, ArchivedInv, MarkerInv,
                    NoArch
<1>5. RotInv /\ InfoInv /\ ReadInv
  BY DEF Init, RotInv, InfoInv, ReadInv, SettledInv, StartInv, StagedInv, TailInv,
         FinInv, DeltaInv, PassInv, CoverInv, EndInv, At
<1> QED BY <1>2, <1>4, <1>5 DEF IInv

LEMMA RotateStep == IInv /\ Rotate => IInv'
BY EntryStep, GateStep, GateReturnStep, ArchiveStep, TailStep, MarkStep, TruncateStep,
   FinishStep DEF Rotate

LEMMA CrashStep == IInv /\ Crash => IInv'
<1> SUFFICES ASSUME IInv, Crash PROVE IInv'
  OBVIOUS
<1> QED BY FaultTyped, AtStart, LeaveStep DEF Crash

LEMMA StutterStep == IInv /\ UNCHANGED vars => IInv'
<1> SUFFICES ASSUME IInv, UNCHANGED vars PROVE IInv'
  OBVIOUS
<1>1. Opens' = Opens /\ \A p : Safe(p)' <=> Safe(p)
  BY SameLines DEF vars, Safe, Lost
<1>2. TypeOK'
  BY DEF IInv, TypeOK, vars
<1> QED BY <1>1, <1>2, WriterKeeps DEF vars, files

LEMMA Inductive == Spec => []IInv
<1>1. IInv /\ [Next]_vars => IInv'
  BY WriterStep, PassStep, TickStep, RotateStep, CrashStep, StutterStep DEF Next
<1> QED BY InitInv, <1>1, PTL DEF Spec

\* The state of the log, of the poll and of its files is well typed: offsets,
\* sizes and positions never become negative, the live file never begins after
\* the end of what was written, and a tail loop makes at most three rounds.
THEOREM AuditTypeCorrect == Spec => []TypeOK
BY Inductive, PTL DEF IInv

\* No event is lost between audit.log, its archive and the database, however
\* the writer, the ticks, the rotations, failing steps and deaths of the panel
\* interleave, but those begun after the last stat before a truncation, the
\* one in flight at it, and those begun below an offset a truncation left
\* behind.
THEOREM EventsAreKept == Spec => []NothingLost
<1>1. IInv => NothingLost
  <2> SUFFICES ASSUME IInv, NEW p \in 1..Len(stream), Legible(p)
               PROVE  Kept(p) \/ p \in late \cup cut \cup passed
    BY DEF NothingLost
  <2>1. p \in Opens
    BY DEF Opens, Open, Legible
  <2>2. /\ p \in Nat /\ p # base /\ base \in Nat /\ offset \in Nat
        /\ p > base \/ p <= base
    BY <2>1, OpenFacts, NumberFacts
  <2>3. Safe(p) => p \in db \/ p \in late \cup cut \cup passed
    BY DEF Safe, Lost
  <2>4. CASE p <= base
    BY <2>1, <2>3, <2>4 DEF IInv, FileInv, ArchivedInv, Kept
  <2>5. CASE p > base
    <3>1. CASE p <= base + offset
      BY <2>1, <2>2, <2>3, <2>5, <3>1 DEF IInv, FileInv, OffsetInv, Kept
    <3>2. CASE p > base + offset
      <4>1. p > base + 0
        BY <2>2, <2>5
      <4>2. InLive(p)
        BY <3>2, <4>1 DEF InLive
      <4> QED BY <4>2 DEF Kept
    <3> QED BY <2>2, <3>1, <3>2
  <2> QED BY <2>2, <2>4, <2>5
<1> QED BY Inductive, <1>1, PTL
=============================================================================
