--------------------------- MODULE AuditRotation ---------------------------
(***************************************************************************)
(* The audit log between its writer and the event database                 *)
(* (internal/services/auditlog_rotation.go, securityevents.go;             *)
(* caddygeoip/auditwriter.go).                                             *)
(*                                                                         *)
(* The writer in the Caddy process appends JSON lines to audit.log.  The   *)
(* panel polls: it reads on from a persisted offset, commits the events,   *)
(* persists the new offset, and rotates the file when it is large: copy to *)
(* .1, truncate, start at 0 again.  No lock is shared with the writer, a   *)
(* line may be half written at any moment, every write of the panel may    *)
(* fail and it may die between any two steps.                              *)
(*                                                                         *)
(* A line is two tokens: its head, and its rest with the newline.  stream  *)
(* is everything ever appended; the live file is its part after base, .1   *)
(* the part after arch.lo up to arch.hi.  An event is named by the         *)
(* position of its head.  Offsets count tokens from the start of a file,   *)
(* as the code counts bytes; positions count from the start of stream.     *)
(*                                                                         *)
(* One generation of the metrics library, one inode, no region without a   *)
(* line start of 4 MB or more.                                             *)
(***************************************************************************)
EXTENDS Integers, Sequences

CONSTANTS MaxTokens,  \* tokens the writer appends in a behaviour
          MaxFaults,  \* errors, torn lines, stops and deaths in it
          Threshold,  \* size that asks for a rotation (audit_log_size_mb)
          Backlog,    \* auditLogRotationPreflightTailLimit
          StallLimit  \* securityEventsDecodeStallLimit

\* A log is never rotated for a single line (1 MB at most against 10 MB).
ASSUME RotationAssumption ==
    /\ MaxTokens \in Nat /\ MaxFaults \in Nat /\ StallLimit \in Nat
    /\ Threshold \in Nat /\ Threshold >= 2
    /\ Backlog \in Nat

VARIABLES
    stream,  \* every token appended to audit.log
    owed,    \* tokens the writer still owes to its last line
    base,    \* tokens the truncations removed
    offset,  \* the offset file
    arch,    \* audit.log.1
    marker,  \* audit.log.delta-pending
    db,      \* events committed to security_events
    pc,      \* the step of the poll
    tail,    \* securityEventsTailer: what it remembers between polls
    pass,    \* the ingest pass that is running
    rot,     \* locals of rotateAuditLogIfNeeded
    faults,  \* faults so far
    late,    \* begun between the last stat and its truncation (history)
    cut,     \* in flight at the last stat before a truncation (history)
    passed,  \* begun below the offset, which a truncation left behind (history)
    cuts     \* the places of the truncations, and 0 (history)

writer  == <<stream, owed>>
files   == <<base, offset, arch, marker>>
history == <<late, cut, passed, cuts>>
vars    == <<stream, owed, base, offset, arch, marker, db, pc, tail, pass, rot,
             faults, late, cut, passed, cuts>>

None   == [from |-> 0, size |-> -1]  \* no marker
NoArch == [lo |-> 0, hi |-> 0]
Unseen == -1                         \* lastInfo = nil
Idle   == [kind |-> "none", lo |-> 0, cur |-> 0, done |-> 0, batch |-> {},
           err |-> FALSE]
NoRot  == [pre |-> 0, start |-> 0, reached |-> 0, round |-> 0, fin |-> 0,
           staged |-> 0]
Fresh  == [size |-> Unseen, of |-> 0, info |-> 0, clean |-> FALSE,
           bound |-> FALSE, at |-> 0, count |-> 0]

Kinds == {"tick", "retry", "gate", "tail", "rotated"}
Steps == {"idle", "tick", "pass", "ret", "rot", "size", "copy", "shift",
          "promote", "tail", "final", "mark", "trunc", "reset", "delta"}

Size == Len(stream) - base

-----------------------------------------------------------------------------
(* Reading a file.                                                         *)

\* A line begins at q: the token before it ended with a newline.
LineStart(q) == stream[q] = "head" /\ stream[q - 1] = "rest"

\* The end of the file the pass reads.
End == IF pass.kind \in {"retry", "rotated"} THEN arch.hi ELSE Len(stream)

\* The decoder finds a whole document at its position.
DocAt(c) == c + 2 <= End /\ stream[c + 1] = "head" /\ stream[c + 2] = "rest"

\* Where the forward scan for "\n{" may stop.
Ahead(c) == {q \in c + 2 .. End : LineStart(q)}

\* The first of them, if there is one.
FindNextDocument(c) == {q \in Ahead(c) : \A r \in Ahead(c) : q <= r}

\* The line starts below an offset of the live file.
Behind(o) == {q \in base + 2 .. base + o : LineStart(q)}

\* Defective variant: no scan, the read starts where the copy ended.
Backscan_Copied(o) == {o}

\* The offset of the last of them; the offset given when there is none.
Backscan(o) ==
    {s \in 0..o : \/ Behind(o) = {} /\ s = o
                  \/ /\ base + s + 1 \in Behind(o)
                     /\ \A r \in Behind(o) : r <= base + s + 1}

Fault == /\ faults < MaxFaults
         /\ faults' = faults + 1

-----------------------------------------------------------------------------
(* The writer.                                                             *)

\* A first write that ends inside a line: the buffer filled up, or the write
\* was short.
WriteHead ==
    /\ owed = 0 /\ Len(stream) < MaxTokens
    /\ stream' = Append(stream, "head")
    /\ owed' = 1
    /\ passed' = IF Len(stream) + 1 <= base + offset
                 THEN passed \cup {Len(stream) + 1} ELSE passed
    /\ UNCHANGED <<files, db, pc, tail, pass, rot, faults, late, cut, cuts>>

WriteRest ==
    /\ owed = 1 /\ Len(stream) < MaxTokens
    /\ stream' = Append(stream, "rest")
    /\ owed' = 0
    /\ UNCHANGED <<files, db, pc, tail, pass, rot, faults, history>>

\* A failed flush drops the buffer and reopens the file, or the process dies:
\* the next line continues the torn one.
Tear ==
    /\ owed = 1 /\ Fault
    /\ owed' = 0
    /\ UNCHANGED <<stream, files, db, pc, tail, pass, rot, history>>

-----------------------------------------------------------------------------
(* The ingest pass, shared by the tick and by the rotation's own reads.    *)

StartPass(kind, lo, from) ==
    /\ pc' = "pass"
    /\ pass' = [kind |-> kind, lo |-> lo, cur |-> lo + from, done |-> lo + from,
                batch |-> {}, err |-> FALSE]

Archive == pass.kind # "tick"  \* archivePass: bounded, does not wait

\* A document is decoded into the open transaction.  A known transaction id is
\* ignored by the insert.
PassDoc ==
    /\ pc = "pass" /\ DocAt(pass.cur)
    /\ pass' = [pass EXCEPT !.batch = @ \cup {pass.cur + 1}, !.cur = @ + 2]
    /\ UNCHANGED <<writer, files, db, pc, tail, rot, faults, history>>

\* It fills the batch; a live pass may have used up its quota with it.
PassBatch ==
    /\ pc = "pass" /\ DocAt(pass.cur)
    /\ db' = db \cup pass.batch \cup {pass.cur + 1}
    /\ pass' = [pass EXCEPT !.batch = {}, !.cur = @ + 2, !.done = pass.cur + 2]
    /\ \/ UNCHANGED <<pc, tail>>
       \/ /\ ~Archive
          /\ tail' = [tail EXCEPT !.bound = TRUE]
          /\ pc' = "ret"
    /\ UNCHANGED <<writer, files, rot, faults, history>>

\* Nothing whole follows, and no later line begins: commit and report the
\* position.
PassEnd ==
    /\ pc = "pass" /\ ~DocAt(pass.cur) /\ Ahead(pass.cur) = {}
    /\ db' = db \cup pass.batch
    /\ pass' = [pass EXCEPT !.batch = {}, !.done = pass.cur]
    /\ pc' = "ret"
    /\ UNCHANGED <<writer, files, tail, rot, faults, history>>

\* The wait at an unreadable place of the live file, counted per offset.
Stalls == IF tail.at = pass.cur - pass.lo THEN tail.count + 1 ELSE 1

\* A live pass waits for the place to become readable.
PassStall ==
    /\ pc = "pass" /\ ~DocAt(pass.cur) /\ Ahead(pass.cur) # {}
    /\ ~Archive /\ Stalls <= StallLimit
    /\ db' = db \cup pass.batch
    /\ pass' = [pass EXCEPT !.batch = {}, !.done = pass.cur, !.err = TRUE]
    /\ tail' = [tail EXCEPT !.at = pass.cur - pass.lo, !.count = Stalls]
    /\ pc' = "ret"
    /\ UNCHANGED <<writer, files, rot, faults, history>>

\* It waited long enough, or the file does not change: on to the next line.
PassSkip ==
    /\ pc = "pass" /\ ~DocAt(pass.cur) /\ Ahead(pass.cur) # {}
    /\ Archive \/ Stalls > StallLimit
    /\ \E q \in FindNextDocument(pass.cur) :
         /\ pass' = [pass EXCEPT !.cur = q - 1]
         /\ tail' = IF Archive THEN tail
                    ELSE [tail EXCEPT !.at = q - 1 - pass.lo,
                                      !.count = StallLimit + 1]
    /\ UNCHANGED <<writer, files, db, pc, rot, faults, history>>

\* The database or the file fails: the open batch is rolled back.
PassFail ==
    /\ pc = "pass" /\ Fault
    /\ pass' = [pass EXCEPT !.batch = {}, !.cur = pass.done, !.err = TRUE]
    /\ pc' = "ret"
    /\ UNCHANGED <<writer, files, db, tail, rot, history>>

\* The engine is stopped: a live pass ends between two documents.
PassCancel ==
    /\ pc = "pass" /\ ~Archive /\ Fault
    /\ db' = db \cup pass.batch
    /\ pass' = [pass EXCEPT !.batch = {}, !.done = pass.cur]
    /\ tail' = [tail EXCEPT !.bound = TRUE]
    /\ pc' = "ret"
    /\ UNCHANGED <<writer, files, rot, history>>

-----------------------------------------------------------------------------
(* The tick.                                                               *)

TickStat ==
    /\ pc = "idle"
    /\ tail' = [tail EXCEPT !.info = Size]
    /\ pc' = "tick"
    /\ UNCHANGED <<writer, files, db, pass, rot, faults, history>>

ShouldReset == tail.info < offset

\* The file shrank below the offset: start over.
TickReset ==
    /\ pc = "tick" /\ ShouldReset
    /\ offset' = 0
    /\ tail' = [tail EXCEPT !.bound = FALSE]
    /\ StartPass("tick", base, 0)
    /\ UNCHANGED <<writer, base, arch, marker, db, rot, faults, history>>

\* Defective variant: a pass that stopped at its quota counts as finished.
Unchanged_Bound == tail.clean /\ tail.info = tail.size

\* No byte was added since the last clean pass.
Unchanged ==
    tail.clean /\ ~tail.bound /\ tail.info = tail.size

TickIdle ==
    /\ pc = "tick" /\ ~ShouldReset /\ Unchanged
    /\ pc' = "rot"
    /\ UNCHANGED <<writer, files, db, tail, pass, rot, faults, history>>

TickRead ==
    /\ pc = "tick" /\ ~ShouldReset /\ ~Unchanged
    /\ tail' = [tail EXCEPT !.bound = FALSE]
    /\ StartPass("tick", base, offset)
    /\ UNCHANGED <<writer, files, db, rot, faults, history>>

\* A stat, a read, the write of the reset or the mappings fail.
TickFail ==
    /\ pc = "tick" /\ Fault
    /\ offset' \in {offset} \cup (IF ShouldReset THEN {0} ELSE {})
    /\ pc' = "rot"
    /\ UNCHANGED <<writer, base, arch, marker, db, tail, pass, rot, history>>

\* The pass is over: persist the offset it reached.
TickReturn ==
    /\ pc = "ret" /\ pass.kind = "tick"
    /\ \/ /\ offset' = pass.cur - pass.lo
          /\ tail' = [tail EXCEPT !.clean = ~pass.err, !.size = tail.info,
                                  !.of = base]
          /\ UNCHANGED faults
       \/ /\ pass.cur - pass.lo # offset /\ Fault
          /\ tail' = [tail EXCEPT !.clean = FALSE, !.size = tail.info,
                                  !.of = base]
          /\ UNCHANGED offset
    /\ pass' = Idle
    /\ pc' = "rot"
    /\ UNCHANGED <<writer, base, arch, marker, db, rot, history>>

-----------------------------------------------------------------------------
(* The rotation.                                                           *)

Leave == pc' = "idle" /\ pass' = Idle /\ rot' = NoRot

ArchSize == arch.hi - arch.lo

\* os.Remove of the marker, whose error is ignored.
Unmark == \/ marker' = None /\ UNCHANGED faults
          \/ Fault /\ UNCHANGED marker

\* First the delta an earlier rotation left behind: without one go on; one
\* whose archive is gone or shorter than recorded is dropped.
RotateEntry ==
    /\ pc = "rot"
    /\ \/ marker = None /\ UNCHANGED <<marker, faults>>
       \/ marker # None /\ ArchSize < marker.size /\ Unmark
    /\ pc' = "size"
    /\ UNCHANGED <<writer, base, offset, arch, db, tail, pass, rot, history>>

RotateRetry ==
    /\ pc = "rot" /\ marker # None /\ ArchSize >= marker.size
    /\ StartPass("retry", arch.lo, marker.from)
    /\ UNCHANGED <<writer, files, db, tail, rot, faults, history>>

RetryReturn ==
    /\ pc = "ret" /\ pass.kind = "retry" /\ ~pass.err
    /\ Unmark
    /\ pass' = Idle
    /\ pc' = "size"
    /\ UNCHANGED <<writer, base, offset, arch, db, tail, rot, history>>

\* A failed ingest of the rotation ends it; a marker stays.
RotateGivesUp ==
    /\ pc = "ret" /\ pass.kind # "tick" /\ pass.err
    /\ Leave
    /\ UNCHANGED <<writer, files, db, tail, faults, history>>

\* Any step of the rotation before the truncation may fail; so may the read
\* of the marker.
RotateFail ==
    /\ pc \in {"rot", "size", "copy", "shift", "promote", "tail", "final", "mark"}
    /\ Fault /\ Leave
    /\ UNCHANGED <<writer, files, db, tail, history>>

Small == Size = 0 \/ Size < Threshold

\* An offset file that cannot be read counts as 0.
Offsets == {offset} \cup (IF faults < MaxFaults THEN {0} ELSE {})

NotDue ==
    /\ pc = "size" /\ Small
    /\ Leave
    /\ UNCHANGED <<writer, files, db, tail, faults, history>>

\* The gate before the copy: the rest of the live file is ingested first, too
\* large a rest is left to the ticks.
Gate ==
    /\ pc = "size" /\ ~Small
    /\ \E o \in Offsets :
         /\ faults' = IF o = offset THEN faults ELSE faults + 1
         /\ \/ /\ Size - o > Backlog
               /\ Leave
            \/ /\ Size > o /\ Size - o <= Backlog
               /\ rot' = [rot EXCEPT !.pre = Size, !.start = o]
               /\ StartPass("gate", base, o)
            \/ /\ Size <= o
               /\ rot' = [rot EXCEPT !.pre = Size, !.start = o]
               /\ pc' = "copy" /\ UNCHANGED pass
    /\ UNCHANGED <<writer, files, db, tail, history>>

Later(m, n) == IF n > m THEN n ELSE m

\* Caught up with the size seen: the archive is ingested from here.
GateReturn ==
    /\ pc = "ret" /\ pass.kind = "gate" /\ ~pass.err
    /\ \/ /\ pass.cur - pass.lo < rot.pre
          /\ Leave
       \/ /\ pass.cur - pass.lo >= rot.pre
          /\ rot' = [rot EXCEPT !.start = Later(@, pass.cur - pass.lo)]
          /\ pass' = Idle
          /\ pc' = "copy"
    /\ UNCHANGED <<writer, files, db, tail, faults, history>>

\* audit.log.1.new
Copy ==
    /\ pc = "copy"
    /\ rot' = [rot EXCEPT !.staged = Len(stream)]
    /\ pc' = "shift"
    /\ UNCHANGED <<writer, files, db, tail, pass, faults, history>>

\* .1 becomes .2.
Shift ==
    /\ pc = "shift"
    /\ arch' = NoArch
    /\ pc' = "promote"
    /\ UNCHANGED <<writer, base, offset, marker, db, tail, pass, rot, faults,
                   history>>

\* The copy becomes .1.
Promote ==
    /\ pc = "promote"
    /\ arch' = [lo |-> base, hi |-> rot.staged]
    /\ rot' = [rot EXCEPT !.reached = rot.staged - base, !.round = 0]
    /\ pc' = "tail"
    /\ UNCHANGED <<writer, base, offset, marker, db, tail, pass, faults, history>>

Rounds == 3

\* What was written since the copy is ingested from the live file, from the
\* start of the line the copy may have cut.
TailRead ==
    /\ pc = "tail" /\ rot.round < Rounds /\ Size > rot.reached
    /\ \E from \in IF rot.round = 0 THEN Backscan(ArchSize) ELSE {rot.reached} :
         StartPass("tail", base, from)
    /\ UNCHANGED <<writer, files, db, tail, rot, faults, history>>

TailReturn ==
    /\ pc = "ret" /\ pass.kind = "tail" /\ ~pass.err
    /\ \/ /\ pass.cur - pass.lo <= rot.reached
          /\ pc' = "final" /\ UNCHANGED rot
       \/ /\ pass.cur - pass.lo > rot.reached
          /\ rot' = [rot EXCEPT !.reached = pass.cur - pass.lo, !.round = @ + 1]
          /\ pc' = "tail"
    /\ pass' = Idle
    /\ UNCHANGED <<writer, files, db, tail, faults, history>>

\* Three rounds, nothing more to read, or the stat fails.
TailDone ==
    /\ pc = "tail"
    /\ \/ (rot.round = Rounds \/ Size <= rot.reached) /\ UNCHANGED faults
       \/ Fault
    /\ pc' = "final"
    /\ UNCHANGED <<writer, files, db, tail, pass, rot, history>>

\* Defective variant: a log that was read to its end is deferred as well.
FinalStat_Strict ==
    /\ pc = "final"
    /\ \/ /\ Size >= rot.reached
          /\ Leave
       \/ /\ Size < rot.reached
          /\ rot' = [rot EXCEPT !.fin = Size]
          /\ pc' = "mark" /\ UNCHANGED pass
    /\ UNCHANGED <<writer, files, db, tail, faults, history>>

\* The last look before the truncation: anything beyond what was reached
\* defers it.
FinalStat ==
    /\ pc = "final"
    /\ \/ /\ Size > rot.reached
          /\ Leave
       \/ /\ Size <= rot.reached
          /\ rot' = [rot EXCEPT !.fin = Size]
          /\ pc' = "mark" /\ UNCHANGED pass
    /\ UNCHANGED <<writer, files, db, tail, faults, history>>

WriteMarker ==
    /\ pc = "mark"
    /\ marker' = [from |-> rot.start, size |-> ArchSize]
    /\ pc' = "trunc"
    /\ UNCHANGED <<writer, base, offset, arch, db, tail, pass, rot, faults,
                   history>>

Truncate ==
    /\ pc = "trunc"
    /\ base' = Len(stream)
    /\ late' = late \cup (base + rot.fin + 1 .. Len(stream))
    /\ cut' = cut \cup {p \in {base + rot.fin} : p > base /\ stream[p] = "head"}
    /\ cuts' = cuts \cup {Len(stream)}
    /\ pc' = "reset"
    /\ UNCHANGED <<writer, offset, arch, marker, db, tail, pass, rot, faults,
                   passed>>

\* The file is whole: the marker goes.
TruncateFail ==
    /\ pc = "trunc" /\ Fault
    /\ marker' \in {None, marker}
    /\ Leave
    /\ UNCHANGED <<writer, base, offset, arch, db, tail, history>>

\* The failure of this write is only logged.
ResetOffset ==
    /\ pc = "reset"
    /\ \/ offset' = 0 /\ UNCHANGED faults
       \/ Fault /\ UNCHANGED offset
    /\ pc' = "delta"
    /\ UNCHANGED <<writer, base, arch, marker, db, tail, pass, rot, history>>

\* The window of the rotation, from .1; nothing to do when the archive ends
\* before it.
RotatedDelta ==
    /\ pc = "delta"
    /\ \/ /\ ArchSize <= rot.start
          /\ Unmark /\ Leave
       \/ /\ ArchSize > rot.start
          /\ StartPass("rotated", arch.lo, rot.start)
          /\ UNCHANGED <<marker, rot, faults>>
       \/ /\ Fault /\ Leave
          /\ UNCHANGED marker
    /\ UNCHANGED <<writer, base, offset, arch, db, tail, history>>

RotatedReturn ==
    /\ pc = "ret" /\ pass.kind = "rotated" /\ ~pass.err
    /\ Unmark /\ Leave
    /\ UNCHANGED <<writer, base, offset, arch, db, tail, history>>

-----------------------------------------------------------------------------
\* The panel dies and starts again: files and database stay.
Crash ==
    /\ Fault /\ Leave
    /\ tail' = Fresh
    /\ UNCHANGED <<writer, files, db, history>>

Init ==
    /\ stream = <<>> /\ owed = 0 /\ base = 0 /\ offset = 0
    /\ arch = NoArch /\ marker = None /\ db = {}
    /\ pc = "idle" /\ tail = Fresh /\ pass = Idle /\ rot = NoRot
    /\ faults = 0 /\ late = {} /\ cut = {} /\ passed = {} /\ cuts = {0}

Pass == \/ PassDoc \/ PassBatch \/ PassEnd \/ PassStall \/ PassSkip \/ PassFail
        \/ PassCancel

Tick == \/ TickStat \/ TickReset \/ TickIdle \/ TickRead \/ TickFail
        \/ TickReturn

Rotate == \/ RotateEntry \/ RotateRetry \/ RetryReturn \/ RotateGivesUp
          \/ RotateFail \/ NotDue \/ Gate \/ GateReturn \/ Copy \/ Shift
          \/ Promote \/ TailRead \/ TailReturn \/ TailDone \/ FinalStat
          \/ WriteMarker \/ Truncate \/ TruncateFail \/ ResetOffset
          \/ RotatedDelta \/ RotatedReturn

Writer == WriteHead \/ WriteRest \/ Tear

Next == Writer \/ Pass \/ Tick \/ Rotate \/ Crash

\* The daemon loop keeps polling.
Spec == Init /\ [][Next]_vars /\ WF_vars(Pass \/ Tick \/ Rotate)

-----------------------------------------------------------------------------
(* Properties.                                                             *)

TailType == [size : Int, of : Nat, info : Nat, clean : BOOLEAN, bound : BOOLEAN,
             at : Nat, count : Nat]
PassType == [kind : Kinds \cup {"none"}, lo : Nat, cur : Nat, done : Nat,
             batch : SUBSET Nat, err : BOOLEAN]
RotType  == [pre : Nat, start : Nat, reached : Nat, round : 0..Rounds, fin : Nat,
             staged : Nat]

TypeOK ==
    /\ stream \in Seq({"head", "rest"}) /\ owed \in 0..1
    /\ base \in 0..Len(stream) /\ offset \in Nat
    /\ arch \in [lo : Nat, hi : Nat]
    /\ marker \in [from : Nat, size : Nat \cup {-1}]
    /\ db \subseteq Nat
    /\ pc \in Steps /\ tail \in TailType /\ pass \in PassType /\ rot \in RotType
    /\ faults \in 0..MaxFaults
    /\ late \subseteq Nat /\ cut \subseteq Nat /\ passed \subseteq Nat
    /\ cuts \subseteq Nat

\* The line at p is whole, begins a line of its file and was not cut in two by
\* a truncation.
Legible(p) ==
    /\ p + 1 <= Len(stream) /\ stream[p] = "head" /\ stream[p + 1] = "rest"
    /\ p - 1 \in cuts \/ (p > 1 /\ stream[p - 1] = "rest")
    /\ p \notin cuts

\* The tick will come to it: it starts over when the file is too short, and
\* the rotation is about to reset the offset after its truncation.
InLive(p) ==
    p > base + (IF Size < offset \/ pc = "reset" THEN 0 ELSE offset)

\* The retry will come to it.
InDelta(p) ==
    marker # None /\ arch.lo + marker.from < p /\ p + 1 <= arch.hi

Kept(p) == p \in db \/ InLive(p) \/ InDelta(p)

\* No event is lost between the log, its archive and the database, whatever
\* fails and wherever the panel dies, but those a truncation caught after the
\* last look or in flight, and those appended while the offset of the file
\* before was still on record.
NothingLost ==
    \A p \in 1..Len(stream) :
        Legible(p) => Kept(p) \/ p \in late \cup cut \cup passed

\* The log has, after a truncation, exactly the size the last tick saw.
SameSize == tail.of # base /\ tail.size = Size

\* Every event reaches the database, unless the log regrew to the size seen
\* and stays at it.
DrainedUnlessSame ==
    \A p \in 1..MaxTokens :
        Legible(p) ~> (p \in db \cup late \cup cut \cup passed \/ []SameSize)

\* A rotation is not deferred for ever: a large log that ends with a readable
\* line is truncated unless more is written (or the line was appended while
\* the offset of the file before was on record: an offset inside a line).
Shrinks ==
    \A n \in 1..MaxTokens :
        (Len(stream) = n /\ Size >= Threshold /\ Legible(n - 1)
            /\ n - 1 \notin passed)
            ~> (Len(stream) > n \/ base = n)
=============================================================================
