------------------------------- MODULE AuditLog -------------------------------
(***************************************************************************)
(* AuditLog of rust/crates/jasusi-service/src/audit.rs: open, append and   *)
(* verify.                                                                 *)
(*                                                                         *)
(* append holds its locks throughout, so appends do not interleave; verify *)
(* holds the writer's lock only to duplicate the file and seek.  The       *)
(* duplicate shares its offset with the writer, and a file opened for      *)
(* appending leaves the offset at its end after every write.  A line is    *)
(* [seq, prev, hash]; the hash of an event is the event's own number, 0    *)
(* the hash before the first.  The offset counts half lines, because a     *)
(* read of verify may end within a line.                                   *)
(*                                                                         *)
(* The writer is a BufWriter: writeln! gives it a line and then its        *)
(* newline.  A short line waits in the buffer for the flush; one of 8 KiB  *)
(* or more goes to the file at once, after what was buffered, and only its *)
(* newline waits.  A write may be cut off anywhere, by an error or by a    *)
(* kill, and what is written next goes on where it was cut off: a line     *)
(* that so becomes part of another can no longer be read.                  *)
(***************************************************************************)
EXTENDS Naturals, Sequences, FiniteSets

CONSTANTS
    Verifiers,    \* threads that call verify
    MaxEvents,    \* bound: calls of append
    MaxFailures,  \* bound: failed writes
    MaxRestarts   \* bound: closes and crashes

AuditAssumption ==
    MaxEvents \in Nat /\ MaxFailures \in Nat /\ MaxRestarts \in Nat

Event == 1..MaxEvents
Line  == [seq : 0..MaxEvents, prev : 0..MaxEvents, hash : Event]

VARIABLES
    file,      \* the lines on disk, in the order they were written
    torn,      \* what the file ends in:
               \*   "no"    a newline
               \*   "part"  a part of the first line of `buffer`
               \*   "line"  a line whose newline is the first thing in `buffer`
               \*   "bare"  a line whose newline is lost
               \*   "junk"  a part of a line whose rest is lost
    spoiled,   \* events whose lines on disk are joined to other bytes
    buffer,    \* lines the BufWriter holds after a failed write
    sequence, previous,    \* the next sequence number, the last hash
    log,       \* open, closed or unreadable
    events, acked, failures, restarts,
    kills,     \* history: crashes in the middle of an append
    offset,    \* of the open file, shared by its duplicates, in half lines
    vpc, expected, chain,  \* a verifier, and the sequence and hash it expects
    held,      \* the line whose first half it has read, 0 if none
    verdict,   \* what its last call returned
    disturbed  \* history: verifiers whose offset another thread has moved

writerVars == <<file, torn, spoiled, buffer, sequence, previous, log>>
callVars   == <<events, acked, failures, restarts, kills>>
verifyVars == <<vpc, expected, chain, held, verdict>>
sharedVars == <<offset, disturbed>>
vars == <<writerVars, callVars, verifyVars, sharedVars>>

\* `lines()` takes a last line without its newline for a line.
HalfLine == torn \in {"part", "junk"}
End == 2 * Len(file) + IF HalfLine THEN 1 ELSE 0
Garbled == MaxEvents + 1    \* what a verifier holds is of no single line

TypeOK ==
    /\ file \in Seq(Line)
    /\ buffer \in Seq(Line)
    /\ torn \in {"no", "part", "line", "bare", "junk"}
    /\ spoiled \subseteq Event
    /\ log \in {"open", "closed", "unreadable"}
    /\ torn = "part" => buffer # << >>
    /\ log # "open" => torn \in {"no", "bare", "junk"}
    /\ sequence \in 0..MaxEvents /\ previous \in 0..MaxEvents
    /\ events \in 0..MaxEvents /\ acked \subseteq Event
    /\ failures \in 0..MaxFailures /\ restarts \in 0..MaxRestarts
    /\ kills \in 0..restarts
    /\ offset \in 0..End
    /\ vpc \in [Verifiers -> {"idle", "read"}]
    /\ expected \in [Verifiers -> 0..MaxEvents]
    /\ chain \in [Verifiers -> 0..MaxEvents]
    /\ held \in [Verifiers -> 0..Garbled]
    /\ verdict \in [Verifiers -> {"none", "ok", "error"}]
    /\ disturbed \subseteq Verifiers

Init ==
    /\ file = << >> /\ torn = "no" /\ spoiled = {} /\ buffer = << >>
    /\ sequence = 0 /\ previous = 0 /\ log = "open"
    /\ events = 0 /\ acked = {} /\ failures = 0 /\ restarts = 0 /\ kills = 0
    /\ offset = 0
    /\ vpc = [v \in Verifiers |-> "idle"]
    /\ expected = [v \in Verifiers |-> 0]
    /\ chain = [v \in Verifiers |-> 0]
    /\ held = [v \in Verifiers |-> 0]
    /\ verdict = [v \in Verifiers |-> "none"]
    /\ disturbed = {}

\* What verify checks, of a line and of a whole file.
Follows(lines, i) ==
    /\ lines[i].hash \notin spoiled
    /\ lines[i].seq = i - 1
    /\ lines[i].prev = IF i = 1 THEN 0 ELSE lines[i - 1].hash
Intact(lines) == \A i \in DOMAIN lines : Follows(lines, i)

-----------------------------------------------------------------------------
NewLine == [seq |-> sequence, prev |-> previous, hash |-> events + 1]
Pending == Append(buffer, NewLine)

\* append: the sequence number is taken first, whatever happens next.
Append_ ==
    /\ log = "open" /\ events < MaxEvents
    /\ events' = events + 1
    /\ sequence' = sequence + 1

\* A write to the file; the offset is at the end afterwards.
Written ==
    /\ offset' = End'
    /\ disturbed' = {v \in Verifiers : vpc[v] = "read"}

\* What is written next completes what the file ends in.
Sound == torn \in {"no", "part", "line"}

\* If not, it spoils the first line of what is written, and a bare last one.
Spoils(lines) ==
    IF Sound THEN {}
    ELSE {lines[i].hash : i \in DOMAIN lines \cap {1}}
         \cup {file[i].hash : i \in {k \in {Len(file)} : torn = "bare"}}

\* The file has got `lines`, and then what it ends in.
Extend(lines, end) ==
    /\ file' = file \o lines
    /\ torn' = end
    /\ spoiled' = spoiled \cup Spoils(lines)

\* A write of `lines` may stop after n of them: behind their newlines, within
\* the next line, or right before the newline of the last one.
StopsAfter(lines, n, end) ==
    \/ end = "no" /\ n < Len(lines) /\ (n = 0 => torn = "line")
    \/ end = "part" /\ n < Len(lines)
    \/ end = "line" /\ n > 0

\* What the file ends in, when what is still buffered is lost.
Rest(end) == CASE end = "part" -> "junk" [] end = "line" -> "bare" [] OTHER -> end

\* A write that fails, at once or after a part of it: the BufWriter keeps what
\* it has not written.
WriteFails(lines) ==
    /\ failures < MaxFailures /\ failures' = failures + 1
    /\ \/ /\ buffer' = lines
          /\ UNCHANGED <<file, torn, spoiled, sharedVars>>
       \/ \E n \in 0..Len(lines), end \in {"no", "part", "line"} :
             /\ StopsAfter(lines, n, end)
             /\ Extend(SubSeq(lines, 1, n),
                       IF n = 0 /\ ~Sound THEN "junk" ELSE end)
             /\ buffer' = SubSeq(lines, n + 1, Len(lines))
             /\ Written

AppendOk_Unflushed ==                                         \* mutated
    /\ Append_
    /\ buffer' = Pending
    /\ previous' = NewLine.hash
    /\ acked' = acked \cup {events + 1}
    /\ UNCHANGED <<file, torn, spoiled, log, failures, restarts, kills,
                   verifyVars, sharedVars>>

\* The flush writes the line, after all that an earlier failure left behind.
AppendOk ==
    /\ Append_
    /\ Extend(Pending, "no")
    /\ buffer' = << >>
    /\ Written
    /\ previous' = NewLine.hash
    /\ acked' = acked \cup {events + 1}
    /\ UNCHANGED <<log, failures, restarts, kills, verifyVars>>

\* The flush fails, and the caller gets the error.
AppendFails ==
    /\ Append_ /\ WriteFails(Pending)
    /\ UNCHANGED <<previous, log, acked, restarts, kills, verifyVars>>

HasBuffered == buffer # << >> \/ torn = "line"

\* What is buffered is flushed before a long line, and before a line there is
\* no room for: if that fails, the line is lost and its sequence number is not
\* used again.
AppendDropped ==
    /\ HasBuffered
    /\ Append_ /\ WriteFails(buffer)
    /\ UNCHANGED <<previous, log, acked, restarts, kills, verifyVars>>

\* The write of a long line itself fails, at once or within it; the BufWriter
\* has nothing left of it.
AppendCut ==
    /\ Append_
    /\ failures < MaxFailures /\ failures' = failures + 1
    /\ buffer' = << >>
    /\ \/ Extend(buffer, "junk") /\ Written
       \/ HasBuffered /\ Extend(buffer, "no") /\ Written
       \/ ~HasBuffered /\ UNCHANGED <<file, torn, spoiled, sharedVars>>
    /\ UNCHANGED <<previous, log, acked, restarts, kills, verifyVars>>

\* The log is dropped, which no call of verify outlives: its BufWriter flushes
\* what it holds.
Close ==
    /\ log = "open" /\ restarts < MaxRestarts
    /\ \A v \in Verifiers : vpc[v] = "idle"
    /\ restarts' = restarts + 1
    /\ log' = "closed"
    /\ \/ HasBuffered /\ Extend(buffer, "no") /\ Written
       \/ ~HasBuffered /\ UNCHANGED <<file, torn, spoiled, sharedVars>>
    /\ buffer' = << >>
    /\ UNCHANGED <<sequence, previous, events, acked, failures, kills,
                   verifyVars>>

\* The process dies: the buffer and every call of verify are lost.
Dies ==
    /\ log = "open" /\ restarts < MaxRestarts
    /\ restarts' = restarts + 1
    /\ log' = "closed"
    /\ buffer' = << >>
    /\ vpc' = [v \in Verifiers |-> "idle"]
    /\ expected' = [v \in Verifiers |-> 0]
    /\ chain' = [v \in Verifiers |-> 0]
    /\ held' = [v \in Verifiers |-> 0]
    /\ verdict' = [v \in Verifiers |-> "none"]
    /\ disturbed' = {}
    /\ offset' = End'

\* It dies between two appends.
Crash ==
    /\ torn' = Rest(torn)
    /\ UNCHANGED <<file, spoiled, sequence, previous, events, acked, failures,
                   kills>>
    /\ Dies

\* It dies in the middle of an append: between a long line and its newline, or
\* wherever else its writes stop.
CrashInAppend ==
    /\ Append_
    /\ kills' = kills + 1
    /\ \E n \in 0..Len(Pending), end \in {"no", "part", "line"} :
          /\ StopsAfter(Pending, n, end)
          /\ Extend(SubSeq(Pending, 1, n),
                    IF n = 0 /\ ~Sound THEN "junk" ELSE Rest(end))
    /\ Dies
    /\ UNCHANGED <<previous, acked, failures>>

\* open: the scan keeps the last line whose sequence number is the highest.
NewestFirst(lines) ==
    {i \in DOMAIN lines : \A j \in DOMAIN lines :
        lines[j].seq < lines[i].seq \/ (lines[j].seq = lines[i].seq /\ j <= i)}

NextSequence(lines) ==
    IF lines = << >> THEN 0
    ELSE lines[CHOOSE i \in NewestFirst(lines) : TRUE].seq + 1

PreviousHash_Forgotten(lines) == 0                            \* mutated
PreviousHash(lines) ==
    IF lines = << >> THEN 0
    ELSE lines[CHOOSE i \in NewestFirst(lines) : TRUE].hash

Readable == spoiled = {} /\ ~HalfLine

\* A line that does not parse fails the call.  A last line without its newline
\* is as good as any.
Open ==
    /\ log = "closed"
    /\ \/ /\ ~Readable /\ log' = "unreadable"
          /\ UNCHANGED <<sequence, previous, offset>>
       \/ /\ Readable /\ log' = "open"
          /\ sequence' = NextSequence(file)
          /\ previous' = PreviousHash(file)
          /\ offset' = End
    /\ UNCHANGED <<file, torn, spoiled, buffer, callVars, verifyVars, disturbed>>

-----------------------------------------------------------------------------
\* A verifier that moves the offset moves it under every other one.
Disturbed(v) == {u \in Verifiers \ {v} : vpc[u] = "read"}

Begin(v) ==
    /\ vpc' = [vpc EXCEPT ![v] = "read"]
    /\ expected' = [expected EXCEPT ![v] = 0]
    /\ chain' = [chain EXCEPT ![v] = 0]
    /\ held' = [held EXCEPT ![v] = 0]
    /\ verdict' = [verdict EXCEPT ![v] = "none"]

VerifyStart_NoSeek(v) ==                                      \* mutated
    /\ log = "open" /\ vpc[v] = "idle"
    /\ Begin(v)
    /\ disturbed' = Disturbed(v) \cup (disturbed \ {v})
    /\ UNCHANGED <<writerVars, callVars, offset>>

\* verify: duplicate the file and seek to its start.
VerifyStart(v) ==
    /\ log = "open" /\ vpc[v] = "idle"
    /\ Begin(v)
    /\ disturbed' = Disturbed(v) \cup (disturbed \ {v})
    /\ offset' = 0
    /\ UNCHANGED <<writerVars, callVars>>

Answer(v, a) ==
    /\ vpc' = [vpc EXCEPT ![v] = "idle"]
    /\ verdict' = [verdict EXCEPT ![v] = a]
    /\ UNCHANGED <<expected, chain, held>>

Expected(v, line) ==
    line.hash \notin spoiled /\ line.seq = expected[v] /\ line.prev = chain[v]

\* verify, its next read stops within line i: it holds the first half.
VerifyReadHalf(v) ==
    /\ vpc[v] = "read" /\ offset < End /\ offset % 2 = 0
    /\ held' = [held EXCEPT ![v] = IF @ = 0 THEN offset \div 2 + 1 ELSE Garbled]
    /\ offset' = offset + 1
    /\ disturbed' = disturbed \cup Disturbed(v)
    /\ UNCHANGED <<writerVars, callVars, vpc, expected, chain, verdict>>

\* verify, the rest of line i: it is examined, and must parse.
VerifyReadLine(v) ==
    /\ vpc[v] = "read" /\ offset < End /\ offset % 2 = 1
    /\ LET i == offset \div 2 + 1 IN
          \/ /\ held[v] = i /\ Expected(v, file[i])
             /\ held' = [held EXCEPT ![v] = 0]
             /\ expected' = [expected EXCEPT ![v] = @ + 1]
             /\ chain' = [chain EXCEPT ![v] = file[i].hash]
             /\ UNCHANGED <<vpc, verdict>>
          \/ /\ held[v] # i \/ ~Expected(v, file[i])
             /\ Answer(v, "error")
    /\ offset' = offset + 1
    /\ disturbed' = disturbed \cup Disturbed(v)
    /\ UNCHANGED <<writerVars, callVars>>

\* verify, at the end of the file: a last line without its end must parse too.
VerifyEnd(v) ==
    /\ vpc[v] = "read" /\ offset >= End
    /\ Answer(v, IF held[v] = 0 THEN "ok" ELSE "error")
    /\ UNCHANGED <<writerVars, callVars, sharedVars>>

Next ==
    \/ AppendOk \/ AppendFails \/ AppendDropped \/ AppendCut
    \/ Close \/ Crash \/ CrashInAppend \/ Open
    \/ \E v \in Verifiers : VerifyStart(v) \/ VerifyReadHalf(v) \/ VerifyReadLine(v)
                            \/ VerifyEnd(v)

Spec == Init /\ [][Next]_vars
-----------------------------------------------------------------------------
\* What cuts a line off: a failed write, or a crash in the middle of an append.
Cuts == failures + kills

\* "monotonic sequence numbers" (phase8.md): they rise along the file, also
\* after failed writes, crashes and reopening.
SequencesRise ==
    \A i, j \in DOMAIN file : i < j => file[i].seq < file[j].seq

\* An event whose append returned Ok is on disk, whatever failed before it or
\* crashed after it.
AckedOnDisk == \A e \in acked : \E i \in DOMAIN file : file[i].hash = e

\* Some of these can no longer be read, because append went on behind a line
\* that was cut off: at most one of them for every cut.
Lost == acked \cap spoiled
LossIsBounded == Cardinality(Lost) <= Cuts

\* And a restart alone never breaks the chain: a broken one shows a cut, and
\* even then the numbers rise.
LogKept ==
    /\ AckedOnDisk /\ LossIsBounded
    /\ Intact(file) \/ Cuts > 0
    /\ SequencesRise

\* Why they hold: the numbers rise through the file and what is still buffered,
\* all below the next one; before the first cut nothing is buffered, and the next
\* line continues the chain; a file that does not end in a newline has a cut to
\* show for it, and neither a line that is still buffered nor one without its
\* newline was acknowledged, so that the next append can spoil no acknowledged
\* line but its own; a verifier whose offset nobody else has moved has examined
\* all the lines before it.
Rising(lines, bound) ==
    \A i \in DOMAIN lines :
        /\ lines[i].seq < bound
        /\ \A j \in DOMAIN lines : i < j => lines[i].seq < lines[j].seq

NumbersRise ==
    /\ Rising(file \o buffer, sequence) /\ sequence <= events
    /\ Len(file) + Len(buffer) <= events
    /\ log # "open" => buffer = << >>

ChainContinues ==
    Cuts = 0 =>
        /\ buffer = << >> /\ torn = "no" /\ Intact(file)
        /\ sequence = Len(file)
        /\ previous = IF file = << >> THEN 0 ELSE file[Len(file)].hash

CutsExplain ==
    /\ spoiled \subseteq 1..events
    /\ \A i \in DOMAIN file : file[i].hash <= events
    /\ \A i \in DOMAIN buffer :
          buffer[i].hash <= events /\ buffer[i].hash \notin acked
    /\ torn \in {"line", "bare"} =>
          file # << >> /\ file[Len(file)].hash \notin acked
    /\ Cardinality(Lost) + (IF torn = "no" THEN 0 ELSE 1) <= Cuts

Progress(v) ==
    LET n == offset \div 2
    IN  /\ expected[v] = n
        /\ held[v] = IF offset % 2 = 0 THEN 0 ELSE n + 1
        /\ chain[v] = IF n = 0 THEN 0 ELSE file[n].hash
        /\ \A i \in 1..n : Follows(file, i)

VerifiersProgress ==
    \A v \in Verifiers :
        vpc[v] = "read" => log = "open" /\ (v \in disturbed \/ Progress(v))

AuditInv ==
    /\ TypeOK /\ NumbersRise /\ ChainContinues /\ AckedOnDisk /\ CutsExplain
    /\ VerifiersProgress

\* A verification tells the truth about the whole file, if no append and no
\* other verification moved the offset it shares with them.
UndisturbedVerdict ==
    [][\A v \in Verifiers :
          vpc[v] = "read" /\ vpc'[v] = "idle" /\ v \notin disturbed /\ log' = log
              => (verdict'[v] = "ok" <=> Intact(file) /\ ~HalfLine)]_vars

\* "Verifies sequence continuity and the hash chain from disk" (verify): it
\* never reports a break in a file that is intact.
NoFalseAlarm ==
    [][\A v \in Verifiers :
          vpc[v] = "read" /\ verdict'[v] = "error" => ~Intact(file) \/ HalfLine]_vars
=============================================================================
