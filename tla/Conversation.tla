----------------------------- MODULE Conversation -----------------------------
(***************************************************************************)
(* The turn loop of rust/crates/runtime/src/conversation.rs, the session   *)
(* file of session.rs and the compaction of compact.rs, as the interactive *)
(* program of rust/crates/jasusi-core/src/main.rs (LiveCli) uses them.     *)
(*                                                                         *)
(* The program keeps a session.  A turn works on a copy of it, and appends *)
(* every message to the copy and, as a line, to the file.  After the turn  *)
(* the copy becomes the session, perhaps compacted, and the file is        *)
(* written anew.  Nothing runs concurrently; any call may fail and the     *)
(* process may be killed between any two steps, which both end the         *)
(* program: run_repl returns the first error.  A message is its role and   *)
(* two numbers: of the tools an assistant asks for, or of the messages     *)
(* that a summary says it replaces, and of those it has a line for in its  *)
(* timeline.  The file is never missing or empty when a message is         *)
(* appended, because LiveCli saves first: the bootstrap in                 *)
(* append_persisted_message is not reached.                                *)
(***************************************************************************)
EXTENDS Integers, Sequences, SequencesExt

CONSTANTS
    Preserve,      \* CompactionConfig.preserve_recent_messages
    MaxUses,       \* bound: tools one assistant message asks for
    MaxMessages,   \* bound: messages a session stands for
    MaxFailures    \* bound: ends of the program

ASSUME ConversationAssumption ==
    /\ Preserve \in Nat /\ MaxUses \in Nat
    /\ MaxMessages \in Nat /\ MaxFailures \in Nat

Roles == {"user", "assistant", "result", "summary"}
Message == [role : Roles, n : Nat, told : Nat]

User == [role |-> "user", n |-> 0, told |-> 0]
Assistant(n) == [role |-> "assistant", n |-> n, told |-> 0]
Result == [role |-> "result", n |-> 0, told |-> 0]
Summary(n, told) == [role |-> "summary", n |-> n, told |-> told]

VARIABLES
    mem,        \* messages of the session the program keeps
    work,       \* messages of the copy a turn works on
    pc,         \* where the program is
    pending,    \* tools of the last answer that are still to be run
    exists,     \* whether the session file exists
    lines,      \* its messages
    torn,       \* what a failed append left of a line after them
    rotated,    \* messages of the newest rotated file
    settled,    \* history: the session that was last saved
    failures

programVars == <<mem, work, pc, pending>>
fileVars    == <<exists, lines, torn, rotated>>
vars        == <<programVars, fileVars, settled, failures>>

TypeOK ==
    /\ mem \in Seq(Message) /\ work \in Seq(Message)
    /\ pc \in {"prompt", "request", "tools", "finish", "save", "write", "down"}
    /\ pending \in Nat /\ (pending > 0 <=> pc = "tools")
    /\ exists \in BOOLEAN
    /\ lines \in Seq(Message) /\ rotated \in Seq(Message)
    /\ torn \in {"no", "whole", "part"}
    /\ settled \in Seq(Message)
    /\ failures \in 0..MaxFailures

\* LiveCli::new has saved the empty session.
Init ==
    /\ mem = << >> /\ work = << >>
    /\ pc = "prompt" /\ pending = 0
    /\ exists = TRUE /\ lines = << >> /\ torn = "no" /\ rotated = << >>
    /\ settled = << >>
    /\ failures = 0

-----------------------------------------------------------------------------
Summarised(m) == m # << >> /\ m[1].role = "summary"

Prefix(m) == IF Summarised(m) THEN 1 ELSE 0

\* The messages a session holds in full, those it has a line for as well, and
\* all that it accounts for.
Whole(m) == Len(m) - Prefix(m)
Told(m) == Whole(m) + IF Summarised(m) THEN m[1].told ELSE 0
Weight(m) == Whole(m) + IF Summarised(m) THEN m[1].n ELSE 0

\* The program ends with an error, or is killed.
End ==
    /\ failures < MaxFailures /\ failures' = failures + 1
    /\ pc' = "down"
    /\ mem' = << >> /\ work' = << >> /\ pending' = 0
    /\ UNCHANGED settled

\* push_message: the message is appended to the copy `messages`, and to the
\* file.  A line that continues a torn one cannot be parsed.
Push(messages, m) ==
    /\ work' = Append(messages, m)
    /\ lines' = IF torn = "no" THEN Append(lines, m) ELSE lines
    /\ torn' = IF torn = "no" THEN "no" ELSE "part"
    /\ UNCHANGED <<mem, exists, rotated, settled, failures>>

\* push_message fails: nothing of the line is written, or a part of it, or all
\* but the newline, which is another call.
PushFails(m) ==
    /\ torn' \in {torn, "whole", "part"}
    /\ lines' = IF torn' = "whole" THEN Append(lines, m) ELSE lines
    /\ End
    /\ UNCHANGED <<exists, rotated>>

\* run_turn on a copy of the session: the user's input.
BeginTurn ==
    /\ pc = "prompt" /\ Weight(mem) + 2 <= MaxMessages
    /\ \/ Push(mem, User) /\ pc' = "request" /\ UNCHANGED pending
       \/ PushFails(User)

\* The model answers a request with n tool uses; without any, the turn is over.
Answer(n) ==
    /\ pc = "request"
    /\ n = 0 \/ Weight(work) + n + 2 <= MaxMessages
    /\ \/ /\ Push(work, Assistant(n))
          /\ pending' = n
          /\ pc' = IF n = 0 THEN "finish" ELSE "tools"
       \/ PushFails(Assistant(n))

ToolResult_OnlyIfAllowed ==                                    \* mutated
    /\ pc = "tools"
    /\ \/ Push(work, Result)
       \/ UNCHANGED <<mem, work, fileVars, settled, failures>>
    /\ pending' = pending - 1
    /\ pc' = IF pending = 1 THEN "request" ELSE "tools"

\* A tool is run, fails or is denied: it always has one result.
ToolResult ==
    /\ pc = "tools"
    /\ \/ /\ Push(work, Result)
          /\ pending' = pending - 1
          /\ pc' = IF pending = 1 THEN "request" ELSE "tools"
       \/ PushFails(Result)

-----------------------------------------------------------------------------
Removed(m) == Len(m) - Preserve - Prefix(m)
Preserved(m) == SubSeq(m, Len(m) - Preserve + 1, Len(m))

\* merge_compact_summaries: a first summary has a line for each message it
\* replaces.  A summary that is merged with a previous one takes over what that
\* one counts and highlights, drops its timeline, and cuts its own at a message
\* with an empty line.
Timelines(m) == IF Summarised(m) THEN 0..Removed(m) ELSE {Removed(m)}

Compact_ForgetsSummary(m) ==                                   \* mutated
    IF Removed(m) <= 0 THEN {m}
    ELSE {<<Summary(Removed(m), told)>> \o Preserved(m) : told \in Timelines(m)}

\* compact_session: the messages before the last few, a previous summary among
\* them, give way to one summary.
Compact(m) ==
    IF Removed(m) <= 0 THEN {m}
    ELSE {<<Summary(Weight(m) - Preserve, told)>> \o Preserved(m) :
            told \in Timelines(m)}

\* The end of run_turn: maybe_auto_compact, if the cumulative input tokens
\* reach the threshold; then the copy replaces the session.
Finish ==
    /\ pc = "finish"
    /\ mem' \in {work} \cup Compact(work) /\ work' = << >>
    /\ pc' = "save"
    /\ UNCHANGED <<pending, fileVars, settled, failures>>

\* /compact, which also looks at the size of the session; /model, /permissions
\* and /exit only save.
Command ==
    /\ pc = "prompt"
    /\ mem' \in {mem} \cup Compact(mem)
    /\ pc' = "save"
    /\ UNCHANGED <<work, pending, fileVars, settled, failures>>

\* save_to_path: a large file is renamed first.
Rotate ==
    /\ pc = "save" /\ exists
    /\ exists' = FALSE /\ rotated' = lines
    /\ pc' = "write"
    /\ UNCHANGED <<mem, work, pending, lines, torn, settled, failures>>

Save_InPlace ==                                                \* mutated
    /\ pc \in {"save", "write"}
    /\ \/ /\ lines' = mem /\ exists' = TRUE /\ torn' = "no"
          /\ settled' = mem
          /\ pc' = "prompt"
          /\ UNCHANGED <<mem, work, pending, rotated, failures>>
       \/ /\ lines' = << >> /\ exists' = TRUE /\ torn' = "no"
          /\ End
          /\ UNCHANGED rotated

\* write_atomic: another file is written, and renamed to the session's.
Save ==
    /\ pc \in {"save", "write"}
    /\ lines' = mem /\ exists' = TRUE /\ torn' = "no"
    /\ settled' = mem
    /\ pc' = "prompt"
    /\ UNCHANGED <<mem, work, pending, rotated, failures>>

\* The model, a plugin, or any step of a save fails, or the process is killed.
Failure ==
    /\ pc # "down"
    /\ End
    /\ UNCHANGED fileVars

Resume_NotSaved ==                                             \* mutated
    /\ pc = "down" /\ exists /\ torn # "part"
    /\ mem' = lines
    /\ pc' = "prompt"
    /\ UNCHANGED <<work, pending, fileVars, settled, failures>>

\* /resume of the session in a new process: it is loaded, and saved.
Resume ==
    /\ pc = "down" /\ exists /\ torn # "part"
    /\ mem' = lines
    /\ pc' = "save"
    /\ UNCHANGED <<work, pending, fileVars, settled, failures>>

\* Without its file the session is found under the name of its rotated one,
\* which is a session file like any other.
ResumeRotated ==
    /\ pc = "down" /\ ~exists
    /\ exists' = TRUE /\ lines' = rotated /\ torn' = "no"
    /\ mem' = rotated
    /\ pc' = "save"
    /\ UNCHANGED <<work, pending, rotated, settled, failures>>

Next ==
    \/ BeginTurn
    \/ \E n \in 0..MaxUses : Answer(n)
    \/ ToolResult \/ Finish \/ Command
    \/ Rotate \/ Save \/ Failure
    \/ Resume \/ ResumeRotated

Spec == Init /\ [][Next]_vars
-----------------------------------------------------------------------------
\* Memory and file agree wherever the program stands: at the prompt the file
\* is the session, and during a turn it is the copy the turn works on, which
\* extends the session.  No line is ever appended to a torn one, although a
\* session with a line that lacks its newline does load.
FileTracksMemory ==
    /\ pc = "prompt" => exists /\ torn = "no" /\ lines = mem
    /\ pc \in {"request", "tools", "finish"} =>
          exists /\ torn = "no" /\ lines = work /\ IsPrefix(mem, work)

\* What was saved is never lost, whatever fails whenever: the file, or if it
\* was being replaced the rotated one, starts with it.  A torn line may keep
\* it from being loaded, but not from being there.
OnDisk == IF exists THEN lines ELSE rotated
SavedIsOnDisk == IsPrefix(settled, OnDisk)

\* Compactions, even of compactions, saves, rotations, failures and resumes keep
\* what SessionHistory promises: every message is accounted for, the last
\* Preserve are there in full, and the others lose their own line only when a
\* summary is summarised again.
Tells(m) == [all |-> Weight(m), told |-> Told(m), whole |-> Whole(m)]
InHand == IF pc \in {"request", "tools", "finish"} THEN work ELSE mem
History == INSTANCE SessionHistory
    WITH Recent <- Preserve, running <- pc # "down",
         held <- Tells(InHand), stored <- Tells(OnDisk)
ImplementsHistory == History!Spec

\* Why it does: what is to be saved accounts for no more and no less than the
\* file that it will replace.
SaveLosesNothing ==
    /\ pc = "down" => mem = << >>
    /\ pc \in {"save", "write"} => Weight(mem) = Weight(OnDisk)

\* The answer a result at i belongs to is before it, with only results between.
Opened(m, i) ==
    \E j \in 1..(i - 1) :
        /\ m[j].role = "assistant" /\ i - j <= m[j].n
        /\ \A h \in (j + 1)..i : m[h].role = "result"

\* Compaction may cut an answer from its results, which then follow the summary.
Cut(m, i) ==
    m[1].role = "summary" /\ \A h \in 2..i : m[h].role = "result"

Answered(m, j) ==
    /\ j + m[j].n <= Len(m)
    /\ \A h \in (j + 1)..(j + m[j].n) : m[h].role = "result"

\* The results of an answer that a failed turn left open; the next input follows.
LeftOpen(m, j) ==
    \E h \in (j + 1)..Len(m) :
        m[h].role = "user" /\ \A g \in (j + 1)..(h - 1) : m[g].role = "result"

\* A session has one summary, in front, which replaces something.
SummaryFirst(m) ==
    \A i \in 1..Len(m) : m[i].role = "summary" => i = 1 /\ m[i].n > 0

\* In every request to the model, tool uses and results belong together: a
\* result follows its use unless a compaction cut them apart, and a use has
\* its result unless the turn that asked for it failed; and what was compacted,
\* however often, is told by one summary that all the rest follows.
Paired(m, failed) ==
    /\ \A i \in DOMAIN m : m[i].role = "result" => Opened(m, i) \/ Cut(m, i)
    /\ \A j \in DOMAIN m : m[j].role = "assistant" =>
          Answered(m, j) \/ (failed /\ LeftOpen(m, j))

RequestPaired ==
    pc = "request" => Paired(work, failures > 0) /\ SummaryFirst(work)

\* Why it holds: the file may end within the results of its last answer, and so
\* may what was resumed from it, which the next input then closes; while tools
\* run, the copy ends within the results of the answer that has some pending.
AtEnd(m, j) == \A h \in (j + 1)..Len(m) : m[h].role = "result"
PairedSoFar(m, failed) ==
    /\ \A i \in DOMAIN m : m[i].role = "result" => Opened(m, i) \/ Cut(m, i)
    /\ \A j \in DOMAIN m : m[j].role = "assistant" =>
          Answered(m, j) \/ (failed /\ LeftOpen(m, j)) \/ AtEnd(m, j)
Awaited(m, j) ==
    m[j].role = "assistant" /\ AtEnd(m, j) /\ j + m[j].n = Len(m) + pending

SessionsPaired ==
    /\ PairedSoFar(lines, failures > 0) /\ PairedSoFar(rotated, failures > 0)
    /\ PairedSoFar(mem, failures > 0) /\ (failures = 0 => Paired(mem, FALSE))
    /\ pc = "down" => failures > 0
    /\ pc \in {"request", "finish"} => Paired(work, failures > 0)
    /\ pc = "tools" =>
          /\ PairedSoFar(work, failures > 0)
          /\ \A j \in DOMAIN work : work[j].role = "assistant" =>
                \/ Answered(work, j) \/ (failures > 0 /\ LeftOpen(work, j))
                \/ Awaited(work, j)
          /\ \E j \in DOMAIN work : Awaited(work, j)
=============================================================================
