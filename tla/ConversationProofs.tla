-------------------------- MODULE ConversationProofs --------------------------
(* Theorems about Conversation for every value of its constants.            *)
EXTENDS Conversation, SequenceTheorems, TLAPS

-----------------------------------------------------------------------------
(* Prefixes of sequences of messages.                                       *)

LEMMA PrefixElements ==
  ASSUME NEW s \in Seq(Message), NEW t \in Seq(Message)
  PROVE  IsPrefix(s, t) <=>
           Len(s) <= Len(t) /\ \A i \in 1..Len(s) : s[i] = t[i]
  <1>0. Len(s) \in Nat /\ Len(t) \in Nat
    BY LenProperties
  <1>1. SubSeq(s, 1, Len(s)) = s
    BY SubSeqFull
  <1> SUFFICES ASSUME Len(s) <= Len(t)
               PROVE  SubSeq(t, 1, Len(s)) = s
                        <=> \A i \in 1..Len(s) : s[i] = t[i]
    BY <1>1 DEF IsPrefix
  <1>2. \A i \in 1..Len(s) : t[i] \in Message
    BY <1>0, ElementOfSeq
  <1> DEFINE u == SubSeq(t, 1, Len(s))
  <1>3. /\ u \in Seq(Message) /\ Len(u) = Len(s)
        /\ \A i \in 1..Len(s) : u[i] = t[i]
    <2>1. /\ u \in Seq(Message)
          /\ Len(u) = IF 1 <= Len(s) THEN Len(s) - 1 + 1 ELSE 0
          /\ \A i \in 1..(Len(s) - 1 + 1) : u[i] = t[1 + i - 1]
      BY <1>0, <1>2, SubSeqProperties
    <2> QED
      BY <1>0, <2>1
  <1> HIDE DEF u
  <1>4. (\A i \in 1..Len(s) : u[i] = s[i]) => u = s
    BY <1>3, SeqEqual
  <1>5. u = s <=> \A i \in 1..Len(s) : s[i] = t[i]
    BY <1>3, <1>4
  <1> QED
    BY <1>5 DEF u

LEMMA PrefixSelf ==
  ASSUME NEW s \in Seq(Message)
  PROVE  IsPrefix(s, s)
  BY PrefixElements, LenProperties

LEMMA PrefixAppend ==
  ASSUME NEW s \in Seq(Message), NEW t \in Seq(Message), NEW m \in Message,
         IsPrefix(s, t)
  PROVE  IsPrefix(s, Append(t, m))
  <1>1. /\ Append(t, m) \in Seq(Message) /\ Len(Append(t, m)) = Len(t) + 1
        /\ \A i \in 1..Len(t) : Append(t, m)[i] = t[i]
    BY AppendProperties
  <1>2. Len(s) <= Len(t) /\ \A i \in 1..Len(s) : s[i] = t[i]
    BY PrefixElements
  <1>3. Len(s) \in Nat /\ Len(t) \in Nat
    BY LenProperties
  <1> DEFINE u == Append(t, m)
  <1>4. Len(s) <= Len(u) /\ \A i \in 1..Len(s) : s[i] = u[i]
    BY <1>1, <1>2, <1>3
  <1>5. u \in Seq(Message)
    BY <1>1
  <1> HIDE DEF u
  <1>6. IsPrefix(s, u)
    BY <1>4, <1>5, PrefixElements
  <1> QED
    BY <1>6 DEF u

-----------------------------------------------------------------------------
(* What a session tells, and what a compaction leaves of it, for any        *)
(* session and any number of messages to keep.                              *)

LEMMA MessageTypes ==
  /\ User \in Message /\ Result \in Message
  /\ \A n \in Nat : Assistant(n) \in Message
  /\ \A n, told \in Nat : Summary(n, told) \in Message
  BY DEF Message, Roles, User, Result, Assistant, Summary

LEMMA TellsType ==
  ASSUME NEW m \in Seq(Message)
  PROVE  /\ Len(m) \in Nat /\ Preserve \in Nat /\ Prefix(m) \in {0, 1}
         /\ Weight(m) \in Nat /\ Told(m) \in Nat /\ Whole(m) \in Nat
         /\ Len(m) = Whole(m) + Prefix(m)
         /\ Whole(m) <= Weight(m)
         /\ Summarised(m) => m[1].n \in Nat /\ m[1].told \in Nat
         /\ Summarised(m) =>
              Weight(m) = Whole(m) + m[1].n /\ Told(m) = Whole(m) + m[1].told
         /\ ~Summarised(m) => Weight(m) = Whole(m) /\ Told(m) = Whole(m)
  <1>1. Len(m) \in Nat /\ Preserve \in Nat /\ (m # << >> => Len(m) > 0)
    BY EmptySeq, LenProperties, ConversationAssumption
       DEF ConversationAssumption
  <1>2. CASE Summarised(m)
    <2>1. Len(m) > 0 /\ 1 \in 1..Len(m)
      BY <1>1, <1>2 DEF Summarised
    <2>2. m[1] \in Message
      BY <2>1, ElementOfSeq
    <2>3. m[1].n \in Nat /\ m[1].told \in Nat
      BY <2>2 DEF Message
    <2> QED
      BY <1>1, <1>2, <2>1, <2>3 DEF Prefix, Whole, Told, Weight
  <1>3. CASE ~Summarised(m)
    BY <1>1, <1>3 DEF Prefix, Whole, Told, Weight
  <1> QED
    BY <1>2, <1>3

LEMMA CompactSame ==
  ASSUME NEW m \in Seq(Message), NEW c \in Compact(m), ~(Removed(m) > 0)
  PROVE  c = m
  <1>1. Removed(m) \in Int
    BY TellsType DEF Removed
  <1> QED
    BY <1>1 DEF Compact

LEMMA CompactResult ==
  ASSUME NEW m \in Seq(Message), NEW c \in Compact(m), Removed(m) > 0
  PROVE  \E told \in Timelines(m) :
           /\ told \in Nat /\ Weight(m) - Preserve \in Nat \ {0}
           /\ c \in Seq(Message) /\ Len(c) = Preserve + 1
           /\ c[1] = Summary(Weight(m) - Preserve, told)
           /\ \A i \in 1..Preserve : c[i + 1] = m[Len(m) - Preserve + i]
           /\ Len(m) - Preserve >= Prefix(m) + 1
  <1> DEFINE keepFrom == Len(m) - Preserve
             k == Weight(m) - Preserve
             rest == Preserved(m)
  <1>0. /\ Len(m) \in Nat /\ Preserve \in Nat /\ Prefix(m) \in {0, 1}
        /\ Weight(m) \in Nat /\ Whole(m) \in Nat
        /\ Len(m) = Whole(m) + Prefix(m) /\ Whole(m) <= Weight(m)
    BY TellsType
  <1>1. /\ Removed(m) \in Nat /\ k \in Nat \ {0}
        /\ keepFrom \in Nat /\ keepFrom >= Prefix(m) + 1
    BY <1>0 DEF Removed
  <1>2. PICK told \in Timelines(m) : c = <<Summary(k, told)>> \o rest
    BY <1>1 DEF Compact
  <1>3. told \in Nat
    BY <1>1 DEF Timelines
  <1>4. /\ rest \in Seq(Message) /\ Len(rest) = Preserve
        /\ \A i \in 1..Preserve : rest[i] = m[keepFrom + i]
    <2>0. keepFrom \in Nat /\ Len(m) - keepFrom = Preserve
      BY <1>0, <1>1
    <2>1. rest = SubSeq(m, keepFrom + 1, Len(m))
      BY DEF Preserved
    <2> HIDE DEF keepFrom, k, rest
    <2>2. \A i \in (keepFrom + 1)..Len(m) : m[i] \in Message
      BY <1>0, <2>0, ElementOfSeq
    <2>3. /\ rest \in Seq(Message)
          /\ Len(rest) = IF keepFrom + 1 <= Len(m)
                         THEN Len(m) - (keepFrom + 1) + 1 ELSE 0
          /\ \A i \in 1..(Len(m) - (keepFrom + 1) + 1) :
               rest[i] = m[(keepFrom + 1) + i - 1]
      BY <1>0, <2>0, <2>1, <2>2, SubSeqProperties
    <2>4. Len(rest) = Preserve
      BY <1>0, <2>0, <2>3
    <2>5. ASSUME NEW i \in 1..Preserve PROVE rest[i] = m[keepFrom + i]
      <3>1. i \in 1..(Len(m) - (keepFrom + 1) + 1)
        BY <1>0, <2>0
      <3>2. (keepFrom + 1) + i - 1 = keepFrom + i
        BY <2>0
      <3> QED
        BY <2>3, <3>1, <3>2
    <2> QED
      BY <2>3, <2>4, <2>5
  <1>5. Summary(k, told) \in Message
    BY <1>1, <1>3, MessageTypes
  <1>6. <<Summary(k, told)>> \in Seq(Message) /\ Len(<<Summary(k, told)>>) = 1
        /\ <<Summary(k, told)>>[1] = Summary(k, told)
    BY <1>5
  <1> HIDE DEF rest, k
  <1>7. /\ c \in Seq(Message)
        /\ Len(c) = Preserve + 1
        /\ c[1] = Summary(k, told)
        /\ \A i \in 1..Preserve : c[i + 1] = rest[i]
    <2>1. /\ c \in Seq(Message)
          /\ Len(c) = 1 + Len(rest)
          /\ \A i \in 1..(1 + Len(rest)) : c[i] =
               IF i <= 1 THEN <<Summary(k, told)>>[i] ELSE rest[i - 1]
      BY <1>2, <1>4, <1>6, ConcatProperties
    <2> QED
      BY <1>0, <1>4, <1>6, <2>1
  <1>8. \A i \in 1..Preserve : c[i + 1] = m[Len(m) - Preserve + i]
    BY <1>4, <1>7
  <1> QED
    BY <1>1, <1>3, <1>7, <1>8 DEF k

-----------------------------------------------------------------------------
(* Types.                                                                   *)

LEMMA CompactType ==
  ASSUME NEW m \in Seq(Message), NEW c \in Compact(m)
  PROVE  c \in Seq(Message)
  BY CompactResult, CompactSame

LEMMA EndType ==
  ASSUME TypeOK, End
  PROVE  /\ mem' \in Seq(Message) /\ work' \in Seq(Message)
         /\ pc' = "down" /\ pending' = 0 /\ settled' \in Seq(Message)
         /\ failures' \in 0..MaxFailures
  BY EmptySeq, ConversationAssumption DEF ConversationAssumption, TypeOK, End

(* An append to the copy and to the file, done or failed, keeps what is not *)
(* about the program counter.                                               *)
LEMMA PushType ==
  ASSUME TypeOK, NEW messages \in Seq(Message), NEW m \in Message,
         Push(messages, m)
  PROVE  /\ mem' \in Seq(Message) /\ work' \in Seq(Message)
         /\ exists' \in BOOLEAN
         /\ lines' \in Seq(Message) /\ rotated' \in Seq(Message)
         /\ torn' \in {"no", "whole", "part"}
         /\ settled' \in Seq(Message)
         /\ failures' \in 0..MaxFailures
  <1>1. Append(lines, m) \in Seq(Message) /\ Append(messages, m) \in Seq(Message)
    BY AppendProperties DEF TypeOK
  <1> QED
    BY <1>1 DEF TypeOK, Push

LEMMA PushFailsType ==
  ASSUME TypeOK, NEW m \in Message, PushFails(m)
  PROVE  TypeOK'
  <1>1. Append(lines, m) \in Seq(Message)
    BY AppendProperties DEF TypeOK
  <1>2. lines' \in Seq(Message) /\ torn' \in {"no", "whole", "part"}
    BY <1>1 DEF TypeOK, PushFails
  <1>3. exists' \in BOOLEAN /\ rotated' \in Seq(Message)
    BY DEF TypeOK, PushFails
  <1>4. End
    BY DEF PushFails
  <1> QED
    BY <1>2, <1>3, <1>4, EndType DEF TypeOK

LEMMA TypeInit == Init => TypeOK
  BY EmptySeq, ConversationAssumption DEF ConversationAssumption, Init, TypeOK

LEMMA TypeNext == TypeOK /\ [Next]_vars => TypeOK'
  <1> SUFFICES ASSUME TypeOK, [Next]_vars PROVE TypeOK'
    OBVIOUS
  <1> USE ConversationAssumption DEF ConversationAssumption
  <1>1. CASE BeginTurn
    <2>1. CASE Push(mem, User) /\ pc' = "request" /\ UNCHANGED pending
      BY <1>1, <2>1, PushType, MessageTypes DEF TypeOK, BeginTurn
    <2>2. CASE PushFails(User)
      BY <2>2, PushFailsType, MessageTypes
    <2> QED
      BY <1>1, <2>1, <2>2 DEF BeginTurn
  <1>2. ASSUME NEW n \in 0..MaxUses, Answer(n) PROVE TypeOK'
    <2>1. n \in Nat /\ Assistant(n) \in Message
      BY MessageTypes
    <2>2. CASE /\ Push(work, Assistant(n))
               /\ pending' = n
               /\ pc' = IF n = 0 THEN "finish" ELSE "tools"
      BY <2>1, <2>2, PushType DEF TypeOK
    <2>3. CASE PushFails(Assistant(n))
      BY <2>1, <2>3, PushFailsType
    <2> QED
      BY <1>2, <2>2, <2>3 DEF Answer
  <1>3. CASE ToolResult
    <2>1. CASE /\ Push(work, Result)
               /\ pending' = pending - 1
               /\ pc' = IF pending = 1 THEN "request" ELSE "tools"
      BY <1>3, <2>1, PushType, MessageTypes DEF TypeOK, ToolResult
    <2>2. CASE PushFails(Result)
      BY <2>2, PushFailsType, MessageTypes
    <2> QED
      BY <1>3, <2>1, <2>2 DEF ToolResult
  <1>4. CASE Finish
    BY <1>4, CompactType, EmptySeq DEF TypeOK, Finish, fileVars
  <1>5. CASE Command
    BY <1>5, CompactType DEF TypeOK, Command, fileVars
  <1>6. CASE Rotate
    BY <1>6 DEF TypeOK, Rotate
  <1>7. CASE Save
    BY <1>7 DEF TypeOK, Save
  <1>8. CASE Failure
    BY <1>8, EndType DEF TypeOK, Failure, fileVars
  <1>9. CASE Resume
    BY <1>9 DEF TypeOK, Resume, fileVars
  <1>10. CASE ResumeRotated
    BY <1>10 DEF TypeOK, ResumeRotated
  <1>11. CASE UNCHANGED vars
    BY <1>11 DEF TypeOK, vars, programVars, fileVars
  <1> QED
    BY <1>1, <1>2, <1>3, <1>4, <1>5, <1>6, <1>7, <1>8, <1>9, <1>10, <1>11
       DEF Next

(* Every variable keeps its type, in particular tools are pending exactly   *)
(* while the program runs them.                                             *)
THEOREM TypeCorrect == Spec => []TypeOK
  BY TypeInit, TypeNext, PTL DEF Spec

-----------------------------------------------------------------------------
(* The session file.                                                        *)

LEMMA FileNext == TypeOK /\ FileTracksMemory /\ [Next]_vars => FileTracksMemory'
  <1> SUFFICES ASSUME TypeOK, FileTracksMemory, [Next]_vars
               PROVE  FileTracksMemory'
    OBVIOUS
  <1>1. ASSUME NEW m \in Message, PushFails(m) PROVE FileTracksMemory'
    BY <1>1 DEF PushFails, End, FileTracksMemory
  <1>2. CASE BeginTurn
    <2>1. CASE Push(mem, User) /\ pc' = "request"
      <3>1. IsPrefix(mem, Append(mem, User))
        BY PrefixSelf, PrefixAppend, MessageTypes DEF TypeOK
      <3> QED
        BY <1>2, <2>1, <3>1 DEF BeginTurn, Push, FileTracksMemory
    <2> QED
      BY <1>1, <1>2, <2>1, MessageTypes DEF BeginTurn
  <1>3. ASSUME NEW m \in Message, Push(work, m), pc \in {"request", "tools"},
               pc' \in {"request", "tools", "finish"}
        PROVE  FileTracksMemory'
    <2>1. IsPrefix(mem, Append(work, m))
      BY <1>3, PrefixAppend DEF TypeOK, FileTracksMemory
    <2> QED
      BY <1>3, <2>1 DEF Push, FileTracksMemory
  <1>4. ASSUME NEW n \in 0..MaxUses, Answer(n) PROVE FileTracksMemory'
    <2>1. Assistant(n) \in Message
      BY MessageTypes
    <2>2. \/ Push(work, Assistant(n)) /\ pc = "request"
             /\ pc' \in {"request", "tools", "finish"}
          \/ PushFails(Assistant(n))
      BY <1>4 DEF Answer
    <2> QED
      BY <1>1, <1>3, <2>1, <2>2
  <1>5. CASE ToolResult
    <2>1. \/ Push(work, Result) /\ pc = "tools"
             /\ pc' \in {"request", "tools", "finish"}
          \/ PushFails(Result)
      BY <1>5 DEF ToolResult
    <2> QED
      BY <1>1, <1>3, <2>1, MessageTypes
  <1>6. CASE Finish \/ Command \/ Rotate \/ Resume \/ ResumeRotated
    BY <1>6 DEF Finish, Command, Rotate, Resume, ResumeRotated, FileTracksMemory
  <1>7. CASE Save
    BY <1>7 DEF Save, FileTracksMemory
  <1>8. CASE Failure
    BY <1>8 DEF Failure, End, FileTracksMemory
  <1>9. CASE UNCHANGED vars
    BY <1>9 DEF vars, programVars, fileVars, FileTracksMemory
  <1> QED
    BY <1>2, <1>4, <1>5, <1>6, <1>7, <1>8, <1>9 DEF Next

LEMMA SavedNext == TypeOK /\ SavedIsOnDisk /\ [Next]_vars => SavedIsOnDisk'
  <1> SUFFICES ASSUME TypeOK, SavedIsOnDisk, [Next]_vars PROVE SavedIsOnDisk'
    OBVIOUS
  <1>1. ASSUME NEW m \in Message, lines' \in {lines, Append(lines, m)},
               UNCHANGED <<settled, exists, rotated>>
        PROVE  SavedIsOnDisk'
    <2>1. exists => IsPrefix(settled, Append(lines, m))
      BY PrefixAppend DEF TypeOK, SavedIsOnDisk, OnDisk
    <2> QED
      BY <1>1, <2>1 DEF SavedIsOnDisk, OnDisk
  <1>2. ASSUME NEW messages, NEW m \in Message, Push(messages, m) \/ PushFails(m)
        PROVE  SavedIsOnDisk'
    BY <1>1, <1>2 DEF Push, PushFails, End
  <1>3. CASE BeginTurn \/ ToolResult
    BY <1>2, <1>3, MessageTypes DEF BeginTurn, ToolResult
  <1>4. ASSUME NEW n \in 0..MaxUses, Answer(n) PROVE SavedIsOnDisk'
    <2>1. Assistant(n) \in Message
      BY MessageTypes
    <2> QED
      BY <1>2, <1>4, <2>1 DEF Answer
  <1>5. CASE Rotate \/ ResumeRotated
    BY <1>5 DEF Rotate, ResumeRotated, SavedIsOnDisk, OnDisk
  <1>6. CASE Save
    BY <1>6, PrefixSelf DEF Save, TypeOK, SavedIsOnDisk, OnDisk
  <1>7. CASE Finish \/ Command \/ Failure \/ Resume
    BY <1>7 DEF Finish, Command, Failure, End, Resume, fileVars, SavedIsOnDisk, OnDisk
  <1>8. CASE UNCHANGED vars
    BY <1>8 DEF vars, fileVars, SavedIsOnDisk, OnDisk
  <1> QED
    BY <1>3, <1>4, <1>5, <1>6, <1>7, <1>8 DEF Next

LEMMA FileInit == Init => FileTracksMemory /\ SavedIsOnDisk
  <1>1. IsPrefix(<< >>, << >>)
    BY PrefixSelf, EmptySeq
  <1> QED
    BY <1>1 DEF Init, FileTracksMemory, SavedIsOnDisk, OnDisk

(* At the prompt the session file is the session, and during a turn it is   *)
(* the copy the turn works on, however many turns, saves, failures and      *)
(* resumes came before.                                                     *)
THEOREM FileTracks == Spec => []FileTracksMemory
  BY TypeInit, TypeNext, FileInit, FileNext, PTL DEF Spec

(* What was saved stays on disk through every append, failure, rotation and *)
(* replacement of the file.                                                 *)
THEOREM SavedKept == Spec => []SavedIsOnDisk
  BY TypeInit, TypeNext, FileInit, SavedNext, PTL DEF Spec

-----------------------------------------------------------------------------
(* A summary only stands in front.                                          *)

AllSummariesFirst ==
    /\ SummaryFirst(mem) /\ SummaryFirst(work)
    /\ SummaryFirst(lines) /\ SummaryFirst(rotated)

LEMMA CompactSummary ==
  ASSUME NEW m \in Seq(Message), SummaryFirst(m), NEW c \in Compact(m)
  PROVE  SummaryFirst(c)
  <1>1. CASE ~(Removed(m) > 0)
    BY <1>1, CompactSame
  <1>2. CASE Removed(m) > 0
    <2>1. PICK told \in Nat :
            /\ Weight(m) - Preserve \in Nat \ {0}
            /\ Len(c) = Preserve + 1
            /\ c[1] = Summary(Weight(m) - Preserve, told)
            /\ \A i \in 1..Preserve : c[i + 1] = m[Len(m) - Preserve + i]
            /\ Len(m) - Preserve >= Prefix(m) + 1
      BY <1>2, CompactResult
    <2>2. Len(m) \in Nat /\ Preserve \in Nat /\ Prefix(m) \in {0, 1}
      BY TellsType
    <2>3. ASSUME NEW i \in 1..Len(c), i # 1 PROVE c[i].role # "summary"
      <3>1. i - 1 \in 1..Preserve /\ (i - 1) + 1 = i
        BY <2>1, <2>2, <2>3
      <3>2. c[i] = m[Len(m) - Preserve + (i - 1)]
        BY <2>1, <3>1
      <3>3. /\ Len(m) - Preserve + (i - 1) \in 1..Len(m)
            /\ Len(m) - Preserve + (i - 1) # 1
        BY <2>1, <2>2, <3>1
      <3> QED
        BY <3>2, <3>3 DEF SummaryFirst
    <2>4. c[1].n > 0
      BY <2>1 DEF Summary
    <2> QED
      BY <2>3, <2>4 DEF SummaryFirst
  <1> QED
    BY <1>1, <1>2

LEMMA AppendSummary ==
  ASSUME NEW s \in Seq(Message), NEW m \in Message, m.role # "summary",
         SummaryFirst(s)
  PROVE  SummaryFirst(Append(s, m))
  <1>1. /\ Len(s) \in Nat /\ Len(Append(s, m)) = Len(s) + 1
        /\ \A i \in 1..Len(s) : Append(s, m)[i] = s[i]
        /\ Append(s, m)[Len(s) + 1] = m
    BY AppendProperties, LenProperties
  <1> QED
    BY <1>1 DEF SummaryFirst

LEMMA EmptySummary == SummaryFirst(<< >>)
  BY DEF SummaryFirst

LEMMA SummaryNext ==
  TypeOK /\ AllSummariesFirst /\ [Next]_vars => AllSummariesFirst'
  <1> SUFFICES ASSUME TypeOK, AllSummariesFirst, [Next]_vars
               PROVE  AllSummariesFirst'
    OBVIOUS
  <1>0. /\ mem \in Seq(Message) /\ work \in Seq(Message)
        /\ lines \in Seq(Message)
    BY DEF TypeOK
  <1>1. ASSUME NEW messages \in Seq(Message), SummaryFirst(messages),
               NEW m \in Message, m.role # "summary",
               Push(messages, m) \/ PushFails(m)
        PROVE  AllSummariesFirst'
    <2>1. SummaryFirst(Append(messages, m)) /\ SummaryFirst(Append(lines, m))
      BY <1>0, <1>1, AppendSummary DEF AllSummariesFirst
    <2>2. CASE Push(messages, m)
      BY <2>1, <2>2 DEF Push, AllSummariesFirst
    <2>3. CASE PushFails(m)
      BY <2>1, <2>3, EmptySummary DEF PushFails, End, AllSummariesFirst
    <2> QED
      BY <1>1, <2>2, <2>3
  <1>2. /\ User.role # "summary" /\ Result.role # "summary"
        /\ \A n \in Nat : Assistant(n).role # "summary"
    BY DEF User, Result, Assistant
  <1>3. CASE BeginTurn
    BY <1>0, <1>1, <1>2, <1>3, MessageTypes DEF BeginTurn, AllSummariesFirst
  <1>4. ASSUME NEW n \in 0..MaxUses, Answer(n) PROVE AllSummariesFirst'
    <2>1. n \in Nat /\ Assistant(n) \in Message
      BY ConversationAssumption, MessageTypes DEF ConversationAssumption
    <2>2. Push(work, Assistant(n)) \/ PushFails(Assistant(n))
      BY <1>4 DEF Answer
    <2> QED
      BY <1>0, <1>1, <1>2, <2>1, <2>2 DEF AllSummariesFirst
  <1>5. CASE ToolResult
    BY <1>0, <1>1, <1>2, <1>5, MessageTypes DEF ToolResult, AllSummariesFirst
  <1>6. CASE Finish \/ Command
    <2>1. \A m \in Seq(Message) : SummaryFirst(m) =>
            \A c \in Compact(m) : SummaryFirst(c)
      BY CompactSummary
    <2> QED
      BY <1>0, <1>6, <2>1, EmptySummary
         DEF Finish, Command, fileVars, AllSummariesFirst
  <1>7. CASE Rotate \/ Save \/ Resume \/ ResumeRotated
    BY <1>7 DEF Rotate, Save, Resume, ResumeRotated, fileVars, AllSummariesFirst
  <1>8. CASE Failure
    BY <1>8, EmptySummary DEF Failure, End, fileVars, AllSummariesFirst
  <1>9. CASE UNCHANGED vars
    BY <1>9 DEF vars, programVars, fileVars, AllSummariesFirst
  <1> QED
    BY <1>3, <1>4, <1>5, <1>6, <1>7, <1>8, <1>9 DEF Next

LEMMA SummaryInit == Init => AllSummariesFirst
  BY EmptySummary DEF Init, AllSummariesFirst

-----------------------------------------------------------------------------
(* The history of SessionHistory.                                           *)

\* A compaction leaves the number of messages as it was, keeps the last of
\* them, and a line for all the others if it is the first.
LEMMA CompactTells ==
  ASSUME NEW m \in Seq(Message), SummaryFirst(m), NEW c \in Compact(m),
         Removed(m) > 0
  PROVE  /\ Whole(m) > Preserve
         /\ \E told \in Preserve..Whole(m) :
              /\ Whole(m) = Weight(m) => told = Weight(m)
              /\ Tells(c) = [all |-> Weight(m), told |-> told, whole |-> Preserve]
  <1>1. PICK t \in Timelines(m) :
          /\ t \in Nat /\ Weight(m) - Preserve \in Nat \ {0}
          /\ c \in Seq(Message) /\ Len(c) = Preserve + 1
          /\ c[1] = Summary(Weight(m) - Preserve, t)
          /\ Len(m) - Preserve >= Prefix(m) + 1
    BY CompactResult
  <1>2. /\ Len(m) \in Nat /\ Preserve \in Nat /\ Prefix(m) \in {0, 1}
        /\ Weight(m) \in Nat /\ Whole(m) \in Nat
        /\ Len(m) = Whole(m) + Prefix(m) /\ Whole(m) <= Weight(m)
        /\ Summarised(m) => m[1].n \in Nat /\ Weight(m) = Whole(m) + m[1].n
        /\ ~Summarised(m) => Weight(m) = Whole(m)
    BY TellsType
  <1>3. c # << >>
    BY <1>1, <1>2, EmptySeq
  <1>4. Summarised(c) /\ c[1].n = Weight(m) - Preserve /\ c[1].told = t
    BY <1>1, <1>3 DEF Summarised, Summary
  <1>5. /\ Whole(c) = Preserve /\ Weight(c) = Weight(m)
        /\ Told(c) = Preserve + t
    <2>1. /\ Len(c) = Whole(c) + Prefix(c) /\ Whole(c) \in Nat
          /\ Weight(c) = Whole(c) + c[1].n /\ Told(c) = Whole(c) + c[1].told
      BY <1>1, <1>4, TellsType
    <2>2. Prefix(c) = 1
      BY <1>4 DEF Prefix
    <2> QED
      <3>1. Len(c) = Preserve + 1
        BY <1>1
      <3>2. Whole(c) = Preserve
        BY <1>2, <2>1, <2>2, <3>1
      <3>3. Weight(c) = Preserve + (Weight(m) - Preserve)
        BY <1>4, <2>1, <3>2
      <3>4. Told(c) = Preserve + t
        BY <1>4, <2>1, <3>2
      <3> QED
        BY <1>2, <3>2, <3>3, <3>4
  <1>6. Whole(m) > Preserve /\ Removed(m) = Whole(m) - Preserve
    BY <1>1, <1>2 DEF Removed
  <1>7. t \in 0..Removed(m) /\ (~Summarised(m) => t = Removed(m))
    BY <1>2, <1>6 DEF Timelines
  <1>8. Summarised(m) => Whole(m) # Weight(m)
    <2> SUFFICES ASSUME Summarised(m) PROVE Whole(m) # Weight(m)
      OBVIOUS
    <2>1. 1 \in 1..Len(m)
      BY <1>2 DEF Prefix
    <2>2. m[1].n > 0
      BY <2>1 DEF SummaryFirst, Summarised
    <2> QED
      BY <1>2, <2>2
  <1>9. Preserve + t \in Preserve..Whole(m)
        /\ (Whole(m) = Weight(m) => Preserve + t = Weight(m))
    BY <1>2, <1>6, <1>7, <1>8
  <1>10. Tells(c) = [all |-> Weight(m), told |-> Preserve + t, whole |-> Preserve]
    BY <1>5 DEF Tells
  <1> QED
    BY <1>6, <1>9, <1>10

LEMMA AppendTells ==
  ASSUME NEW s \in Seq(Message), NEW m \in Message, m.role # "summary"
  PROVE  Tells(Append(s, m)) = History!More(Tells(s))
  <1> DEFINE t == Append(s, m)
  <1>1. /\ Len(s) \in Nat /\ Len(t) = Len(s) + 1 /\ t # << >>
        /\ \A i \in 1..Len(s) : t[i] = s[i]
        /\ t[Len(s) + 1] = m
        /\ (s # << >> => Len(s) > 0) /\ (s = << >> => Len(s) = 0)
    BY AppendProperties, LenProperties, EmptySeq
  <1>2. Summarised(t) <=> Summarised(s)
    BY <1>1 DEF Summarised
  <1>3. Summarised(s) => t[1] = s[1] /\ s[1].n \in Nat /\ s[1].told \in Nat
    <2> SUFFICES ASSUME Summarised(s) PROVE t[1] = s[1]
      BY TellsType
    <2>1. 1 \in 1..Len(s)
      BY <1>1 DEF Summarised
    <2> QED
      BY <1>1, <2>1
  <1> HIDE DEF t
  <1>4. /\ Whole(t) = Whole(s) + 1 /\ Weight(t) = Weight(s) + 1
        /\ Told(t) = Told(s) + 1
    <2>1. CASE Summarised(s)
      <3>1. Summarised(t) /\ t[1] = s[1] /\ s[1].n \in Nat /\ s[1].told \in Nat
        BY <1>2, <1>3, <2>1
      <3>2. Whole(t) = Len(t) - 1 /\ Whole(s) = Len(s) - 1
        BY <2>1, <3>1 DEF Prefix, Whole
      <3>3. Weight(t) = Whole(t) + s[1].n /\ Weight(s) = Whole(s) + s[1].n
        BY <2>1, <3>1 DEF Weight
      <3>4. Told(t) = Whole(t) + s[1].told /\ Told(s) = Whole(s) + s[1].told
        BY <2>1, <3>1 DEF Told
      <3>5. Len(s) \in Nat /\ Len(t) = Len(s) + 1
        BY <1>1
      <3> QED
        <4>1. PICK a \in Nat, b \in Nat : a = s[1].n /\ b = s[1].told
          BY <3>1
        <4>2. Whole(t) = Whole(s) + 1 /\ Whole(s) \in Int
          BY <3>2, <3>5
        <4>3. Weight(t) = Weight(s) + 1
          BY <3>3, <4>1, <4>2
        <4>4. Told(t) = Told(s) + 1
          BY <3>4, <4>1, <4>2
        <4> QED
          BY <4>2, <4>3, <4>4
    <2>2. CASE ~Summarised(s)
      BY <1>1, <1>2, <2>2 DEF Prefix, Whole, Weight, Told
    <2> QED
      BY <2>1, <2>2
  <1> QED
    BY <1>4 DEF Tells, History!More, t

LEMMA EmptyTells == Tells(<< >>) = History!Nothing /\ Weight(<< >>) = 0
  BY EmptySeq DEF Tells, Weight, Told, Whole, Prefix, Summarised, History!Nothing

\* Writing a message records it, also when it fails after the line is whole.
LEMMA PushRecords ==
  ASSUME NEW s \in Seq(Message), s = InHand, lines = s, exists, torn = "no",
         NEW m \in Message, m.role # "summary", TypeOK
  PROVE  /\ Push(s, m) /\ pc # "down" /\ pc' \in {"request", "tools", "finish"}
               => History!Record /\ SaveLosesNothing'
         /\ PushFails(m) /\ pc # "down" => History!Stop /\ SaveLosesNothing'
  <1>1. /\ Tells(Append(s, m)) = History!More(Tells(s))
        /\ Tells(<< >>) = History!Nothing
    BY AppendTells, EmptyTells
  <1>2. ASSUME Push(s, m), pc # "down", pc' \in {"request", "tools", "finish"}
        PROVE  History!Record /\ SaveLosesNothing'
    <2>1. InHand' = Append(s, m) /\ OnDisk' = Append(s, m) /\ OnDisk = s
      BY <1>2 DEF Push, InHand, OnDisk
    <2>2. SaveLosesNothing'
      BY <1>2 DEF SaveLosesNothing
    <2> QED
      BY <1>1, <1>2, <2>1, <2>2 DEF History!Record
  <1>3. ASSUME PushFails(m), pc # "down"
        PROVE  History!Stop /\ SaveLosesNothing'
    <2>1. pc' = "down" /\ mem' = << >> /\ InHand' = << >> /\ OnDisk = s
      BY <1>3 DEF PushFails, End, InHand, OnDisk
    <2>2. OnDisk' \in {s, Append(s, m)}
      BY <1>3 DEF PushFails, OnDisk
    <2>3. SaveLosesNothing'
      BY <2>1 DEF SaveLosesNothing
    <2> QED
      BY <1>1, <1>3, <2>1, <2>2, <2>3 DEF History!Stop
  <1> QED
    BY <1>2, <1>3

\* What replaces a session is the session or a compaction of it.
LEMMA ReplacedTells ==
  ASSUME NEW m \in Seq(Message), SummaryFirst(m), m = InHand, m = OnDisk,
         mem' \in {m} \cup Compact(m), InHand' = mem', OnDisk' = OnDisk,
         pc # "down", pc' = "save"
  PROVE  [History!Next]_(History!vars) /\ SaveLosesNothing'
  <1>1. CASE mem' = m
    BY <1>1 DEF History!vars, SaveLosesNothing
  <1>2. CASE mem' # m
    <2>1. mem' \in Compact(m) /\ Removed(m) > 0
      BY <1>2, CompactSame
    <2>2. /\ Whole(m) > Preserve
          /\ \E told \in Preserve..Whole(m) :
               /\ Whole(m) = Weight(m) => told = Weight(m)
               /\ Tells(mem') =
                    [all |-> Weight(m), told |-> told, whole |-> Preserve]
      BY <2>1, CompactTells
    <2>3. Tells(m).whole = Whole(m) /\ Tells(m).all = Weight(m)
      BY DEF Tells
    <2>4. Weight(mem') = Weight(m)
      BY <2>2 DEF Tells
    <2>5. SaveLosesNothing'
      BY <2>4 DEF SaveLosesNothing
    <2>6. History!Compact
      BY <2>2, <2>3 DEF History!Compact
    <2> QED
      BY <2>5, <2>6 DEF History!Next
  <1> QED
    BY <1>1, <1>2

LEMMA HistoryNext ==
  ASSUME TypeOK, FileTracksMemory, AllSummariesFirst, SaveLosesNothing,
         [Next]_vars
  PROVE  [History!Next]_(History!vars) /\ SaveLosesNothing'
  <1>0. /\ mem \in Seq(Message) /\ work \in Seq(Message)
        /\ Tells(<< >>) = History!Nothing
        /\ \A n : Assistant(n).role # "summary"
        /\ User.role # "summary" /\ Result.role # "summary"
        /\ User \in Message /\ Result \in Message
    BY EmptyTells, MessageTypes DEF TypeOK, Assistant, User, Result
  <1>2. CASE BeginTurn
    <2>1. pc = "prompt" /\ mem = InHand /\ lines = mem /\ exists /\ torn = "no"
      BY <1>2 DEF BeginTurn, InHand, FileTracksMemory
    <2> QED
      BY <1>0, <1>2, <2>1, PushRecords DEF BeginTurn, History!Next
  <1>3. ASSUME NEW m \in Message, m.role # "summary", pc \in {"request", "tools"},
               \/ Push(work, m) /\ pc' \in {"request", "tools", "finish"}
               \/ PushFails(m)
        PROVE  [History!Next]_(History!vars) /\ SaveLosesNothing'
    <2>1. work = InHand /\ lines = work /\ exists /\ torn = "no"
      BY <1>3 DEF InHand, FileTracksMemory
    <2> QED
      BY <1>0, <1>3, <2>1, PushRecords DEF History!Next
  <1>4. ASSUME NEW n \in 0..MaxUses, Answer(n)
        PROVE  [History!Next]_(History!vars) /\ SaveLosesNothing'
    <2>1. Assistant(n) \in Message
      BY MessageTypes
    <2>2. pc = "request"
          /\ \/ Push(work, Assistant(n)) /\ pc' \in {"request", "tools", "finish"}
             \/ PushFails(Assistant(n))
      BY <1>4 DEF Answer
    <2> QED
      BY <1>0, <1>3, <2>1, <2>2
  <1>5. CASE ToolResult
    <2>1. pc = "tools"
          /\ \/ Push(work, Result) /\ pc' \in {"request", "tools", "finish"}
             \/ PushFails(Result)
      BY <1>5 DEF ToolResult
    <2> QED
      BY <1>0, <1>3, <2>1
  <1>6. CASE Finish
    <2>1. /\ work = InHand /\ work = OnDisk
          /\ InHand' = mem' /\ OnDisk' = OnDisk
      BY <1>6 DEF Finish, InHand, OnDisk, FileTracksMemory, fileVars
    <2> QED
      BY <1>0, <1>6, <2>1, ReplacedTells DEF Finish, AllSummariesFirst
  <1>7. CASE Command
    <2>1. /\ mem = InHand /\ mem = OnDisk
          /\ InHand' = mem' /\ OnDisk' = OnDisk
      BY <1>7 DEF Command, InHand, OnDisk, FileTracksMemory, fileVars
    <2> QED
      BY <1>0, <1>7, <2>1, ReplacedTells DEF Command, AllSummariesFirst
  <1>8. CASE Rotate
    <2>1. InHand' = InHand /\ OnDisk' = OnDisk
      BY <1>8 DEF Rotate, InHand, OnDisk
    <2> QED
      BY <1>8, <2>1 DEF Rotate, SaveLosesNothing, History!vars
  <1>9. CASE Save
    <2>1. InHand = mem /\ InHand' = mem /\ OnDisk' = mem
          /\ Weight(OnDisk) = Weight(mem)
      BY <1>9 DEF Save, InHand, OnDisk, SaveLosesNothing
    <2>2. Tells(mem).all = Weight(mem) /\ Tells(OnDisk).all = Weight(OnDisk)
      BY DEF Tells
    <2>3. History!Save
      BY <1>9, <2>1, <2>2 DEF Save, History!Save
    <2> QED
      BY <1>9, <2>3 DEF Save, SaveLosesNothing, History!Next
  <1>10. CASE Failure
    <2>1. InHand' = << >> /\ OnDisk' = OnDisk /\ mem' = << >> /\ pc' = "down"
      BY <1>10 DEF Failure, End, InHand, OnDisk, fileVars
    <2> QED
      BY <1>0, <1>10, <2>1 DEF Failure, SaveLosesNothing, History!Stop, History!Next
  <1>11. CASE Resume \/ ResumeRotated
    <2>1. /\ pc = "down" /\ pc' = "save"
          /\ InHand' = OnDisk /\ OnDisk' = OnDisk /\ mem' = OnDisk
      BY <1>11 DEF Resume, ResumeRotated, InHand, OnDisk, fileVars
    <2> QED
      BY <2>1 DEF SaveLosesNothing, History!Resume, History!Next
  <1>12. CASE UNCHANGED vars
    <2>1. InHand' = InHand /\ OnDisk' = OnDisk
      BY <1>12 DEF vars, programVars, fileVars, InHand, OnDisk
    <2> QED
      BY <1>12, <2>1 DEF vars, programVars, SaveLosesNothing, History!vars
  <1> QED
    BY <1>2, <1>4, <1>5, <1>6, <1>7, <1>8, <1>9, <1>10, <1>11, <1>12 DEF Next

LEMMA HistoryInit == Init => History!Init /\ SaveLosesNothing
  BY EmptyTells DEF Init, History!Init, SaveLosesNothing, InHand, OnDisk

(* session.rs and compact.rs: every step of a turn, a compaction, a save, a *)
(* rotation, a failure and a resume is one of SessionHistory or leaves it   *)
(* alone: the number of messages is never lost, the last Preserve stay in   *)
(* full, and a first compaction has a line for all the others.  What a      *)
(* further compaction drops of the lines of the one before is not bounded.  *)
THEOREM ConversationImplementsHistory == Spec => ImplementsHistory
  <1>1. TypeOK /\ FileTracksMemory /\ AllSummariesFirst /\ SaveLosesNothing
          /\ [Next]_vars
          => [History!Next]_(History!vars) /\ SaveLosesNothing'
    BY HistoryNext
  <1> QED
    BY <1>1, TypeInit, TypeNext, FileInit, FileNext, SummaryInit, SummaryNext,
       HistoryInit, PTL
       DEF Spec, ImplementsHistory, History!Spec

-----------------------------------------------------------------------------
(* Tool uses and their results, in any sequence of messages.               *)

LEMMA AppendPairs ==
  ASSUME NEW s \in Seq(Message), NEW m \in Message
  PROVE  LET t == Append(s, m) IN
         /\ t \in Seq(Message) /\ DOMAIN s = 1..Len(s) /\ Len(s) \in Nat
         /\ DOMAIN t = DOMAIN s \cup {Len(s) + 1} /\ Len(t) = Len(s) + 1
         /\ t[Len(s) + 1] = m /\ \A i \in DOMAIN s : t[i] = s[i]
         /\ \A i \in DOMAIN s :
              /\ Opened(s, i) => Opened(t, i)
              /\ Cut(s, i) => Cut(t, i)
              /\ s[i] \in Message
              /\ Answered(s, i) => Answered(t, i)
              /\ LeftOpen(s, i) => LeftOpen(t, i)
              /\ AtEnd(s, i) /\ m.role = "result" => AtEnd(t, i)
              /\ AtEnd(s, i) /\ m.role = "user" => LeftOpen(t, i)
  <1> DEFINE t == Append(s, m)
  <1>1. /\ t \in Seq(Message) /\ Len(t) = Len(s) + 1 /\ Len(s) \in Nat
        /\ \A i \in 1..Len(s) : t[i] = s[i]
        /\ t[Len(s) + 1] = m
    BY AppendProperties, LenProperties
  <1>2. DOMAIN s = 1..Len(s) /\ DOMAIN t = 1..Len(t)
    BY <1>1, LenProperties
  <1> HIDE DEF t
  <1>3. DOMAIN t = DOMAIN s \cup {Len(s) + 1} /\ \A i \in DOMAIN s : t[i] = s[i]
    BY <1>1, <1>2
  <1>4. ASSUME NEW i \in DOMAIN s
        PROVE  /\ Opened(s, i) => Opened(t, i)
               /\ Cut(s, i) => Cut(t, i)
    <2>1. i \in 1..Len(s) /\ i \in Nat
      BY <1>1, <1>2
    <2>2. \A j \in 1..i : t[j] = s[j]
      BY <1>1, <2>1
    <2>3. ASSUME Opened(s, i) PROVE Opened(t, i)
      <3>1. PICK j \in 1..(i - 1) :
              /\ s[j].role = "assistant" /\ i - j <= s[j].n
              /\ \A h \in (j + 1)..i : s[h].role = "result"
        BY <2>3 DEF Opened
      <3>2. j \in 1..i /\ \A h \in (j + 1)..i : h \in 1..i
        BY <2>1
      <3> QED
        BY <2>2, <3>1, <3>2 DEF Opened
    <2>4. Cut(s, i) => Cut(t, i)
      BY <1>1, <2>1, <2>2 DEF Cut
    <2> QED
      BY <2>3, <2>4
  <1>5. ASSUME NEW i \in DOMAIN s, Answered(s, i)
        PROVE  Answered(t, i)
    <2>0. i \in 1..Len(s) /\ s[i] \in Message
      BY <1>2, ElementOfSeq
    <2>1. i \in 1..Len(s) /\ i \in Nat /\ t[i] = s[i] /\ s[i].n \in Nat
      BY <1>1, <2>0 DEF Message
    <2>2. \A h \in (i + 1)..(i + s[i].n) : h \in 1..Len(s)
      BY <1>1, <1>5, <2>1 DEF Answered
    <2>3. i + t[i].n <= Len(t)
      BY <1>1, <1>5, <2>1 DEF Answered
    <2>4. \A h \in (i + 1)..(i + t[i].n) : t[h].role = "result"
      BY <1>1, <1>5, <2>1, <2>2 DEF Answered
    <2> QED
      BY <2>3, <2>4 DEF Answered
  <1>6. ASSUME NEW i \in DOMAIN s
        PROVE  /\ LeftOpen(s, i) => LeftOpen(t, i)
               /\ AtEnd(s, i) /\ m.role = "result" => AtEnd(t, i)
               /\ AtEnd(s, i) /\ m.role = "user" => LeftOpen(t, i)
    <2>1. i \in 1..Len(s) /\ i \in Nat
      BY <1>1, <1>2
    <2>2. \A h \in (i + 1)..Len(s) : h \in 1..Len(s) /\ t[h] = s[h]
      BY <1>1, <2>1
    <2>3. ASSUME LeftOpen(s, i) PROVE LeftOpen(t, i)
      <3>1. PICK h \in (i + 1)..Len(s) :
              s[h].role = "user" /\ \A g \in (i + 1)..(h - 1) : s[g].role = "result"
        BY <2>3 DEF LeftOpen
      <3>2. h \in (i + 1)..Len(t) /\ t[h].role = "user"
        BY <1>1, <2>2, <3>1
      <3>3. \A g \in (i + 1)..(h - 1) : g \in (i + 1)..Len(s)
        BY <1>1, <2>1, <3>1
      <3>4. \A g \in (i + 1)..(h - 1) : t[g].role = "result"
        BY <2>2, <3>1, <3>3
      <3> QED
        BY <3>2, <3>4 DEF LeftOpen
    <2>4. ASSUME AtEnd(s, i) PROVE \A h \in (i + 1)..Len(s) : t[h].role = "result"
      BY <2>2, <2>4 DEF AtEnd
    <2>5. (i + 1)..Len(t) = (i + 1)..Len(s) \cup {Len(s) + 1}
          /\ (Len(s) + 1) - 1 = Len(s)
      BY <1>1, <2>1
    <2>6. AtEnd(s, i) /\ m.role = "result" => AtEnd(t, i)
      BY <1>1, <2>4, <2>5 DEF AtEnd
    <2>7. AtEnd(s, i) /\ m.role = "user" => LeftOpen(t, i)
      BY <1>1, <2>4, <2>5 DEF LeftOpen
    <2> QED
      BY <2>3, <2>6, <2>7
  <1>7. \A i \in DOMAIN s : s[i] \in Message
    BY <1>2, ElementOfSeq
  <1>8. \A i \in DOMAIN s :
              /\ Opened(s, i) => Opened(t, i)
              /\ Cut(s, i) => Cut(t, i)
              /\ s[i] \in Message
              /\ Answered(s, i) => Answered(t, i)
              /\ LeftOpen(s, i) => LeftOpen(t, i)
              /\ AtEnd(s, i) /\ m.role = "result" => AtEnd(t, i)
              /\ AtEnd(s, i) /\ m.role = "user" => LeftOpen(t, i)
    BY <1>4, <1>5, <1>6, <1>7
  <1> QED
    BY <1>1, <1>2, <1>3, <1>8 DEF t

(* A compaction moves what it keeps by as many places as it takes away.    *)
LEMMA CompactMoves ==
  ASSUME NEW m \in Seq(Message), NEW c \in Compact(m), Removed(m) > 0
  PROVE  \E d \in Nat :
           /\ Len(m) = Len(c) + d
           /\ c \in Seq(Message) /\ Len(c) \in Nat \ {0}
           /\ c[1].role = "summary"
           /\ \A i \in 2..Len(c) : c[i] = m[i + d]
  <1> DEFINE d == Len(m) - Preserve - 1
  <1>1. PICK told \in Nat :
           /\ c \in Seq(Message) /\ Len(c) = Preserve + 1
           /\ c[1] = Summary(Weight(m) - Preserve, told)
           /\ \A i \in 1..Preserve : c[i + 1] = m[Len(m) - Preserve + i]
           /\ Len(m) - Preserve >= Prefix(m) + 1
    BY CompactResult
  <1>2. Preserve \in Nat /\ Len(m) \in Nat /\ Prefix(m) \in {0, 1}
    BY TellsType
  <1>3. d \in Nat /\ Len(m) = Len(c) + d /\ Len(c) \in Nat \ {0}
    BY <1>1, <1>2
  <1>4. ASSUME NEW i \in 2..Len(c) PROVE c[i] = m[i + d]
    <2>1. i - 1 \in 1..Preserve /\ (i - 1) + 1 = i
          /\ Len(m) - Preserve + (i - 1) = i + d
      BY <1>1, <1>2
    <2> QED
      BY <1>1, <2>1
  <1>5. c[1].role = "summary"
    BY <1>1 DEF Summary
  <1> HIDE DEF d
  <1> QED
    BY <1>1, <1>3, <1>4, <1>5

LEMMA CompactPairs ==
  ASSUME NEW m \in Seq(Message), NEW failed \in BOOLEAN, NEW c \in Compact(m)
  PROVE  /\ Paired(m, failed) => Paired(c, failed)
         /\ PairedSoFar(m, failed) => PairedSoFar(c, failed)
  <1>1. CASE ~(Removed(m) > 0)
    BY <1>1, CompactSame
  <1>2. CASE Removed(m) > 0
    <2>1. PICK d \in Nat :
           /\ Len(m) = Len(c) + d
           /\ c \in Seq(Message) /\ Len(c) \in Nat \ {0}
           /\ c[1].role = "summary"
           /\ \A i \in 2..Len(c) : c[i] = m[i + d]
      BY <1>2, CompactMoves
    <2>2. DOMAIN c = 1..Len(c) /\ DOMAIN m = 1..Len(m)
      BY <2>1, LenProperties
    <2>3. \A i \in 1..Len(c) : i \in Nat \ {0} /\ (i # 1 => i \in 2..Len(c))
      BY <2>1
    <2>4. \A i \in 2..Len(c) : i + d \in DOMAIN m /\ c[i] = m[i + d]
      BY <2>1, <2>2
    <2>5. ASSUME NEW i \in 2..Len(c), Opened(m, i + d) \/ Cut(m, i + d)
          PROVE  Opened(c, i) \/ Cut(c, i)
      <3>1. i \in Nat /\ i >= 2 /\ i <= Len(c)
        BY <2>1
      <3>2. CASE Cut(m, i + d)
        <4>1. \A h \in 2..i : h + d \in 2..(i + d) /\ h \in 2..Len(c)
          BY <2>1, <3>1
        <4>2. \A h \in 2..i : c[h].role = "result"
          BY <2>1, <3>2, <4>1 DEF Cut
        <4> QED
          BY <2>1, <4>2 DEF Cut
      <3>3. CASE Opened(m, i + d)
        <4>1. PICK j \in 1..(i + d - 1) :
                /\ m[j].role = "assistant" /\ (i + d) - j <= m[j].n
                /\ \A h \in (j + 1)..(i + d) : m[h].role = "result"
          BY <3>3 DEF Opened
        <4>2. CASE j - d >= 2
          <5> DEFINE e == j - d
          <5>1. e \in 1..(i - 1) /\ e \in 2..Len(c) /\ e + d = j
                /\ i - e = (i + d) - j
            BY <2>1, <3>1, <4>1, <4>2
          <5>2. c[e] = m[j]
            BY <2>1, <5>1
          <5>3. \A h \in (e + 1)..i : h + d \in (j + 1)..(i + d) /\ h \in 2..Len(c)
            BY <2>1, <3>1, <5>1
          <5>4. \A h \in (e + 1)..i : c[h].role = "result"
            BY <2>1, <4>1, <5>3
          <5> HIDE DEF e
          <5> QED
            BY <4>1, <5>1, <5>2, <5>4 DEF Opened
        <4>3. CASE ~(j - d >= 2)
          <5>1. \A h \in 2..i : h + d \in (j + 1)..(i + d) /\ h \in 2..Len(c)
            BY <2>1, <3>1, <4>1, <4>3
          <5>2. \A h \in 2..i : c[h].role = "result"
            BY <2>1, <4>1, <5>1
          <5> QED
            BY <2>1, <5>2 DEF Cut
        <4> QED
          BY <4>2, <4>3
      <3> QED
        BY <2>5, <3>2, <3>3
    <2>6. ASSUME NEW j \in 2..Len(c)
          PROVE  /\ Answered(m, j + d) => Answered(c, j)
                 /\ LeftOpen(m, j + d) => LeftOpen(c, j)
                 /\ AtEnd(m, j + d) => AtEnd(c, j)
      <3>1. j \in Nat /\ j >= 2 /\ j <= Len(c) /\ c[j] = m[j + d]
        BY <2>1
      <3>2. \A h \in (j + 1)..Len(c) :
              /\ h \in 2..Len(c) /\ c[h] = m[h + d]
              /\ h + d \in ((j + d) + 1)..Len(m)
        BY <2>1, <3>1
      <3>3. ASSUME Answered(m, j + d) PROVE Answered(c, j)
        <4>1. m[j + d].n \in Nat
          <5>1. m[j + d] \in Message
            BY <2>2, <2>4, ElementOfSeq
          <5> QED
            BY <5>1 DEF Message
        <4>2. j + c[j].n <= Len(c)
          BY <2>1, <3>1, <3>3, <4>1 DEF Answered
        <4>3. \A h \in (j + 1)..(j + c[j].n) :
                 /\ h \in (j + 1)..Len(c)
                 /\ h + d \in ((j + d) + 1)..((j + d) + m[j + d].n)
          BY <2>1, <3>1, <4>1, <4>2
        <4>4. \A h \in (j + 1)..(j + c[j].n) : c[h].role = "result"
          BY <3>2, <3>3, <4>3 DEF Answered
        <4> QED
          BY <4>2, <4>4 DEF Answered
      <3>4. ASSUME LeftOpen(m, j + d) PROVE LeftOpen(c, j)
        <4>1. PICK h \in ((j + d) + 1)..Len(m) :
                /\ m[h].role = "user"
                /\ \A g \in ((j + d) + 1)..(h - 1) : m[g].role = "result"
          BY <3>4 DEF LeftOpen
        <4> DEFINE e == h - d
        <4>2. e \in (j + 1)..Len(c) /\ e + d = h
          BY <2>1, <3>1, <4>1
        <4>3. \A g \in (j + 1)..(e - 1) :
                 g \in (j + 1)..Len(c) /\ g + d \in ((j + d) + 1)..(h - 1)
          BY <2>1, <3>1, <4>1, <4>2
        <4>4. c[e].role = "user" /\ \A g \in (j + 1)..(e - 1) : c[g].role = "result"
          BY <3>2, <4>1, <4>2, <4>3
        <4> HIDE DEF e
        <4> QED
          BY <4>2, <4>4 DEF LeftOpen
      <3>5. AtEnd(m, j + d) => AtEnd(c, j)
        BY <3>2 DEF AtEnd
      <3> QED
        BY <3>3, <3>4, <3>5
    <2>7. \A i \in DOMAIN c : c[i].role \in {"result", "assistant"} =>
             i \in 2..Len(c) /\ i + d \in DOMAIN m /\ c[i] = m[i + d]
      BY <2>1, <2>2, <2>3, <2>4
    <2>8. Paired(m, failed) => Paired(c, failed)
      BY <2>5, <2>6, <2>7 DEF Paired
    <2>9. PairedSoFar(m, failed) => PairedSoFar(c, failed)
      BY <2>5, <2>6, <2>7 DEF PairedSoFar
    <2> QED
      BY <2>8, <2>9
  <1> QED
    BY <1>1, <1>2

(* A message ends what was left open, opens results, or is the next one.   *)
LEMMA PushPairs ==
  ASSUME NEW s \in Seq(Message), NEW failed \in BOOLEAN
  PROVE  /\ (failed => PairedSoFar(s, TRUE)) /\ (~failed => Paired(s, FALSE))
              => Paired(Append(s, User), failed)
         /\ \A n \in Nat : Paired(s, failed) =>
              PairedSoFar(Append(s, Assistant(n)), failed)
         /\ Paired(s, failed) => Paired(Append(s, Assistant(0)), failed)
         /\ Paired(s, failed) => PairedSoFar(s, failed)
  <1>1. ASSUME failed => PairedSoFar(s, TRUE), ~failed => Paired(s, FALSE)
        PROVE  Paired(Append(s, User), failed)
    <2> DEFINE t == Append(s, User)
    <2>1. User \in Message /\ User.role = "user"
      BY MessageTypes DEF User
    <2>2. /\ DOMAIN t = DOMAIN s \cup {Len(s) + 1} /\ t[Len(s) + 1] = User
          /\ \A i \in DOMAIN s : t[i] = s[i]
          /\ \A i \in DOMAIN s :
              /\ Opened(s, i) => Opened(t, i)
              /\ Cut(s, i) => Cut(t, i)
              /\ Answered(s, i) => Answered(t, i)
              /\ LeftOpen(s, i) => LeftOpen(t, i)
              /\ AtEnd(s, i) => LeftOpen(t, i)
      BY <2>1, AppendPairs
    <2> HIDE DEF t
    <2>3. ASSUME NEW i \in DOMAIN t, t[i].role # "user"
          PROVE  i \in DOMAIN s /\ t[i] = s[i]
      BY <2>1, <2>2, <2>3
    <2>4. PairedSoFar(s, failed) /\ (Paired(s, failed) \/ failed)
      BY <1>1 DEF Paired, PairedSoFar
    <2>5. \A i \in DOMAIN t : t[i].role = "result" => Opened(t, i) \/ Cut(t, i)
      <3>1. \A i \in DOMAIN s : s[i].role = "result" => Opened(s, i) \/ Cut(s, i)
        BY <2>4 DEF PairedSoFar
      <3> QED
        BY <2>2, <2>3, <3>1
    <2>6. ASSUME NEW j \in DOMAIN t, t[j].role = "assistant"
          PROVE  Answered(t, j) \/ (failed /\ LeftOpen(t, j))
      <3>1. j \in DOMAIN s /\ s[j].role = "assistant"
        BY <2>3, <2>6
      <3>2. \/ Answered(s, j) \/ (failed /\ LeftOpen(s, j))
            \/ failed /\ AtEnd(s, j)
        BY <2>4, <3>1 DEF Paired, PairedSoFar
      <3> QED
        BY <2>2, <3>1, <3>2
    <2> QED
      BY <2>5, <2>6 DEF Paired, t
  <1>2. ASSUME NEW n \in Nat, Paired(s, failed)
        PROVE  /\ PairedSoFar(Append(s, Assistant(n)), failed)
               /\ n = 0 => Paired(Append(s, Assistant(n)), failed)
    <2> DEFINE t == Append(s, Assistant(n))
    <2>1. /\ Assistant(n) \in Message /\ Assistant(n).role = "assistant"
          /\ Assistant(n).n = n
      BY MessageTypes DEF Assistant
    <2>2. /\ DOMAIN t = DOMAIN s \cup {Len(s) + 1} /\ t[Len(s) + 1] = Assistant(n)
          /\ Len(t) = Len(s) + 1 /\ Len(s) \in Nat
          /\ \A i \in DOMAIN s : t[i] = s[i]
          /\ \A i \in DOMAIN s :
              /\ Opened(s, i) => Opened(t, i)
              /\ Cut(s, i) => Cut(t, i)
              /\ Answered(s, i) => Answered(t, i)
              /\ LeftOpen(s, i) => LeftOpen(t, i)
      BY <2>1, AppendPairs
    <2> HIDE DEF t
    <2>3. AtEnd(t, Len(s) + 1) /\ (n = 0 => Answered(t, Len(s) + 1))
      BY <2>1, <2>2 DEF AtEnd, Answered
    <2>4. PairedSoFar(t, failed)
      BY <1>2, <2>1, <2>2, <2>3 DEF Paired, PairedSoFar
    <2>5. n = 0 => Paired(t, failed)
      BY <1>2, <2>1, <2>2, <2>3 DEF Paired
    <2> QED
      BY <2>4, <2>5 DEF t
  <1>3. Paired(s, failed) => PairedSoFar(s, failed)
    BY DEF Paired, PairedSoFar
  <1> QED
    BY <1>1, <1>2, <1>3

LEMMA PairsWeaken ==
  ASSUME NEW s, NEW failed \in BOOLEAN
  PROVE  /\ PairedSoFar(s, failed) => PairedSoFar(s, TRUE)
         /\ Paired(s, FALSE) => Paired(s, failed)
         /\ Paired(s, failed) => PairedSoFar(s, failed)
  BY DEF Paired, PairedSoFar

LEMMA EmptyPaired ==
  ASSUME NEW failed \in BOOLEAN
  PROVE  Paired(<< >>, failed) /\ PairedSoFar(<< >>, failed)
  <1>1. DOMAIN << >> = {}
    BY EmptySeq
  <1> QED
    BY <1>1 DEF Paired, PairedSoFar

-----------------------------------------------------------------------------
(* The steps of the program keep the pairs.                                 *)

LEMMA AppendAwaited ==
  ASSUME TypeOK, SessionsPaired, pc = "tools"
  PROVE  LET t == Append(work, Result)
             failed == failures > 0
         IN  /\ PairedSoFar(t, failed)
             /\ pending' = pending - 1 =>
                  /\ \A j \in DOMAIN t : t[j].role = "assistant" =>
                       \/ Answered(t, j) \/ (failed /\ LeftOpen(t, j))
                       \/ (AtEnd(t, j) /\ j + t[j].n = Len(t) + pending')
                  /\ \E j \in DOMAIN t :
                       /\ t[j].role = "assistant" /\ AtEnd(t, j)
                       /\ j + t[j].n = Len(t) + pending'
                  /\ pending = 1 => Paired(t, failed)
  <1> DEFINE t == Append(work, Result)
             failed == failures > 0
  <1>1. /\ work \in Seq(Message) /\ pending \in Nat \ {0}
        /\ Result \in Message /\ Result.role = "result"
    BY MessageTypes DEF TypeOK, Result
  <1>2. /\ DOMAIN work = 1..Len(work) /\ Len(work) \in Nat
        /\ DOMAIN t = DOMAIN work \cup {Len(work) + 1} /\ Len(t) = Len(work) + 1
        /\ t[Len(work) + 1] = Result /\ \A i \in DOMAIN work : t[i] = work[i]
        /\ \A i \in DOMAIN work :
              /\ Opened(work, i) => Opened(t, i)
              /\ Cut(work, i) => Cut(t, i)
              /\ Answered(work, i) => Answered(t, i)
              /\ LeftOpen(work, i) => LeftOpen(t, i)
              /\ AtEnd(work, i) => AtEnd(t, i)
              /\ work[i] \in Message
    BY <1>1, AppendPairs
  <1> HIDE DEF t, failed
  <1>3. /\ PairedSoFar(work, failed)
        /\ \A j \in DOMAIN work : work[j].role = "assistant" =>
             \/ Answered(work, j) \/ (failed /\ LeftOpen(work, j))
             \/ Awaited(work, j)
        /\ \E j \in DOMAIN work : Awaited(work, j)
    BY DEF SessionsPaired, failed
  <1>4. PICK o \in DOMAIN work :
          /\ work[o].role = "assistant" /\ AtEnd(work, o)
          /\ o + work[o].n = Len(work) + pending
    BY <1>3 DEF Awaited
  <1>5. work[o].n \in Nat /\ o \in Nat /\ o \in 1..Len(work)
    BY <1>2 DEF Message
  <1>6. Opened(t, Len(t))
    <2>1. o \in 1..(Len(t) - 1) /\ Len(t) - o <= t[o].n
      BY <1>1, <1>2, <1>4, <1>5
    <2>2. \A h \in (o + 1)..Len(t) : t[h].role = "result"
      BY <1>2, <1>4 DEF AtEnd
    <2>3. t[o].role = "assistant"
      BY <1>2, <1>4
    <2> QED
      BY <2>1, <2>2, <2>3 DEF Opened
  <1>7. \A i \in DOMAIN t : t[i].role = "result" => Opened(t, i) \/ Cut(t, i)
    BY <1>2, <1>3, <1>6 DEF PairedSoFar
  <1>8. ASSUME NEW j \in DOMAIN t, t[j].role = "assistant"
        PROVE  /\ j \in DOMAIN work /\ work[j] = t[j]
               /\ \/ Answered(t, j) \/ (failed /\ LeftOpen(t, j))
                  \/ AtEnd(t, j) /\ j + t[j].n = Len(work) + pending
    BY <1>1, <1>2, <1>3, <1>8 DEF Awaited
  <1>9. PairedSoFar(t, failed)
    BY <1>7, <1>8 DEF PairedSoFar
  <1>10. ASSUME pending' = pending - 1
         PROVE  Len(work) + pending = Len(t) + pending'
    BY <1>1, <1>2, <1>10
  <1>11. /\ o \in DOMAIN t /\ t[o].role = "assistant" /\ AtEnd(t, o)
         /\ o + t[o].n = Len(work) + pending
    BY <1>2, <1>4
  <1>12. ASSUME pending = 1 PROVE Paired(t, failed)
    <2>1. ASSUME NEW j \in DOMAIN t, AtEnd(t, j), j + t[j].n = Len(work) + pending
          PROVE  Answered(t, j)
      BY <1>1, <1>2, <1>12, <2>1 DEF AtEnd, Answered
    <2> QED
      BY <1>7, <1>8, <2>1 DEF Paired
  <1> QED
    BY <1>8, <1>9, <1>10, <1>11, <1>12 DEF t, failed

LEMMA PairsFailed ==
  ASSUME TypeOK, SessionsPaired, End,
         PairedSoFar(lines', TRUE), UNCHANGED rotated
  PROVE  SessionsPaired'
  <1>1. failures \in Nat /\ failures' = failures + 1 /\ pc' = "down"
        /\ mem' = << >>
    BY ConversationAssumption DEF ConversationAssumption, TypeOK, End
  <1>2. failures' > 0 /\ failures' # 0 /\ (failures' > 0) = TRUE
    BY <1>1
  <1>3. PairedSoFar(mem', TRUE)
    BY <1>1, EmptyPaired
  <1>4. PairedSoFar(rotated', TRUE)
    <2>1. (failures > 0) \in BOOLEAN /\ PairedSoFar(rotated, failures > 0)
      BY DEF SessionsPaired
    <2>2. PairedSoFar(rotated, TRUE)
      BY <2>1, PairsWeaken
    <2> QED
      BY <2>2
  <1> QED
    BY <1>1, <1>2, <1>3, <1>4 DEF SessionsPaired

(* An append, done or failed, when the file is what it is appended to.     *)
LEMMA PairsPushed ==
  ASSUME TypeOK, SessionsPaired, NEW s \in Seq(Message), NEW m \in Message,
         lines = s, torn = "no",
         PairedSoFar(Append(s, m), failures > 0)
  PROVE  /\ PushFails(m) => SessionsPaired'
         /\ /\ Push(s, m)
            /\ pc' # "down"
            /\ pc' \in {"request", "finish"} => Paired(Append(s, m), failures > 0)
            /\ pc' = "tools" =>
                 LET t == Append(s, m) IN
                  /\ \A j \in DOMAIN t : t[j].role = "assistant" =>
                       \/ Answered(t, j) \/ (failures > 0 /\ LeftOpen(t, j))
                       \/ (AtEnd(t, j) /\ j + t[j].n = Len(t) + pending')
                  /\ \E j \in DOMAIN t :
                       /\ t[j].role = "assistant" /\ AtEnd(t, j)
                       /\ j + t[j].n = Len(t) + pending'
            => SessionsPaired'
  <1>1. PairedSoFar(lines, failures > 0)
    BY DEF SessionsPaired
  <1>2. PairedSoFar(lines, TRUE) /\ PairedSoFar(Append(s, m), TRUE)
    <2>1. (failures > 0) \in BOOLEAN
      OBVIOUS
    <2> QED
      BY <1>1, <2>1, PairsWeaken
  <1>3. ASSUME PushFails(m) PROVE SessionsPaired'
    <2>1. End /\ lines' \in {lines, Append(lines, m)} /\ UNCHANGED rotated
      BY <1>3 DEF PushFails
    <2> QED
      BY <1>2, <2>1, PairsFailed
  <1>4. ASSUME /\ Push(s, m)
               /\ pc' # "down"
               /\ pc' \in {"request", "finish"} => Paired(Append(s, m), failures > 0)
               /\ pc' = "tools" =>
                   LET t == Append(s, m) IN
                    /\ \A j \in DOMAIN t : t[j].role = "assistant" =>
                         \/ Answered(t, j) \/ (failures > 0 /\ LeftOpen(t, j))
                         \/ (AtEnd(t, j) /\ j + t[j].n = Len(t) + pending')
                    /\ \E j \in DOMAIN t :
                         /\ t[j].role = "assistant" /\ AtEnd(t, j)
                         /\ j + t[j].n = Len(t) + pending'
        PROVE  SessionsPaired'
    <2> DEFINE t == Append(s, m)
    <2>1. /\ work' = t /\ lines' = t
          /\ UNCHANGED <<mem, rotated, failures>>
      BY <1>4 DEF Push
    <2>2. PairedSoFar(t, failures > 0)
      OBVIOUS
    <2>3. /\ pc' # "down"
          /\ pc' \in {"request", "finish"} => Paired(t, failures > 0)
          /\ pc' = "tools" =>
              /\ \A j \in DOMAIN t : t[j].role = "assistant" =>
                   \/ Answered(t, j) \/ (failures > 0 /\ LeftOpen(t, j))
                   \/ (AtEnd(t, j) /\ j + t[j].n = Len(t) + pending')
              /\ \E j \in DOMAIN t :
                   /\ t[j].role = "assistant" /\ AtEnd(t, j)
                   /\ j + t[j].n = Len(t) + pending'
      BY <1>4
    <2> HIDE DEF t
    <2>4. /\ PairedSoFar(lines', failures' > 0) /\ PairedSoFar(rotated', failures' > 0)
          /\ PairedSoFar(mem', failures' > 0)
          /\ failures' = 0 => Paired(mem', FALSE)
      BY <2>1, <2>2 DEF SessionsPaired
    <2>5. /\ pc' = "down" => failures' > 0
          /\ pc' \in {"request", "finish"} => Paired(work', failures' > 0)
      BY <2>1, <2>3
    <2>6. pc' = "tools" =>
            /\ PairedSoFar(work', failures' > 0)
            /\ \A j \in DOMAIN work' : work'[j].role = "assistant" =>
                 \/ Answered(work', j) \/ (failures' > 0 /\ LeftOpen(work', j))
                 \/ Awaited(work, j)'
            /\ \E j \in DOMAIN work' : Awaited(work, j)'
      BY <2>1, <2>2, <2>3 DEF Awaited
    <2> QED
      BY <2>4, <2>5, <2>6 DEF SessionsPaired
  <1> QED
    BY <1>3, <1>4

LEMMA PairsNext ==
  TypeOK /\ FileTracksMemory /\ SessionsPaired /\ [Next]_vars => SessionsPaired'
  <1> SUFFICES ASSUME TypeOK, FileTracksMemory, SessionsPaired, [Next]_vars
               PROVE  SessionsPaired'
    OBVIOUS
  <1>0. /\ mem \in Seq(Message) /\ work \in Seq(Message)
        /\ failures \in Nat /\ (failures > 0) \in BOOLEAN
        /\ (failures = 0) <=> ~(failures > 0)
    BY ConversationAssumption DEF ConversationAssumption, TypeOK
  <1>1. CASE BeginTurn
    <2>1. Paired(Append(mem, User), failures > 0)
      BY <1>0, PushPairs, PairsWeaken DEF SessionsPaired
    <2>2. /\ lines = mem /\ torn = "no" /\ User \in Message
          /\ PairedSoFar(Append(mem, User), failures > 0)
      BY <1>0, <1>1, <2>1, PairsWeaken, MessageTypes DEF BeginTurn, FileTracksMemory
    <2> QED
      BY <1>0, <1>1, <2>1, <2>2, PairsPushed DEF BeginTurn
  <1>2. ASSUME NEW n \in 0..MaxUses, Answer(n) PROVE SessionsPaired'
    <2>1. /\ n \in Nat /\ Assistant(n) \in Message
          /\ Assistant(n).role = "assistant" /\ Assistant(n).n = n
      BY MessageTypes, ConversationAssumption DEF ConversationAssumption, Assistant
    <2>2. /\ pc = "request" /\ lines = work /\ torn = "no"
          /\ Paired(work, failures > 0)
      BY <1>2 DEF Answer, FileTracksMemory, SessionsPaired
    <2> DEFINE t == Append(work, Assistant(n))
    <2>3. /\ PairedSoFar(t, failures > 0)
          /\ n = 0 => Paired(t, failures > 0)
      BY <1>0, <2>1, <2>2, PushPairs
    <2>4. /\ DOMAIN t = DOMAIN work \cup {Len(work) + 1}
          /\ t[Len(work) + 1] = Assistant(n)
          /\ Len(t) = Len(work) + 1 /\ Len(work) \in Nat
          /\ \A i \in DOMAIN work : t[i] = work[i]
          /\ \A i \in DOMAIN work :
              /\ Answered(work, i) => Answered(t, i)
              /\ LeftOpen(work, i) => LeftOpen(t, i)
      BY <1>0, <2>1, AppendPairs
    <2> HIDE DEF t
    <2>5. ASSUME NEW j \in DOMAIN work, t[j].role = "assistant"
          PROVE  Answered(t, j) \/ (failures > 0 /\ LeftOpen(t, j))
      BY <2>2, <2>4, <2>5 DEF Paired
    <2>6. /\ t[Len(work) + 1].role = "assistant" /\ AtEnd(t, Len(work) + 1)
          /\ (Len(work) + 1) + t[Len(work) + 1].n = Len(t) + n
          /\ Len(work) + 1 \in DOMAIN t
      BY <2>1, <2>4 DEF AtEnd
    <2>7. \A j \in DOMAIN t : t[j].role = "assistant" =>
               \/ Answered(t, j) \/ (failures > 0 /\ LeftOpen(t, j))
               \/ (AtEnd(t, j) /\ j + t[j].n = Len(t) + n)
      BY <2>4, <2>5, <2>6
    <2>8. \E j \in DOMAIN t :
               /\ t[j].role = "assistant" /\ AtEnd(t, j)
               /\ j + t[j].n = Len(t) + n
      BY <2>6
    <2>9. CASE PushFails(Assistant(n))
      BY <1>0, <2>1, <2>2, <2>3, <2>9, PairsPushed DEF t
    <2>10. CASE /\ Push(work, Assistant(n)) /\ pending' = n
                /\ pc' = IF n = 0 THEN "finish" ELSE "tools"
      BY <1>0, <2>1, <2>2, <2>3, <2>7, <2>8, <2>10, PairsPushed DEF t
    <2> QED
      BY <1>2, <2>9, <2>10 DEF Answer
  <1>3. CASE ToolResult
    <2>1. /\ pc = "tools" /\ lines = work /\ torn = "no" /\ Result \in Message
      BY <1>3, MessageTypes DEF ToolResult, FileTracksMemory
    <2> DEFINE t == Append(work, Result)
    <2>2. /\ PairedSoFar(t, failures > 0)
          /\ pending' = pending - 1 =>
                  /\ \A j \in DOMAIN t : t[j].role = "assistant" =>
                       \/ Answered(t, j) \/ (failures > 0 /\ LeftOpen(t, j))
                       \/ (AtEnd(t, j) /\ j + t[j].n = Len(t) + pending')
                  /\ \E j \in DOMAIN t :
                       /\ t[j].role = "assistant" /\ AtEnd(t, j)
                       /\ j + t[j].n = Len(t) + pending'
                  /\ pending = 1 => Paired(t, failures > 0)
      BY <2>1, AppendAwaited
    <2> HIDE DEF t
    <2>3. CASE PushFails(Result)
      BY <1>0, <2>1, <2>2, <2>3, PairsPushed DEF t
    <2>4. CASE /\ Push(work, Result) /\ pending' = pending - 1
               /\ pc' = IF pending = 1 THEN "request" ELSE "tools"
      BY <1>0, <2>1, <2>2, <2>4, PairsPushed DEF t
    <2> QED
      BY <1>3, <2>3, <2>4 DEF ToolResult
  <1>4. CASE Finish \/ Command
    <2>1. ASSUME NEW m \in Seq(Message), PairedSoFar(m, failures > 0),
                 failures = 0 => Paired(m, FALSE), mem' \in {m} \cup Compact(m)
          PROVE  /\ PairedSoFar(mem', failures > 0)
                 /\ failures = 0 => Paired(mem', FALSE)
      BY <1>0, <2>1, CompactPairs
    <2>2. Finish => Paired(work, failures > 0) /\ PairedSoFar(work, failures > 0)
      BY <1>0, PairsWeaken DEF Finish, SessionsPaired
    <2>3. /\ PairedSoFar(mem', failures > 0)
          /\ failures = 0 => Paired(mem', FALSE)
      <3>1. CASE Finish
        <4>1. failures = 0 => Paired(work, FALSE)
          BY <1>0, <2>2, <3>1
        <4> QED
          BY <1>0, <2>1, <2>2, <3>1, <4>1 DEF Finish
      <3>2. CASE Command
        BY <1>0, <2>1, <3>2 DEF Command, SessionsPaired
      <3> QED
        BY <1>4, <3>1, <3>2
    <2>4. pc' = "save" /\ UNCHANGED <<lines, rotated, failures>>
      BY <1>4 DEF Finish, Command, fileVars
    <2> QED
      BY <2>3, <2>4 DEF SessionsPaired
  <1>5. CASE Rotate \/ Save
    <2>1. /\ pc' \in {"write", "prompt"} /\ UNCHANGED <<mem, failures>>
          /\ lines' \in {lines, mem} /\ rotated' \in {lines, rotated}
      BY <1>5 DEF Rotate, Save
    <2> QED
      BY <2>1 DEF SessionsPaired
  <1>6. CASE Failure
    <2>1. End /\ lines' = lines /\ rotated' = rotated
      BY <1>6 DEF Failure, fileVars
    <2>2. PairedSoFar(lines', TRUE)
      BY <1>0, <2>1, PairsWeaken DEF SessionsPaired
    <2> QED
      BY <2>1, <2>2, PairsFailed
  <1>7. CASE Resume \/ ResumeRotated
    <2>1. /\ pc = "down" /\ pc' = "save" /\ UNCHANGED failures
          /\ mem' \in {lines, rotated} /\ lines' \in {lines, rotated}
          /\ rotated' = rotated
      BY <1>7 DEF Resume, ResumeRotated, fileVars
    <2>2. failures > 0
      BY <2>1 DEF SessionsPaired
    <2> QED
      BY <1>0, <2>1, <2>2 DEF SessionsPaired
  <1>8. CASE UNCHANGED vars
    BY <1>8 DEF SessionsPaired, Awaited, vars, programVars, fileVars
  <1> QED
    BY <1>1, <1>2, <1>3, <1>4, <1>5, <1>6, <1>7, <1>8 DEF Next

LEMMA PairsInit == Init => SessionsPaired
  <1> SUFFICES ASSUME Init PROVE SessionsPaired
    OBVIOUS
  <1>1. /\ PairedSoFar(<< >>, failures > 0) /\ Paired(<< >>, FALSE)
    <2>1. (failures > 0) \in BOOLEAN
      OBVIOUS
    <2> QED
      BY <2>1, EmptyPaired
  <1> QED
    BY <1>1 DEF Init, SessionsPaired

(* conversation.rs: in every request, after any turns, compactions,         *)
(* failures and resumes, tool uses and results belong together, and what    *)
(* was compacted is told by one summary in front.                           *)
THEOREM PairedInRequests == Spec => []RequestPaired
  <1>1. SessionsPaired /\ AllSummariesFirst => RequestPaired
    BY DEF SessionsPaired, AllSummariesFirst, RequestPaired
  <1> QED
    BY <1>1, TypeInit, TypeNext, FileInit, FileNext, PairsInit, PairsNext,
       SummaryInit, SummaryNext, PTL DEF Spec
=============================================================================
