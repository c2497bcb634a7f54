--------------------------- MODULE JobQueueProofs ---------------------------
(* Theorems about JobQueue for every value of its constants.               *)
EXTENDS JobQueue, FiniteSetTheorems, TLAPS

LEMMA TypeInit == Init => TypeOK
  <1> SUFFICES ASSUME Init PROVE TypeOK
    OBVIOUS
  <1>1. DatabaseType
    BY QueueAssumption DEF QueueAssumption, Init, JobId, DatabaseType, States
  <1>2. TaskType
    BY QueueAssumption DEF QueueAssumption, Init, JobId, TaskType
  <1>3. WorkerType
    BY QueueAssumption DEF QueueAssumption, Init, WorkerType
  <1>4. ClientType
    BY QueueAssumption DEF QueueAssumption, Init, ClientType
  <1>5. FlagType
    BY Zenon DEF Init, FlagType
  <1>6. BoundType
    BY QueueAssumption DEF QueueAssumption, Init, BoundType
  <1> QED
    BY <1>1, <1>2, <1>3, <1>4, <1>5, <1>6 DEF TypeOK

(* The parts of the type invariant survive the steps that leave their      *)
(* variables alone.                                                        *)
LEMMA TypeUnchanged ==
  ASSUME TypeOK
  PROVE  /\ UNCHANGED dbVars => DatabaseType'
         /\ UNCHANGED taskVars => TaskType'
         /\ UNCHANGED <<permits, workerVars>> => WorkerType'
         /\ UNCHANGED clientVars => ClientType'
         /\ UNCHANGED flagVars => FlagType'
         /\ UNCHANGED boundVars => BoundType'
  <1>1. UNCHANGED dbVars => DatabaseType'
    BY DEF TypeOK, DatabaseType, dbVars
  <1>2. UNCHANGED taskVars => TaskType'
    BY DEF TypeOK, TaskType, taskVars
  <1>3. UNCHANGED <<permits, workerVars>> => WorkerType'
    BY DEF TypeOK, WorkerType, workerVars
  <1>4. UNCHANGED clientVars => ClientType'
    BY DEF TypeOK, ClientType, clientVars
  <1>5. UNCHANGED flagVars => FlagType'
    BY DEF TypeOK, FlagType, flagVars
  <1>6. UNCHANGED boundVars => BoundType'
    BY DEF TypeOK, BoundType, boundVars
  <1> QED
    BY <1>1, <1>2, <1>3, <1>4, <1>5, <1>6

LEMMA AnswerType ==
  ASSUME TypeOK, NEW c \in Clients,
         NEW r \in {"none", "job", "backpressure", "error"},
         Answer(c, r)
  PROVE  ClientType'
  BY QueueAssumption DEF QueueAssumption, TypeOK, ClientType, Answer

LEMMA PersistType ==
  ASSUME TypeOK, NEW j \in JobId, NEW e \in Events,
         NEW fits \in BOOLEAN, Persist(j, e, fits)
  PROVE  log' \in [JobId -> Seq(Events)] /\ faults' \in 0..MaxFaults
  <1>1. log \in [JobId -> Seq(Events)] /\ faults \in 0..MaxFaults
    BY DEF TypeOK, DatabaseType, BoundType
  <1>2. log' \in [JobId -> Seq(Events)]
    <2>1. Append(log[j], e) \in Seq(Events)
      BY <1>1
    <2>2. log' = log \/ log' = [log EXCEPT ![j] = Append(@, e)]
      BY Zenon DEF Persist
    <2> QED
      BY <1>1, <2>1, <2>2
  <1>3. faults' \in 0..MaxFaults
    BY <1>1, QueueAssumption DEF QueueAssumption, Persist
  <1> QED
    BY <1>2, <1>3

LEMMA TypeClient ==
  ASSUME TypeOK, NEW c \in Clients
  PROVE  /\ \A k \in Keys, o \in BOOLEAN : SubmitCheck(c, k, o) => TypeOK'
         /\ \A j \in JobId : CancelLookup(c, j) => TypeOK'
         /\ ClientStep(c) => TypeOK'
         /\ Abandon(c) => TypeOK'
  <1> USE QueueAssumption DEF QueueAssumption, JobId
  <1>1. ASSUME NEW k \in Keys, NEW oversized \in BOOLEAN,
               SubmitCheck(c, k, oversized)
        PROVE  TypeOK'
    <2>1. ClientType'
      BY <1>1, AnswerType DEF SubmitCheck, TypeOK, ClientType
    <2> QED
      BY <1>1, <2>1, TypeUnchanged DEF SubmitCheck, TypeOK
  <1>2. ASSUME NEW j \in JobId, CancelLookup(c, j)  PROVE TypeOK'
    <2>1. ClientType'
      BY <1>2, AnswerType DEF CancelLookup, TypeOK, ClientType
    <2> QED
      BY <1>2, <2>1, TypeUnchanged DEF CancelLookup, TypeOK
  <1>3. ASSUME SubmitAnswered(c)  PROVE TypeOK'
    <2>1. ClientType'
      BY <1>3, AnswerType DEF SubmitAnswered, AnswerJob
    <2>2. BoundType'
      BY <1>3 DEF SubmitAnswered, TypeOK, BoundType, Fault
    <2> QED
      BY <1>3, <2>1, <2>2, TypeUnchanged DEF SubmitAnswered, TypeOK
  <1>4. ASSUME SubmitInsert(c)  PROVE TypeOK'
    <2>1. ClientType'
      BY <1>4 DEF SubmitInsert, TypeOK, ClientType, DatabaseType
    <2>2. DatabaseType'
      BY <1>4 DEF SubmitInsert, TypeOK, ClientType, DatabaseType, States,
                  Active
    <2> QED
      BY <1>4, <2>1, <2>2, TypeUnchanged DEF SubmitInsert, TypeOK
  <1>5. ASSUME SubmitEmit(c)  PROVE TypeOK'
    <2>1. ClientType'
      BY <1>5, AnswerType DEF SubmitEmit, AnswerJob
    <2>2. DatabaseType' /\ BoundType'
      <3>1. /\ cpc[c] = "emit_submitted"
            /\ \E fits \in BOOLEAN : Persist(target[c], "submitted", fits)
        BY <1>5 DEF SubmitEmit
      <3>2. target[c] \in 0..MaxJobs /\ target[c] # 0
        BY <3>1 DEF TypeOK, ClientType
      <3>3. target[c] \in JobId
        BY <3>2, QueueAssumption DEF QueueAssumption, JobId
      <3>4. "submitted" \in Events
        BY DEF Events
      <3>5. UNCHANGED <<stored, state, key, message, crashes>>
        BY <1>5 DEF SubmitEmit
      <3> QED
        BY <3>1, <3>3, <3>4, <3>5, PersistType
           DEF TypeOK, DatabaseType, BoundType
    <2> QED
      BY <1>5, <2>1, <2>2, TypeUnchanged DEF SubmitEmit, TypeOK
  <1>6. ASSUME CancelToken(c)  PROVE TypeOK'
    <2>1. ClientType'
      BY <1>6 DEF CancelToken, TypeOK, ClientType
    <2>2. TaskType'
      BY <1>6 DEF CancelToken, TypeOK, TaskType
    <2> QED
      BY <1>6, <2>1, <2>2, TypeUnchanged DEF CancelToken, TypeOK
  <1>7. ASSUME CancelUpdate(c)  PROVE TypeOK'
    <2>1. ClientType'
      BY <1>7, AnswerType DEF CancelUpdate, TypeOK, ClientType
    <2>2. DatabaseType'
      <3>1. state \in [JobId -> States] /\ "CANCELLED" \in States
        BY DEF TypeOK, DatabaseType, States, Terminal
      <3>2. state' \in [JobId -> States]
        BY <1>7, <3>1 DEF CancelUpdate
      <3> QED
        BY <1>7, <3>2 DEF CancelUpdate, TypeOK, DatabaseType
    <2>3. BoundType'
      BY <1>7 DEF CancelUpdate, TypeOK, BoundType, Fault
    <2> QED
      BY <1>7, <2>1, <2>2, <2>3, TypeUnchanged DEF CancelUpdate, TypeOK
  <1>8. ASSUME CancelEmit(c)  PROVE TypeOK'
    <2>1. ClientType'
      BY <1>8, AnswerType DEF CancelEmit, AnswerJob
    <2>2. DatabaseType' /\ BoundType'
      <3>1. /\ cpc[c] = "emit_cancelled"
            /\ \E fits \in BOOLEAN : Persist(target[c], "cancelled", fits)
        BY <1>8 DEF CancelEmit
      <3>2. target[c] \in 0..MaxJobs /\ target[c] # 0
        BY <3>1 DEF TypeOK, ClientType
      <3>3. target[c] \in JobId
        BY <3>2, QueueAssumption DEF QueueAssumption, JobId
      <3>4. "cancelled" \in Events
        BY DEF Events
      <3>5. UNCHANGED <<stored, state, key, message, crashes>>
        BY <1>8 DEF CancelEmit
      <3> QED
        BY <3>1, <3>3, <3>4, <3>5, PersistType
           DEF TypeOK, DatabaseType, BoundType
    <2> QED
      BY <1>8, <2>1, <2>2, TypeUnchanged DEF CancelEmit, TypeOK
  <1>9. ASSUME Abandon(c)  PROVE TypeOK'
    <2>1. ClientType'
      BY <1>9, AnswerType DEF Abandon
    <2> QED
      BY <1>9, <2>1, TypeUnchanged DEF Abandon, TypeOK
  <1> QED
    BY <1>1, <1>2, <1>3, <1>4, <1>5, <1>6, <1>7, <1>8, <1>9
       DEF ClientStep, SubmitTransaction

LEMMA TypeWorker ==
  ASSUME TypeOK, NEW w \in Workers, WorkerStep(w)
  PROVE  TypeOK'
  <1> USE QueueAssumption DEF QueueAssumption, JobId
  <1>1. CASE WorkerStop(w)
    <2>1. WorkerType'
      BY <1>1 DEF WorkerStop, TypeOK, WorkerType
    <2> QED
      BY <1>1, <2>1, TypeUnchanged DEF WorkerStop, TypeOK
  <1>2. CASE WorkerAcquire(w)
    <2>1. WorkerType'
      BY <1>2 DEF WorkerAcquire, TypeOK, WorkerType
    <2> QED
      BY <1>2, <2>1, TypeUnchanged DEF WorkerAcquire, TypeOK
  <1>3. CASE ClaimTransaction(w)
    <2>1. WorkerType'
      BY <1>3 DEF ClaimTransaction, DropPermit, TypeOK, WorkerType
    <2>2. DatabaseType'
      <3>1. state' \in [JobId -> States]
        BY <1>3 DEF ClaimTransaction, TypeOK, DatabaseType, States, Active
      <3> QED
        BY <1>3, <3>1 DEF ClaimTransaction, TypeOK, DatabaseType
    <2>3. BoundType'
      BY <1>3 DEF ClaimTransaction, TypeOK, BoundType, Fault
    <2> QED
      BY <1>3, <2>1, <2>2, <2>3, TypeUnchanged DEF ClaimTransaction, TypeOK
  <1>4. CASE ClaimGet(w)
    <2>1. WorkerType'
      BY <1>4 DEF ClaimGet, DropPermit, TypeOK, WorkerType
    <2>2. BoundType'
      BY <1>4 DEF ClaimGet, TypeOK, BoundType, Fault
    <2> QED
      BY <1>4, <2>1, <2>2, TypeUnchanged DEF ClaimGet, TypeOK
  <1>5. CASE WorkerSpawn(w)
    <2>1. WorkerType'
      BY <1>5 DEF WorkerSpawn, TypeOK, WorkerType
    <2>2. TaskType'
      BY <1>5 DEF WorkerSpawn, TypeOK, TaskType
    <2> QED
      BY <1>5, <2>1, <2>2, TypeUnchanged DEF WorkerSpawn, TypeOK
  <1> QED
    BY <1>1, <1>2, <1>3, <1>4, <1>5 DEF WorkerStep

LEMMA TaskEndType ==
  ASSUME TypeOK, NEW j \in JobId, TaskEnd(j)
  PROVE  /\ UNCHANGED workerVars => WorkerType'
         /\ token' \in [JobId -> {"none", "live", "cancelled"}]
              /\ UNCHANGED buffer => TaskType'
  <1>1. UNCHANGED workerVars => WorkerType'
    BY DEF TypeOK, WorkerType, workerVars, TaskEnd
  <1>2. token' \in [JobId -> {"none", "live", "cancelled"}]
              /\ UNCHANGED buffer => TaskType'
    BY DEF TypeOK, TaskType, TaskEnd
  <1> QED
    BY <1>1, <1>2

LEMMA TypeTask ==
  ASSUME TypeOK, NEW j \in JobId, TaskProgress(j) \/ TaskPanic(j) \/ TaskStep(j)
  PROVE  TypeOK'
  <1> USE QueueAssumption DEF QueueAssumption, JobId
  <1>1. CASE TaskProgress(j)
    <2>1. TaskType'
      BY <1>1 DEF TaskProgress, TypeOK, TaskType
    <2> QED
      BY <1>1, <2>1, TypeUnchanged DEF TaskProgress, TypeOK
  <1>2. CASE TaskPanic(j)
    <2>1. WorkerType' /\ TaskType'
      BY <1>2, TaskEndType DEF TaskPanic, TypeOK, TaskType
    <2>2. BoundType'
      BY <1>2 DEF TaskPanic, TypeOK, BoundType, Fault
    <2> QED
      BY <1>2, <2>1, <2>2, TypeUnchanged DEF TaskPanic, TypeOK
  <1>3. CASE ForwardEvent(j)
    <2>1. TaskType'
      BY <1>3 DEF ForwardEvent, TypeOK, TaskType
    <2>2. DatabaseType' /\ BoundType'
      BY <1>3, PersistType
         DEF ForwardEvent, TypeOK, DatabaseType, BoundType, Events
    <2> QED
      BY <1>3, <2>1, <2>2, TypeUnchanged DEF ForwardEvent, TypeOK
  <1>4. ASSUME NEW result \in Finished, TaskReturn(j, result)  PROVE TypeOK'
    <2>1. TaskType'
      BY <1>4 DEF TaskReturn, TypeOK, TaskType
    <2> QED
      BY <1>4, <2>1, TypeUnchanged DEF TaskReturn, TypeOK
  <1>5. CASE TaskDrained(j)
    <2>1. TaskType'
      BY <1>5 DEF TaskDrained, TypeOK, TaskType
    <2> QED
      BY <1>5, <2>1, TypeUnchanged DEF TaskDrained, TypeOK
  <1>6. CASE SetTerminal(j)
    <2>1. TaskType'
      BY <1>6, TaskEndType DEF SetTerminal, TypeOK, TaskType
    <2>2. WorkerType'
      BY <1>6, TaskEndType DEF SetTerminal, TypeOK, WorkerType, workerVars
    <2>3. DatabaseType'
      <3>1. state' \in [JobId -> States]
        BY <1>6 DEF SetTerminal, TypeOK, DatabaseType, TaskType, States,
                    Terminal
      <3>2. message' \in [JobId -> {"none", "short", "long"}]
        BY <1>6 DEF SetTerminal, TypeOK, DatabaseType
      <3> QED
        BY <1>6, <3>1, <3>2 DEF SetTerminal, TypeOK, DatabaseType
    <2>4. BoundType'
      BY <1>6 DEF SetTerminal, TypeOK, BoundType, Fault
    <2> QED
      BY <1>6, <2>1, <2>2, <2>3, <2>4, TypeUnchanged DEF SetTerminal, TypeOK
  <1>7. CASE RemoveToken(j)
    <2>1. token' \in [JobId -> {"none", "live", "cancelled"}]
      BY <1>7 DEF RemoveToken, TypeOK, TaskType
    <2>2. TaskType'
      BY <1>7, <2>1, TaskEndType DEF RemoveToken, TypeOK, TaskType
    <2>3. WorkerType'
      BY <1>7, TaskEndType DEF RemoveToken, TypeOK, WorkerType, workerVars
    <2> QED
      BY <1>7, <2>2, <2>3, TypeUnchanged DEF RemoveToken, TypeOK
  <1>8. CASE EmitTerminal(j)
    <2>1. TaskType' /\ WorkerType'
      BY <1>8, TaskEndType DEF EmitTerminal, TypeOK, TaskType
    <2>2. DatabaseType' /\ BoundType'
      BY <1>8, PersistType
         DEF EmitTerminal, TypeOK, DatabaseType, TaskType, BoundType, Events
    <2> QED
      BY <1>8, <2>1, <2>2, TypeUnchanged DEF EmitTerminal, TypeOK
  <1> QED
    BY <1>1, <1>2, <1>3, <1>4, <1>5, <1>6, <1>7, <1>8 DEF TaskStep

LEMMA TypeNext == TypeOK /\ [Next]_vars => TypeOK'
  <1> SUFFICES ASSUME TypeOK, [Next]_vars PROVE TypeOK'
    OBVIOUS
  <1>1. ASSUME NEW enable \in BOOLEAN, SetDrain(enable)  PROVE TypeOK'
    <2>1. FlagType'
      BY <1>1, Zenon DEF SetDrain, TypeOK, FlagType
    <2> QED
      BY <1>1, <2>1, TypeUnchanged DEF SetDrain, TypeOK
  <1>2. ASSUME Shutdown  PROVE TypeOK'
    <2>1. FlagType'
      BY <1>2, Zenon DEF Shutdown, TypeOK, FlagType
    <2> QED
      BY <1>2, <2>1, TypeUnchanged DEF Shutdown, TypeOK
  <1>3. ASSUME Crash  PROVE TypeOK'
    <2>1. TaskType'
      BY <1>3, QueueAssumption DEF QueueAssumption, Crash, TaskType, JobId
    <2>2. WorkerType'
      BY <1>3, QueueAssumption DEF QueueAssumption, Crash, WorkerType
    <2>3. ClientType'
      BY <1>3, QueueAssumption DEF QueueAssumption, Crash, ClientType
    <2>4. FlagType'
      BY <1>3, Zenon DEF Crash, FlagType
    <2>5. BoundType'
      BY <1>3, QueueAssumption DEF QueueAssumption, Crash, TypeOK, BoundType
    <2> QED
      BY <1>3, <2>1, <2>2, <2>3, <2>4, <2>5, TypeUnchanged DEF Crash, TypeOK
  <1>4. ASSUME UNCHANGED vars  PROVE TypeOK'
    BY <1>4, TypeUnchanged DEF vars, TypeOK
  <1> QED
    BY <1>1, <1>2, <1>3, <1>4, TypeClient, TypeWorker, TypeTask DEF Next

(* Every variable of the queue keeps its type; a claimed job and a caller  *)
(* in the middle of a call always name a job.                              *)
THEOREM TypeCorrect == Spec => []TypeOK
  <1> QED
    BY TypeInit, TypeNext, PTL DEF Spec

-----------------------------------------------------------------------------
(* The event log *)

(* An event that is not terminal leaves a log's terminal events as they    *)
(* are; one that is must find none.                                        *)
LEMMA PersistOther ==
  ASSUME TypeOK, NEW j \in JobId, NEW e \in Events,
         NEW fits \in BOOLEAN, Persist(j, e, fits),
         NEW i \in JobId, i # j
  PROVE  log'[i] = log[i]
  BY DEF Persist, TypeOK, DatabaseType

LEMMA PersistPlain ==
  ASSUME TypeOK, NEW j \in JobId, NEW e \in Events \ Finished,
         NEW fits \in BOOLEAN, Persist(j, e, fits),
         state'[j] = state[j]
  PROVE  /\ HasFinished(j)' = HasFinished(j)
         /\ TerminalEvent(j) => TerminalEvent(j)'
         /\ ProgressFirst(j) /\ (e = "progress" => ~HasFinished(j))
              => ProgressFirst(j)'
  <1>1. log \in [JobId -> Seq(Events)]
    BY DEF TypeOK, DatabaseType
  <1>2. CASE log' = log
    BY <1>2 DEF HasFinished, TerminalEvent, ProgressFirst
  <1>3. CASE log' = [log EXCEPT ![j] = Append(@, e)]
    <2>1. /\ log[j] \in Seq(Events) /\ log'[j] = Append(log[j], e)
      BY <1>1, <1>3
    <2>2. /\ DOMAIN log[j] = 1..Len(log[j]) /\ Len(log[j]) \in Nat
          /\ DOMAIN log'[j] = 1..(Len(log[j]) + 1)
          /\ \A n \in 1..Len(log[j]) : log'[j][n] = log[j][n]
          /\ log'[j][Len(log[j]) + 1] = e
      BY <2>1
    <2>3. HasFinished(j)' = HasFinished(j)
      <3>1. \A n \in DOMAIN log[j] : n \in DOMAIN log'[j] /\ log'[j][n] = log[j][n]
        BY <2>2
      <3>2. \A n \in DOMAIN log'[j] : log'[j][n] \in Finished =>
               n \in DOMAIN log[j] /\ log[j][n] = log'[j][n]
        BY <2>2
      <3>3. HasFinished(j) => HasFinished(j)'
        BY <3>1 DEF HasFinished
      <3>4. HasFinished(j)' => HasFinished(j)
        BY <3>2 DEF HasFinished
      <3> QED
        BY <3>3, <3>4 DEF HasFinished
    <2>4. TerminalEvent(j) => TerminalEvent(j)'
      <3>1. SUFFICES ASSUME TerminalEvent(j), NEW i \in DOMAIN log'[j],
                            log'[j][i] \in Finished
                     PROVE  /\ state'[j] = log'[j][i]
                            /\ \A n \in DOMAIN log'[j] :
                                  log'[j][n] \in Finished => n = i
        BY DEF TerminalEvent
      <3>2. \A n \in DOMAIN log'[j] : log'[j][n] \in Finished =>
               n \in DOMAIN log[j] /\ log[j][n] = log'[j][n]
        BY <2>2
      <3> QED
        BY <3>1, <3>2 DEF TerminalEvent
    <2>5. ProgressFirst(j) /\ (e = "progress" => ~HasFinished(j))
            => ProgressFirst(j)'
      BY <2>2 DEF ProgressFirst, HasFinished
    <2> QED
      BY <2>3, <2>4, <2>5
  <1> QED
    BY <1>2, <1>3 DEF Persist

LEMMA PersistTerminal ==
  ASSUME TypeOK, NEW j \in JobId, NEW e \in Finished,
         NEW fits \in BOOLEAN, Persist(j, e, fits),
         ~HasFinished(j), state'[j] = e
  PROVE  TerminalEvent(j)' /\ ProgressFirst(j)'
  <1>1. log \in [JobId -> Seq(Events)]
    BY DEF TypeOK, DatabaseType
  <1>2. CASE log' = log
    BY <1>2 DEF HasFinished, TerminalEvent, ProgressFirst
  <1>3. CASE log' = [log EXCEPT ![j] = Append(@, e)]
    <2>1. /\ log[j] \in Seq(Events) /\ log'[j] = Append(log[j], e)
      BY <1>1, <1>3
    <2>2. /\ DOMAIN log[j] = 1..Len(log[j]) /\ Len(log[j]) \in Nat
          /\ DOMAIN log'[j] = 1..(Len(log[j]) + 1)
          /\ \A n \in 1..Len(log[j]) : log'[j][n] = log[j][n]
          /\ log'[j][Len(log[j]) + 1] = e
      BY <2>1, e \in Events DEF Events
    <2>3. TerminalEvent(j)'
      BY <2>2 DEF TerminalEvent, HasFinished
    <2>4. ProgressFirst(j)'
      BY <2>2 DEF ProgressFirst, HasFinished, Finished
    <2> QED
      BY <2>3, <2>4
  <1> QED
    BY <1>2, <1>3 DEF Persist

-----------------------------------------------------------------------------
(* Consistency of jobs, tasks and workers *)

LEMMA ConsistentInit == Init => ConsistencyInv
  BY QueueAssumption
     DEF QueueAssumption, Init, ConsistencyInv, JobConsistent, HasFinished,
         SingleOwner, TerminalEvent, ProgressFirst, JobId

(* A step that does not touch job j, or only lets a worker go of it.       *)
LEMMA ConsistentFrame ==
  ASSUME NEW j \in JobId, JobConsistent(j),
         (stored' < j) = (stored < j),
         state'[j] = state[j], log'[j] = log[j], task'[j] = task[j],
         buffer'[j] = buffer[j], outcome'[j] = outcome[j],
         \A w \in Workers : wjob'[w] = j => wjob[w] = j
  PROVE  JobConsistent(j)'
  BY DEF JobConsistent, HasFinished, SingleOwner, TerminalEvent, ProgressFirst

(* The steps of callers change no task and no worker.                      *)
LEMMA ConsistentClient ==
  ASSUME TypeOK, ConsistencyInv, NEW c \in Clients, NEW i \in JobId
  PROVE  /\ \A k \in Keys, o \in BOOLEAN :
                SubmitCheck(c, k, o) => JobConsistent(i)'
         /\ \A j \in JobId : CancelLookup(c, j) => JobConsistent(i)'
         /\ ClientStep(c) => JobConsistent(i)'
         /\ Abandon(c) => JobConsistent(i)'
  <1>0. JobConsistent(i)
    BY DEF ConsistencyInv
  <1>1. ASSUME NEW k \in Keys, NEW o \in BOOLEAN, SubmitCheck(c, k, o)
        PROVE  JobConsistent(i)'
    BY <1>0, <1>1, ConsistentFrame
       DEF SubmitCheck, dbVars, taskVars, workerVars
  <1>2. ASSUME NEW j \in JobId, CancelLookup(c, j)  PROVE JobConsistent(i)'
    BY <1>0, <1>2, ConsistentFrame
       DEF CancelLookup, dbVars, taskVars, workerVars
  <1>3. ASSUME SubmitAnswered(c)  PROVE JobConsistent(i)'
    BY <1>0, <1>3, ConsistentFrame
       DEF SubmitAnswered, dbVars, taskVars, workerVars
  <1>4. ASSUME SubmitInsert(c)  PROVE JobConsistent(i)'
    <2>1. CASE i = stored + 1
      <3>1. /\ state[i] = "ABSENT" /\ state'[i] = "PENDING"
            /\ stored' = i /\ stored \in Nat
        BY <1>0, <1>4, <2>1, QueueAssumption
           DEF SubmitInsert, TypeOK, DatabaseType, JobConsistent, JobId,
               QueueAssumption
      <3> QED
        BY <1>0, <1>4, <3>1
           DEF SubmitInsert, JobConsistent, HasFinished, SingleOwner,
               TerminalEvent, ProgressFirst, taskVars, workerVars
    <2>2. CASE i # stored + 1
      <3>1. (stored' < i) = (stored < i) /\ state'[i] = state[i]
        BY <1>4, <2>2, QueueAssumption
           DEF SubmitInsert, TypeOK, DatabaseType, JobId, QueueAssumption
      <3> QED
        BY <1>0, <1>4, <3>1, ConsistentFrame
           DEF SubmitInsert, taskVars, workerVars
    <2> QED
      BY <2>1, <2>2
  <1>5. ASSUME NEW e \in {"submitted", "cancelled"}, target[c] # 0,
               NEW fits \in BOOLEAN, Persist(target[c], e, fits),
               UNCHANGED <<stored, state, taskVars, workerVars>>
        PROVE  JobConsistent(i)'
    <2>1. target[c] \in JobId /\ e \in Events \ Finished
      BY <1>5 DEF TypeOK, ClientType, JobId, Events, Finished
    <2>2. CASE i = target[c]
      BY <1>0, <1>5, <2>1, <2>2, PersistPlain
         DEF JobConsistent, SingleOwner, taskVars, workerVars
    <2>3. CASE i # target[c]
      BY <1>0, <1>5, <2>1, <2>3, PersistOther, ConsistentFrame
         DEF taskVars, workerVars
    <2> QED
      BY <2>2, <2>3
  <1>6. SubmitEmit(c) \/ CancelEmit(c) => JobConsistent(i)'
    BY <1>5 DEF SubmitEmit, CancelEmit, TypeOK, ClientType
  <1>7. ASSUME CancelToken(c)  PROVE JobConsistent(i)'
    BY <1>0, <1>7, ConsistentFrame DEF CancelToken, dbVars, workerVars
  <1>8. ASSUME CancelUpdate(c)  PROVE JobConsistent(i)'
    <2>1. CASE state'[i] = state[i]
      BY <1>0, <1>8, <2>1, ConsistentFrame
         DEF CancelUpdate, taskVars, workerVars
    <2>2. CASE state'[i] # state[i]
      <3>1. state[i] \in Active /\ state'[i] = "CANCELLED"
        BY <1>8, <2>2 DEF CancelUpdate, TypeOK, DatabaseType
      <3> QED
        BY <1>0, <1>8, <3>1
           DEF CancelUpdate, JobConsistent, HasFinished, SingleOwner,
               TerminalEvent, ProgressFirst, taskVars, workerVars, Active,
               Finished, TypeOK, TaskType
    <2> QED
      BY <2>1, <2>2
  <1>9. ASSUME Abandon(c)  PROVE JobConsistent(i)'
    BY <1>0, <1>9, ConsistentFrame DEF Abandon, dbVars, taskVars, workerVars
  <1> QED
    BY <1>1, <1>2, <1>3, <1>4, <1>6, <1>7, <1>8, <1>9
       DEF ClientStep, SubmitTransaction

(* Workers take a PENDING job to a task.                                   *)
LEMMA ConsistentWorker ==
  ASSUME TypeOK, ConsistencyInv, NEW w \in Workers, WorkerStep(w),
         NEW i \in JobId
  PROVE  JobConsistent(i)'
  <1>0. JobConsistent(i)
    BY DEF ConsistencyInv
  <1>1. CASE WorkerStop(w) \/ WorkerAcquire(w)
    BY <1>0, <1>1, ConsistentFrame
       DEF WorkerStop, WorkerAcquire, dbVars, taskVars
  <1>2. ASSUME UNCHANGED <<stored, log, taskVars, state>>,
               wjob' = wjob \/ wjob' = [wjob EXCEPT ![w] = 0]
        PROVE  JobConsistent(i)'
    <2>1. \A v \in Workers : wjob'[v] = i => wjob[v] = i
      BY <1>2, i # 0 DEF TypeOK, WorkerType, JobId
    <2> QED
      BY <1>0, <1>2, <2>1, ConsistentFrame DEF taskVars
  <1>3. CASE ClaimTransaction(w)
    <2>1. ASSUME NEW j \in JobId, OldestPending(j),
                 state' = [state EXCEPT ![j] = "RUNNING"],
                 wjob' = [wjob EXCEPT ![w] = j]
          PROVE  JobConsistent(i)'
      <3>1. UNCHANGED <<stored, log, taskVars>>
        BY <1>3 DEF ClaimTransaction
      <3>2. CASE i = j
        <4>1. /\ state[i] = "PENDING" /\ state'[i] = "RUNNING"
              /\ \A v \in Workers : wjob'[v] = i => v = w
          BY <1>0, <2>1, <3>2
             DEF OldestPending, JobConsistent, TypeOK, DatabaseType, WorkerType
        <4> QED
          BY <1>0, <3>1, <4>1
             DEF JobConsistent, HasFinished, SingleOwner, TerminalEvent,
                 ProgressFirst, taskVars
      <3>3. CASE i # j
        <4>1. /\ state'[i] = state[i]
              /\ \A v \in Workers : wjob'[v] = i => wjob[v] = i
          BY <2>1, <3>3 DEF TypeOK, DatabaseType, WorkerType
        <4> QED
          BY <1>0, <3>1, <4>1, ConsistentFrame DEF taskVars
      <3> QED
        BY <3>2, <3>3
    <2> QED
      BY <1>2, <1>3, <2>1 DEF ClaimTransaction, DropPermit
  <1>4. CASE ClaimGet(w)
    BY <1>2, <1>4 DEF ClaimGet, DropPermit, dbVars
  <1>5. CASE WorkerSpawn(w)
    <2> DEFINE j == wjob[w]
    <2>1. j \in JobId
      BY <1>5 DEF WorkerSpawn, TypeOK, WorkerType, JobId
    <2>2. CASE i = j
      <3>1. \A v \in Workers : wjob'[v] # i
        BY <1>0, <1>5, <2>2, <2>1
           DEF WorkerSpawn, JobConsistent, SingleOwner, TypeOK, WorkerType,
               JobId
      <3>2. task'[i] = "process"
        BY <1>5, <2>1, <2>2 DEF WorkerSpawn, TypeOK, TaskType
      <3> QED
        BY <1>0, <1>5, <2>2, <3>1, <3>2
           DEF WorkerSpawn, JobConsistent, HasFinished, SingleOwner,
               TerminalEvent, ProgressFirst, dbVars
    <2>3. CASE i # j
      <3>1. \A v \in Workers : wjob'[v] = i => wjob[v] = i
        BY <1>5, i # 0 DEF WorkerSpawn, TypeOK, WorkerType, JobId
      <3>2. task'[i] = task[i]
        BY <1>5, <2>3 DEF WorkerSpawn, TypeOK, TaskType
      <3> QED
        BY <1>0, <1>5, <3>1, <3>2, ConsistentFrame DEF WorkerSpawn, dbVars
    <2> QED
      BY <2>2, <2>3
  <1> QED
    BY <1>1, <1>3, <1>4, <1>5 DEF WorkerStep

(* Tasks take a claimed job to its terminal event.                         *)
LEMMA ConsistentTask ==
  ASSUME TypeOK, ConsistencyInv, NEW j \in JobId,
         TaskProgress(j) \/ TaskPanic(j) \/ TaskStep(j),
         NEW i \in JobId
  PROVE  JobConsistent(i)'
  <1>0. JobConsistent(i) /\ JobConsistent(j)
    BY DEF ConsistencyInv
  <1>a. UNCHANGED <<stored, wjob>>
    BY DEF TaskProgress, TaskPanic, TaskStep, ForwardEvent, TaskReturn,
           TaskDrained, SetTerminal, RemoveToken, EmitTerminal, dbVars,
           workerVars
  <1>1. CASE i # j
    <2>1. log'[i] = log[i]
      BY <1>1, PersistOther
         DEF TaskProgress, TaskPanic, TaskStep, ForwardEvent, TaskReturn,
             TaskDrained, SetTerminal, RemoveToken, EmitTerminal, dbVars,
             Events, TypeOK, TaskType
    <2>2. state'[i] = state[i]
      BY <1>1
         DEF TaskProgress, TaskPanic, TaskStep, ForwardEvent, TaskReturn,
             TaskDrained, SetTerminal, RemoveToken, EmitTerminal, dbVars,
             TypeOK, DatabaseType
    <2>3. task'[i] = task[i] /\ buffer'[i] = buffer[i]
            /\ outcome'[i] = outcome[i]
      BY <1>1
         DEF TaskProgress, TaskPanic, TaskStep, ForwardEvent, TaskReturn,
             TaskDrained, SetTerminal, RemoveToken, EmitTerminal, TaskEnd,
             TypeOK, TaskType
    <2> QED
      BY <1>0, <1>a, <2>1, <2>2, <2>3, ConsistentFrame
  <1>2. CASE i = j
    <2> USE <1>0, <1>2, <1>a
    <2>1. CASE TaskProgress(j) \/ TaskPanic(j) \/ TaskDrained(j)
      BY <2>1
         DEF TaskProgress, TaskPanic, TaskDrained, TaskEnd, JobConsistent,
             HasFinished, SingleOwner, TerminalEvent, ProgressFirst, dbVars,
             TypeOK, TaskType
    <2>2. ASSUME NEW result \in Finished, TaskReturn(j, result)
          PROVE  JobConsistent(i)'
      BY <2>2
         DEF TaskReturn, JobConsistent, HasFinished, SingleOwner,
             TerminalEvent, ProgressFirst, dbVars, TypeOK, TaskType
    <2>3. CASE ForwardEvent(j)
      <3>1. "progress" \in Events \ Finished
        BY DEF Events, Finished
      <3>2. ~HasFinished(j)
        BY <2>3 DEF ForwardEvent, JobConsistent
      <3> QED
        BY <2>3, <3>1, <3>2, PersistPlain
           DEF ForwardEvent, JobConsistent, SingleOwner, TypeOK, TaskType
    <2>4. CASE SetTerminal(j)
      <3>1. /\ log'[j] = log[j] /\ buffer'[j] = 0
            /\ ~HasFinished(j) /\ \A w \in Workers : wjob[w] # j
            /\ state[j] \notin {"ABSENT", "PENDING"}
            /\ outcome[j] \in Finished
        BY <2>4 DEF SetTerminal, JobConsistent, SingleOwner, TypeOK, TaskType
      <3>2. \/ state'[j] = outcome[j] /\ outcome'[j] = outcome[j]
                 /\ task'[j] = "won"
            \/ state'[j] = state[j] /\ task'[j] \in {"lost", "none"}
        BY <2>4 DEF SetTerminal, TaskEnd, TypeOK, TaskType, DatabaseType
      <3>3. state'[j] \notin {"ABSENT", "PENDING"}
        BY <3>1, <3>2 DEF Finished
      <3>4. ~HasFinished(j)' /\ TerminalEvent(j)' /\ ProgressFirst(j)'
        BY <3>1 DEF HasFinished, TerminalEvent, ProgressFirst
      <3>5. stored' < j <=> FALSE
        BY <3>1 DEF JobConsistent
      <3> QED
        BY <3>1, <3>2, <3>3, <3>4, <3>5 DEF JobConsistent, SingleOwner
    <2>5. CASE RemoveToken(j)
      BY <2>5
         DEF RemoveToken, TaskEnd, JobConsistent, HasFinished, SingleOwner,
             TerminalEvent, ProgressFirst, dbVars, TypeOK, TaskType
    <2>6. CASE EmitTerminal(j)
      <3>1. /\ outcome[j] \in Finished /\ state'[j] = outcome[j]
            /\ ~HasFinished(j)
            /\ buffer'[j] = 0 /\ task'[j] = "none"
            /\ state'[j] \notin {"ABSENT", "PENDING"}
            /\ state'[j] = state[j]
            /\ \A w \in Workers : wjob'[w] # j
        BY <2>6
           DEF EmitTerminal, TaskEnd, JobConsistent, SingleOwner, TypeOK,
               TaskType, Finished
      <3>2. TerminalEvent(j)' /\ ProgressFirst(j)'
        BY <2>6, <3>1, PersistTerminal DEF EmitTerminal
      <3> QED
        BY <3>1, <3>2 DEF JobConsistent, SingleOwner
    <2> QED
      BY <2>1, <2>2, <2>3, <2>4, <2>5, <2>6 DEF TaskStep
  <1> QED
    BY <1>1, <1>2

LEMMA ConsistentNext ==
  TypeOK /\ ConsistencyInv /\ [Next]_vars => ConsistencyInv'
  <1> SUFFICES ASSUME TypeOK, ConsistencyInv, [Next]_vars, NEW i \in JobId
               PROVE  JobConsistent(i)'
    BY DEF ConsistencyInv
  <1>0. JobConsistent(i)
    BY DEF ConsistencyInv
  <1>1. ASSUME (\E enable \in BOOLEAN : SetDrain(enable)) \/ Shutdown
               \/ UNCHANGED vars
        PROVE  JobConsistent(i)'
    BY <1>0, <1>1, ConsistentFrame
       DEF SetDrain, Shutdown, vars, dbVars, taskVars, workerVars
  <1>2. ASSUME Crash  PROVE JobConsistent(i)'
    BY <1>0, <1>2
       DEF Crash, JobConsistent, HasFinished, SingleOwner, TerminalEvent,
           ProgressFirst, dbVars, JobId
  <1> QED
    BY <1>1, <1>2, ConsistentClient, ConsistentWorker, ConsistentTask DEF Next

(* Across crashes, faults and cancellations no job is handed to a second   *)
(* worker or executed again, its terminal event is written once and tells  *)
(* the state the job really has, and no progress follows it.               *)
THEOREM JobsConsistent ==
  Spec => [](SingleExecution /\ TerminalEventTrue)
  <1>1. Init => ConsistencyInv
    BY ConsistentInit
  <1>2. ConsistencyInv =>
          SingleExecution /\ TerminalEventTrue
    BY DEF ConsistencyInv, JobConsistent, SingleExecution, TerminalEventTrue
  <1> QED
    BY <1>1, <1>2, TypeInit, TypeNext, ConsistentNext, PTL DEF Spec

-----------------------------------------------------------------------------
(* Capacity, idempotency and the abstract lifecycle *)

LEMMA SameCardinality ==
  \A S : Lifecycle!Cardinality(S) = Cardinality(S)
  BY DEF Lifecycle!Cardinality, Cardinality

LEMMA ActiveFinite ==
  ASSUME TypeOK
  PROVE  /\ IsFiniteSet(ActiveJobs) /\ ActiveCount \in Nat
         /\ IsFiniteSet(JobId)
         /\ ActiveJobs = Lifecycle!Unfinished
  <1>1. IsFiniteSet(JobId)
    BY FS_Interval, QueueAssumption DEF QueueAssumption, JobId
  <1>2. ActiveJobs \subseteq JobId
    BY DEF ActiveJobs
  <1>3. ActiveJobs = Lifecycle!Unfinished
    BY DEF ActiveJobs, Lifecycle!Unfinished, Lifecycle!Ids, JobId, Active
  <1> QED
    BY <1>1, <1>2, <1>3, FS_Subset, FS_CardinalityType DEF ActiveCount

LEMMA InsertAccepts ==
  ASSUME TypeOK, ConsistencyInv, NEW c \in Clients, SubmitInsert(c)
  PROVE  Lifecycle!Accept(stored + 1)
  <1> DEFINE j == stored + 1
  <1>1. stored \in Nat /\ j \in JobId
    BY QueueAssumption
       DEF QueueAssumption, SubmitInsert, TypeOK, DatabaseType, JobId
  <1>2. state[j] = "ABSENT"
    BY <1>1 DEF ConsistencyInv, JobConsistent
  <1>3. \A i \in JobId : i < j => state[i] # "ABSENT"
    BY <1>1 DEF ConsistencyInv, JobConsistent, JobId
  <1>4. Lifecycle!Cardinality(Lifecycle!Unfinished) < MaxQueueSize
    BY ActiveFinite, SameCardinality, QueueAssumption
       DEF QueueAssumption, SubmitInsert, QueueFull, ActiveCount
  <1> QED
    BY <1>2, <1>3, <1>4
       DEF Lifecycle!Accept, Lifecycle!Ids, SubmitInsert, JobId

(* Every step of the queue is a step of the lifecycle or leaves all job    *)
(* states as they are.                                                     *)
LEMMA LifecycleStep ==
  TypeOK /\ ConsistencyInv /\ [Next]_vars => [Lifecycle!Next]_state
  <1> SUFFICES ASSUME TypeOK, ConsistencyInv, [Next]_vars
               PROVE  [Lifecycle!Next]_state
    OBVIOUS
  <1> USE DEF Lifecycle!Next, Lifecycle!Ids, JobId
  <1>1. ASSUME NEW c \in Clients, SubmitInsert(c)  PROVE Lifecycle!Next
    <2>1. stored + 1 \in JobId
      BY <1>1, QueueAssumption
         DEF QueueAssumption, SubmitInsert, TypeOK, DatabaseType
    <2> QED
      BY <1>1, <2>1, InsertAccepts
  <1>2. ASSUME NEW c \in Clients, CancelUpdate(c)
        PROVE  [Lifecycle!Next]_state
    <2>1. target[c] \in JobId
      BY <1>2 DEF CancelUpdate, TypeOK, ClientType
    <2>2. CASE state[target[c]] \in Active /\ state' # state
      BY <1>2, <2>1, <2>2, ActiveFinite
         DEF CancelUpdate, Lifecycle!Cancel, ActiveJobs
    <2>3. CASE state[target[c]] \notin Active \/ state' = state
      BY <1>2, <2>1, <2>3 DEF CancelUpdate, TypeOK, DatabaseType
    <2> QED
      BY <2>2, <2>3
  <1>3. ASSUME NEW w \in Workers, ClaimTransaction(w)
        PROVE  [Lifecycle!Next]_state
    BY <1>3 DEF ClaimTransaction, OldestPending, Lifecycle!Start
  <1>4. ASSUME NEW j \in JobId, SetTerminal(j)  PROVE [Lifecycle!Next]_state
    BY <1>4 DEF SetTerminal, Lifecycle!Finish, TypeOK, TaskType, Finished
  <1>5. ASSUME NEW c \in Clients,
               \/ \E k \in Keys, o \in BOOLEAN : SubmitCheck(c, k, o)
               \/ \E j \in JobId : CancelLookup(c, j)
               \/ SubmitAnswered(c) \/ SubmitEmit(c) \/ CancelToken(c)
               \/ CancelEmit(c) \/ Abandon(c)
        PROVE  UNCHANGED state
    BY <1>5 DEF SubmitCheck, CancelLookup, SubmitAnswered, SubmitEmit,
                CancelToken, CancelEmit, Abandon, dbVars
  <1>6. ASSUME NEW w \in Workers,
               \/ WorkerStop(w) \/ WorkerAcquire(w) \/ ClaimGet(w)
               \/ WorkerSpawn(w)
        PROVE  UNCHANGED state
    BY <1>6 DEF WorkerStop, WorkerAcquire, ClaimGet, WorkerSpawn, dbVars
  <1>7. ASSUME NEW j \in JobId,
               \/ TaskProgress(j) \/ TaskPanic(j) \/ ForwardEvent(j)
               \/ \E result \in Finished : TaskReturn(j, result)
               \/ TaskDrained(j) \/ RemoveToken(j) \/ EmitTerminal(j)
        PROVE  UNCHANGED state
    BY <1>7 DEF TaskProgress, TaskPanic, ForwardEvent, TaskReturn,
                TaskDrained, RemoveToken, EmitTerminal, dbVars
  <1>8. ASSUME (\E enable \in BOOLEAN : SetDrain(enable)) \/ Shutdown \/ Crash
               \/ UNCHANGED vars
        PROVE  UNCHANGED state
    BY <1>8 DEF SetDrain, Shutdown, Crash, vars, dbVars
  <1> QED
    BY <1>1, <1>2, <1>3, <1>4, <1>5, <1>6, <1>7, <1>8
       DEF Next, ClientStep, WorkerStep, TaskStep, SubmitTransaction

(* The queue implements the abstract job lifecycle: jobs are accepted in   *)
(* order below the capacity, started oldest first, and never leave a       *)
(* terminal state, whatever races, faults and crashes happen.              *)
THEOREM QueueImplementsLifecycle == Spec => ImplementsLifecycle
  <1>1. Init => Lifecycle!Init
    BY DEF Init, Lifecycle!Init, Lifecycle!Ids, JobId
  <1> QED
    BY <1>1, TypeInit, TypeNext, ConsistentInit, ConsistentNext,
       LifecycleStep, PTL
       DEF Spec, ImplementsLifecycle, Lifecycle!Spec

LEMMA BoundedStep ==
  ASSUME TypeOK, TypeOK', BoundedQueue, [Lifecycle!Next]_state
  PROVE  BoundedQueue'
  <1> USE DEF Lifecycle!Ids, JobId
  <1>1. CASE \E j \in JobId : Lifecycle!Accept(j)
    <2>1. PICK j \in JobId : Lifecycle!Accept(j)
      BY <1>1
    <2>2. ActiveJobs' = ActiveJobs \cup {j}
      BY <2>1 DEF Lifecycle!Accept, ActiveJobs, Active, TypeOK, DatabaseType
    <2>3. /\ Cardinality(ActiveJobs) \in Nat
          /\ Cardinality(ActiveJobs') \in Nat
          /\ Cardinality(ActiveJobs') <= Cardinality(ActiveJobs) + 1
      <3>1. IsFiniteSet(ActiveJobs) /\ Cardinality(ActiveJobs) \in Nat
        BY ActiveFinite DEF ActiveCount
      <3>2. \/ Cardinality(ActiveJobs \cup {j}) = Cardinality(ActiveJobs)
            \/ Cardinality(ActiveJobs \cup {j}) = Cardinality(ActiveJobs) + 1
        BY <3>1, FS_AddElement
      <3> QED
        BY <2>2, <3>1, <3>2
    <2>4. Cardinality(ActiveJobs) < MaxQueueSize
      BY <2>1, ActiveFinite, SameCardinality DEF Lifecycle!Accept
    <2> QED
      BY <2>3, <2>4, QueueAssumption
         DEF QueueAssumption, BoundedQueue, ActiveCount
  <1>2. CASE ~\E j \in JobId : Lifecycle!Accept(j)
    <2>1. ActiveJobs' \subseteq ActiveJobs
      BY <1>2 DEF Lifecycle!Next, Lifecycle!Start, Lifecycle!Finish,
                  Lifecycle!Cancel, ActiveJobs, Active, TypeOK, DatabaseType
    <2>2. Cardinality(ActiveJobs') <= Cardinality(ActiveJobs)
      BY <2>1, ActiveFinite, FS_Subset
    <2>3. Cardinality(ActiveJobs') \in Nat
      BY <2>1, ActiveFinite, FS_Subset, FS_CardinalityType
    <2> QED
      BY <2>2, <2>3, ActiveFinite, QueueAssumption
         DEF QueueAssumption, BoundedQueue, ActiveCount
  <1> QED
    BY <1>1, <1>2

(* The number of unfinished jobs never exceeds the configured capacity.    *)
THEOREM Bounded == Spec => []BoundedQueue
  <1>1. Init => BoundedQueue
    <2>1. Init => ActiveJobs = {}
      BY DEF Init, ActiveJobs, Active
    <2> QED
      BY <2>1, FS_EmptySet, QueueAssumption
         DEF QueueAssumption, BoundedQueue, ActiveCount
  <1>2. TypeOK /\ TypeOK' /\ ConsistencyInv /\ [Next]_vars /\ BoundedQueue
          => BoundedQueue'
    BY LifecycleStep, BoundedStep
  <1> QED
    BY <1>1, <1>2, TypeInit, TypeNext, ConsistentInit, ConsistentNext, PTL
       DEF Spec

LEMMA KeyNext == TypeOK /\ OneJobPerKey /\ [Next]_vars => OneJobPerKey'
  <1> SUFFICES ASSUME TypeOK, OneJobPerKey, [Next]_vars  PROVE OneJobPerKey'
    OBVIOUS
  <1>1. ASSUME NEW c \in Clients, SubmitInsert(c)  PROVE OneJobPerKey'
    <2>1. /\ stored \in 0..MaxJobs /\ stored + 1 \in JobId
          /\ key \in [JobId -> Keys \cup {NoKey}]
      BY <1>1, QueueAssumption
         DEF QueueAssumption, SubmitInsert, TypeOK, DatabaseType, JobId
    <2>2. /\ key'[stored + 1] = want[c] /\ stored' = stored + 1
          /\ \A i \in 1..stored : key'[i] = key[i] /\ key[i] # want[c]
      BY <1>1, <2>1 DEF SubmitInsert, KeyStored, JobId
    <2> QED
      BY <2>1, <2>2 DEF OneJobPerKey
  <1>2. ASSUME UNCHANGED <<stored, key>>  PROVE OneJobPerKey'
    BY <1>2 DEF OneJobPerKey
  <1>3. \/ \E c \in Clients : SubmitInsert(c)
        \/ UNCHANGED <<stored, key>>
    BY DEF Next, ClientStep, SubmitTransaction, WorkerStep, TaskStep,
           SubmitCheck, SubmitAnswered, SubmitEmit, CancelLookup, CancelToken,
           CancelUpdate, CancelEmit, Abandon, WorkerStop, WorkerAcquire,
           ClaimTransaction, ClaimGet, WorkerSpawn, TaskProgress, TaskPanic,
           ForwardEvent, TaskReturn, TaskDrained, SetTerminal, RemoveToken,
           EmitTerminal, SetDrain, Shutdown, Crash, vars, dbVars
  <1> QED
    BY <1>1, <1>2, <1>3

(* Two rows never share an idempotency key, however submissions interleave. *)
THEOREM Idempotent == Spec => []OneJobPerKey
  <1>1. Init => OneJobPerKey
    BY DEF Init, OneJobPerKey
  <1> QED
    BY <1>1, TypeInit, TypeNext, KeyNext, PTL DEF Spec

-----------------------------------------------------------------------------
(* Permits *)

(* A step either leaves all holders alone or moves one permit.             *)
LEMMA PermitMoves ==
  ASSUME TypeOK, ConsistencyInv, [Next]_vars
  PROVE  \/ UNCHANGED <<permits, Claiming, LiveTasks>>
         \/ \E w \in Workers :
              /\ w \notin Claiming /\ Claiming' = Claiming \cup {w}
              /\ permits > 0 /\ permits' = permits - 1
              /\ UNCHANGED LiveTasks
         \/ \E w \in Workers :
              /\ w \in Claiming /\ Claiming' = Claiming \ {w}
              /\ permits' = permits + 1
              /\ UNCHANGED LiveTasks
         \/ \E w \in Workers, j \in JobId :
              /\ w \in Claiming /\ Claiming' = Claiming \ {w}
              /\ j \notin LiveTasks /\ LiveTasks' = LiveTasks \cup {j}
              /\ UNCHANGED permits
         \/ \E j \in JobId :
              /\ j \in LiveTasks /\ LiveTasks' = LiveTasks \ {j}
              /\ permits' = permits + 1
              /\ UNCHANGED Claiming
         \/ permits' = MaxConcurrent /\ Claiming' = {} /\ LiveTasks' = {}
  <1> USE DEF Claiming, LiveTasks
  <1>1. CASE UNCHANGED <<permits, task, wpc>>
    BY <1>1
  <1>2. ASSUME NEW w \in Workers, WorkerStop(w)
        PROVE  UNCHANGED <<permits, Claiming, LiveTasks>>
    BY <1>2 DEF WorkerStop, TypeOK, WorkerType, taskVars
  <1>3. ASSUME NEW w \in Workers, WorkerAcquire(w)
        PROVE  /\ w \notin Claiming /\ Claiming' = Claiming \cup {w}
               /\ permits > 0 /\ permits' = permits - 1
               /\ UNCHANGED LiveTasks
    BY <1>3 DEF WorkerAcquire, TypeOK, WorkerType, taskVars
  <1>4. ASSUME NEW w \in Workers, wpc[w] \in {"claim", "get"}, DropPermit(w),
               UNCHANGED task
        PROVE  /\ w \in Claiming /\ Claiming' = Claiming \ {w}
               /\ permits' = permits + 1
               /\ UNCHANGED LiveTasks
    BY <1>4 DEF DropPermit, TypeOK, WorkerType
  <1>5. ASSUME NEW w \in Workers, wpc[w] \in {"claim", "get"},
               wpc' = [wpc EXCEPT ![w] = "get"]
                 \/ wpc' = [wpc EXCEPT ![w] = "token"],
               UNCHANGED <<task, permits>>
        PROVE  UNCHANGED <<permits, Claiming, LiveTasks>>
    BY <1>5 DEF TypeOK, WorkerType
  <1>6. ASSUME NEW w \in Workers, WorkerSpawn(w)
        PROVE  \E j \in JobId :
                 /\ w \in Claiming /\ Claiming' = Claiming \ {w}
                 /\ j \notin LiveTasks /\ LiveTasks' = LiveTasks \cup {j}
                 /\ UNCHANGED permits
    <2>1. wjob[w] \in JobId
      BY <1>6 DEF WorkerSpawn, TypeOK, WorkerType, JobId
    <2>2. task[wjob[w]] = "none"
      BY <2>1 DEF ConsistencyInv, JobConsistent, SingleOwner
    <2>3. Claiming' = Claiming \ {w} /\ w \in Claiming
      BY <1>6 DEF WorkerSpawn, TypeOK, WorkerType
    <2>4. LiveTasks' = LiveTasks \cup {wjob[w]}
      BY <1>6, <2>1 DEF WorkerSpawn, TypeOK, TaskType
    <2>5. wjob[w] \notin LiveTasks /\ UNCHANGED permits
      BY <1>6, <2>2 DEF WorkerSpawn
    <2> QED
      BY <2>1, <2>3, <2>4, <2>5
  <1>7. ASSUME NEW j \in JobId, task[j] # "none", TaskEnd(j), UNCHANGED wpc
        PROVE  /\ j \in LiveTasks /\ LiveTasks' = LiveTasks \ {j}
               /\ permits' = permits + 1
               /\ UNCHANGED Claiming
    BY <1>7 DEF TaskEnd, TypeOK, TaskType
  <1>8. ASSUME NEW j \in JobId, task[j] # "none", UNCHANGED <<permits, wpc>>,
               \E s \in {"drained", "update", "won", "lost", "emit"} :
                  task' = [task EXCEPT ![j] = s]
        PROVE  UNCHANGED <<permits, Claiming, LiveTasks>>
    BY <1>8 DEF TypeOK, TaskType
  <1>9. ASSUME Crash
        PROVE  permits' = MaxConcurrent /\ Claiming' = {} /\ LiveTasks' = {}
    BY <1>9 DEF Crash, JobId
  <1>10. ASSUME NEW c \in Clients,
                \/ \E k \in Keys, o \in BOOLEAN : SubmitCheck(c, k, o)
                \/ \E j \in JobId : CancelLookup(c, j)
                \/ ClientStep(c) \/ Abandon(c)
         PROVE  UNCHANGED <<permits, task, wpc>>
    BY <1>10
       DEF ClientStep, SubmitTransaction, SubmitCheck, SubmitAnswered,
           SubmitInsert, SubmitEmit, CancelLookup, CancelToken, CancelUpdate,
           CancelEmit, Abandon, taskVars, workerVars
  <1>11. ASSUME (\E enable \in BOOLEAN : SetDrain(enable)) \/ Shutdown
                \/ UNCHANGED vars
         PROVE  UNCHANGED <<permits, task, wpc>>
    BY <1>11 DEF SetDrain, Shutdown, vars, taskVars, workerVars
  <1>12. ASSUME NEW w \in Workers, ClaimTransaction(w) \/ ClaimGet(w)
         PROVE  \/ UNCHANGED <<permits, Claiming, LiveTasks>>
                \/ /\ w \in Claiming /\ Claiming' = Claiming \ {w}
                   /\ permits' = permits + 1
                   /\ UNCHANGED LiveTasks
    BY <1>4, <1>5, <1>12 DEF ClaimTransaction, ClaimGet, taskVars
  <1>13. ASSUME NEW j \in JobId, TaskProgress(j) \/ ForwardEvent(j)
         PROVE  UNCHANGED <<permits, task, wpc>>
    BY <1>13 DEF TaskProgress, ForwardEvent, workerVars
  <1>14. ASSUME NEW j \in JobId,
                \/ \E result \in Finished : TaskReturn(j, result)
                \/ TaskDrained(j) \/ SetTerminal(j) \/ RemoveToken(j)
                \/ EmitTerminal(j) \/ TaskPanic(j)
         PROVE  \/ UNCHANGED <<permits, Claiming, LiveTasks>>
                \/ /\ j \in LiveTasks /\ LiveTasks' = LiveTasks \ {j}
                   /\ permits' = permits + 1
                   /\ UNCHANGED Claiming
    <2>1. task[j] # "none" /\ UNCHANGED wpc
      BY <1>14 DEF TaskReturn, TaskDrained, SetTerminal, RemoveToken,
                   EmitTerminal, TaskPanic, workerVars
    <2>2. \/ TaskEnd(j)
          \/ /\ \E s \in {"drained", "update", "won", "lost", "emit"} :
                   task' = [task EXCEPT ![j] = s]
             /\ UNCHANGED permits
      BY <1>14 DEF TaskReturn, TaskDrained, SetTerminal, RemoveToken,
                   EmitTerminal, TaskPanic
    <2> QED
      BY <2>1, <2>2, <1>7, <1>8
  <1> QED
    BY <1>1, <1>2, <1>3, <1>6, <1>9, <1>10, <1>11, <1>12, <1>13, <1>14
       DEF Next, WorkerStep, TaskStep

LEMMA HoldersFinite ==
  /\ IsFiniteSet(Claiming) /\ Cardinality(Claiming) \in Nat
  /\ IsFiniteSet(LiveTasks) /\ Cardinality(LiveTasks) \in Nat
  <1>1. Claiming \subseteq Workers /\ LiveTasks \subseteq JobId
    BY DEF Claiming, LiveTasks
  <1>2. IsFiniteSet(Workers) /\ IsFiniteSet(JobId)
    BY FS_Interval, QueueAssumption DEF QueueAssumption, JobId
  <1> QED
    BY <1>1, <1>2, FS_Subset, FS_CardinalityType

LEMMA PermitNext ==
  TypeOK /\ ConsistencyInv /\ PermitsAccounted /\ [Next]_vars
    => PermitsAccounted'
  <1> SUFFICES ASSUME TypeOK, ConsistencyInv, PermitsAccounted, [Next]_vars
               PROVE  PermitsAccounted'
    OBVIOUS
  <1> DEFINE C == Cardinality(Claiming)
             L == Cardinality(LiveTasks)
  <1>0. /\ permits + C + L = MaxConcurrent
        /\ permits \in Nat /\ C \in Nat /\ L \in Nat /\ MaxConcurrent \in Nat
    BY HoldersFinite, QueueAssumption
       DEF PermitsAccounted, QueueAssumption, TypeOK, WorkerType
  <1>1. \A w \in Workers :
          /\ w \notin Claiming => Cardinality(Claiming \cup {w}) = C + 1
          /\ w \in Claiming => Cardinality(Claiming \ {w}) = C - 1
    BY HoldersFinite, FS_AddElement, FS_RemoveElement
  <1>2. \A j \in JobId :
          /\ j \notin LiveTasks => Cardinality(LiveTasks \cup {j}) = L + 1
          /\ j \in LiveTasks => Cardinality(LiveTasks \ {j}) = L - 1
    BY HoldersFinite, FS_AddElement, FS_RemoveElement
  <1>3. CASE UNCHANGED <<permits, Claiming, LiveTasks>>
    BY <1>3, <1>0 DEF PermitsAccounted
  <1>4. ASSUME NEW w \in Workers,
               \/ /\ w \notin Claiming /\ Claiming' = Claiming \cup {w}
                  /\ permits' = permits - 1 /\ UNCHANGED LiveTasks
               \/ /\ w \in Claiming /\ Claiming' = Claiming \ {w}
                  /\ permits' = permits + 1 /\ UNCHANGED LiveTasks
        PROVE  PermitsAccounted'
    <2>1. Cardinality(LiveTasks') = L
      BY <1>4
    <2>2. permits' + Cardinality(Claiming') = permits + C
      BY <1>0, <1>1, <1>4
    <2> QED
      BY <1>0, <2>1, <2>2 DEF PermitsAccounted
  <1>5. ASSUME NEW w \in Workers, NEW j \in JobId,
               w \in Claiming /\ Claiming' = Claiming \ {w},
               j \notin LiveTasks /\ LiveTasks' = LiveTasks \cup {j},
               UNCHANGED permits
        PROVE  PermitsAccounted'
    <2>1. Cardinality(Claiming') = C - 1 /\ Cardinality(LiveTasks') = L + 1
      BY <1>1, <1>2, <1>5
    <2> QED
      BY <1>0, <1>5, <2>1 DEF PermitsAccounted
  <1>6. ASSUME NEW j \in JobId, j \in LiveTasks, LiveTasks' = LiveTasks \ {j},
               permits' = permits + 1, UNCHANGED Claiming
        PROVE  PermitsAccounted'
    <2>1. Cardinality(LiveTasks') = L - 1 /\ Cardinality(Claiming') = C
      BY <1>2, <1>6
    <2> QED
      BY <1>0, <1>6, <2>1 DEF PermitsAccounted
  <1>7. ASSUME permits' = MaxConcurrent, Claiming' = {}, LiveTasks' = {}
        PROVE  PermitsAccounted'
    BY <1>0, <1>7, FS_EmptySet DEF PermitsAccounted
  <1> QED
    BY PermitMoves, <1>3, <1>4, <1>5, <1>6, <1>7

(* No path through the worker loop, a panic or an error loses or duplicates *)
(* a permit of the semaphore, so at most MaxConcurrent jobs are processed   *)
(* at a time.                                                               *)
THEOREM PermitsKept ==
  Spec => [](PermitsAccounted /\ Cardinality(LiveTasks) <= MaxConcurrent)
  <1>1. Init => PermitsAccounted
    <2>1. Init => Claiming = {} /\ LiveTasks = {} /\ permits = MaxConcurrent
      BY DEF Init, Claiming, LiveTasks
    <2> QED
      BY <2>1, FS_EmptySet, QueueAssumption
         DEF QueueAssumption, PermitsAccounted
  <1>2. TypeOK /\ PermitsAccounted => Cardinality(LiveTasks) <= MaxConcurrent
    BY HoldersFinite, QueueAssumption
       DEF QueueAssumption, PermitsAccounted, TypeOK, WorkerType
  <1> QED
    BY <1>1, <1>2, TypeInit, TypeNext, ConsistentInit, ConsistentNext,
       PermitNext, PTL DEF Spec

-----------------------------------------------------------------------------
(* Retries *)

(* A caller whose submission is under way has no answer yet.               *)
Unanswered == \A c \in Clients : cpc[c] = "insert" => reply[c] = "none"

(* What a step may do to the submission of caller c.                       *)
SubmissionStep(c) ==
    /\ Unanswered => (cpc'[c] = "insert" => reply'[c] = "none")
    /\ Unanswered /\ cpc[c] = "insert" /\ KeyStored(want[c])
          => reply'[c] # "backpressure"

LEMMA SubmissionKept ==
  ASSUME NEW c \in Clients, UNCHANGED <<cpc[c], reply[c]>>
  PROVE  SubmissionStep(c)
  BY DEF SubmissionStep, Unanswered

LEMMA CallerSteps ==
  ASSUME TypeOK, NEW d \in Clients,
         \/ \E k \in Keys, oversized \in BOOLEAN : SubmitCheck(d, k, oversized)
         \/ \E j \in JobId : CancelLookup(d, j)
         \/ ClientStep(d)
         \/ Abandon(d)
  PROVE  \A c \in Clients : SubmissionStep(c)
  <1>1. cpc \in [Clients -> {"idle", "insert", "emit_submitted", "token",
                             "update", "emit_cancelled"}]
        /\ reply \in [Clients -> {"none", "job", "backpressure", "error"}]
    BY DEF TypeOK, ClientType
  <1>2. ASSUME NEW r, Answer(d, r)
        PROVE  /\ cpc'[d] = "idle" /\ reply'[d] = r
               /\ \A c \in Clients \ {d} : UNCHANGED <<cpc[c], reply[c]>>
    BY <1>1, <1>2 DEF Answer
  <1>3. ASSUME AnswerJob(d)
        PROVE  /\ cpc'[d] = "idle" /\ reply'[d] # "backpressure"
               /\ \A c \in Clients \ {d} : UNCHANGED <<cpc[c], reply[c]>>
    BY <1>2, <1>3 DEF AnswerJob
  <1> DEFINE OwnAnswer ==
               /\ \A c \in Clients \ {d} : UNCHANGED <<cpc[c], reply[c]>>
               /\ cpc'[d] = "insert" => reply'[d] = "none"
               /\ cpc[d] = "insert" /\ KeyStored(want[d]) => reply'[d] # "backpressure"
  <1>4. OwnAnswer
    <2>1. ASSUME NEW k \in Keys, NEW oversized \in BOOLEAN, SubmitCheck(d, k, oversized)
          PROVE  OwnAnswer
      BY <1>1, <1>2, <2>1 DEF SubmitCheck
    <2>2. CASE SubmitAnswered(d)
      BY <1>1, <1>2, <1>3, <2>2 DEF SubmitAnswered, Backpressure
    <2>3. CASE SubmitInsert(d)
      BY <1>1, <2>3 DEF SubmitInsert
    <2>4. CASE SubmitEmit(d) \/ CancelEmit(d)
      BY <1>1, <1>3, <2>4 DEF SubmitEmit, CancelEmit
    <2>5. ASSUME NEW j \in JobId, CancelLookup(d, j)
          PROVE  OwnAnswer
      BY <1>1, <1>2, <2>5 DEF CancelLookup
    <2>6. CASE CancelToken(d)
      BY <1>1, <2>6 DEF CancelToken
    <2>7. CASE CancelUpdate(d)
      BY <1>1, <1>2, <2>7 DEF CancelUpdate
    <2>8. CASE Abandon(d)
      BY <1>2, <2>8 DEF Abandon
    <2> QED
      BY <2>1, <2>2, <2>3, <2>4, <2>5, <2>6, <2>7, <2>8
         DEF ClientStep, SubmitTransaction
  <1>5. SubmissionStep(d)
    BY <1>4 DEF SubmissionStep
  <1> QED
    BY <1>4, <1>5, SubmissionKept

LEMMA RetryNext ==
  ASSUME TypeOK, [Next]_vars
  PROVE  \A c \in Clients : SubmissionStep(c)
  <1>1. ASSUME UNCHANGED <<cpc, reply>>  PROVE \A c \in Clients : SubmissionStep(c)
    BY <1>1, SubmissionKept
  <1>2. CASE Crash
    BY <1>2 DEF Crash, SubmissionStep
  <1>3. ASSUME NEW d \in Clients,
               \/ \E k \in Keys, oversized \in BOOLEAN : SubmitCheck(d, k, oversized)
               \/ \E j \in JobId : CancelLookup(d, j)
               \/ ClientStep(d)
               \/ Abandon(d)
        PROVE  \A c \in Clients : SubmissionStep(c)
    BY <1>3, CallerSteps
  <1>4. ASSUME \/ \E w \in Workers : WorkerStep(w)
               \/ \E j \in JobId : TaskProgress(j) \/ TaskPanic(j) \/ TaskStep(j)
               \/ \E enable \in BOOLEAN : SetDrain(enable)
               \/ Shutdown
               \/ UNCHANGED vars
        PROVE  UNCHANGED <<cpc, reply>>
    BY <1>4 DEF WorkerStep, TaskStep, WorkerStop, WorkerAcquire, ClaimTransaction,
           ClaimGet, WorkerSpawn, TaskProgress, TaskPanic, ForwardEvent, TaskReturn,
           TaskDrained, SetTerminal, RemoveToken, EmitTerminal, SetDrain, Shutdown,
           vars, clientVars
  <1> QED
    BY <1>1, <1>2, <1>3, <1>4 DEF Next

(* A submission whose key is stored is never turned away for lack of       *)
(* capacity, however full the queue has become since the first one.        *)
THEOREM RetriesAnswered == Spec => RetryNeverRefused
  <1>1. Init => Unanswered
    BY DEF Init, Unanswered
  <1>2. TypeOK /\ Unanswered /\ [Next]_vars => Unanswered'
    BY RetryNext DEF Unanswered, SubmissionStep
  <1>3. TypeOK /\ Unanswered /\ [Next]_vars =>
          \A c \in Clients : cpc[c] = "insert" /\ KeyStored(want[c])
                                => reply'[c] # "backpressure"
    BY RetryNext DEF SubmissionStep
  <1> QED
    BY <1>1, <1>2, <1>3, TypeInit, TypeNext, PTL DEF Spec, RetryNeverRefused
=============================================================================
