------------------------------ MODULE JobQueue ------------------------------
(***************************************************************************)
(* The durable job queue of rust/crates/jasusi-service/src/queue.rs.       *)
(*                                                                         *)
(* Every method of JobQueue is split where the code releases the SQLite    *)
(* mutex or awaits, because another caller, a worker or a spawned task may *)
(* run there.  The table `jobs` is indexed by JobId == 1..MaxJobs in the   *)
(* order of insertion, which is the order of created_at_ms while the clock *)
(* does not step back.  Events are the rows of `job_events`, in insertion  *)
(* order; a worker's "terminal" event is named by the state it carries.    *)
(***************************************************************************)
EXTENDS Naturals, Sequences, FiniteSets

CONSTANTS
    Clients,        \* concurrent callers of submit and cancel
    Workers,        \* run_worker loops
    Keys,           \* idempotency keys the callers use
    NoKey,          \* not a key
    MaxQueueSize,   \* config.max_queue_size
    MaxConcurrent,  \* config.max_concurrent_jobs, the semaphore's permits
    Signals,        \* operator inputs: "drain", "undrain", "shutdown"
    MaxJobs,        \* bound: rows ever inserted
    MaxBuffer,      \* capacity of a task's event channel (256 in the code)
    MaxLog,         \* bound: a processor emits only while its log is shorter
    MaxFaults,      \* bound: database errors and processor panics
    MaxCrashes      \* bound: crashes of the process

ASSUME QueueAssumption ==
    /\ IsFiniteSet(Workers)
    /\ NoKey \notin Keys
    /\ MaxQueueSize \in Nat
    /\ MaxConcurrent \in Nat \ {0}
    /\ Signals \subseteq {"drain", "undrain", "shutdown"}
    /\ MaxJobs \in Nat
    /\ MaxBuffer \in Nat
    /\ MaxLog \in Nat
    /\ MaxFaults \in Nat
    /\ MaxCrashes \in Nat

JobId    == 1..MaxJobs
Finished == {"COMPLETED", "FAILED"}           \* states set by a worker
Terminal == Finished \cup {"CANCELLED"}
Active   == {"PENDING", "RUNNING"}
States   == {"ABSENT"} \cup Active \cup Terminal
Events   == {"submitted", "progress", "cancelled"} \cup Finished

VARIABLES
    \* the database: survives a crash
    stored,    \* number of rows of `jobs`
    state,     \* state of each job, "ABSENT" before its insertion
    key,       \* idempotency key of each job
    log,       \* rows of `job_events` of each job
    message,   \* terminal_message of each job: absent, or whether its terminal
               \* event fits in max_event_bytes: "none", "short" or "long"
    \* the process
    drain,     \* the drain flag
    shutdown,  \* the workers' shutdown signal
    permits,   \* free permits of the semaphore
    token,     \* cancellations map: "none", "live" or "cancelled"
    task,      \* where the spawned task of a job is
    outcome,   \* what a job's processor returned
    buffer,    \* events waiting in the channel of a job's task
    wpc,       \* where a worker loop is
    wjob,      \* the job a worker loop has claimed, 0 if none
    cpc,       \* where a caller is
    want,      \* idempotency key a caller submits
    target,    \* job a caller works on, 0 if none
    reply,     \* answer of the last call: a job, Backpressure, another error
    \* bounds
    faults, crashes

dbVars     == <<stored, state, key, log, message>>
taskVars   == <<token, task, outcome, buffer>>
workerVars == <<wpc, wjob>>
clientVars == <<cpc, want, target, reply>>
flagVars   == <<drain, shutdown>>
boundVars  == <<faults, crashes>>
vars == <<dbVars, taskVars, workerVars, clientVars, flagVars, permits,
          boundVars>>

DatabaseType ==
    /\ stored \in 0..MaxJobs
    /\ state \in [JobId -> States]
    /\ key \in [JobId -> Keys \cup {NoKey}]
    /\ log \in [JobId -> Seq(Events)]
    /\ message \in [JobId -> {"none", "short", "long"}]

TaskType ==
    /\ token \in [JobId -> {"none", "live", "cancelled"}]
    /\ task \in [JobId -> {"none", "process", "drained", "update", "won",
                           "lost", "emit"}]
    /\ outcome \in [JobId -> Finished \cup {"none"}]
    /\ buffer \in [JobId -> 0..MaxBuffer]
    /\ \A j \in JobId : task[j] \notin {"none", "process"}
                           => outcome[j] \in Finished

WorkerType ==
    /\ permits \in Nat
    /\ wpc \in [Workers -> {"loop", "claim", "get", "token", "stopped"}]
    /\ wjob \in [Workers -> 0..MaxJobs]
    /\ \A w \in Workers : wjob[w] # 0 <=> wpc[w] \in {"get", "token"}

ClientType ==
    /\ cpc \in [Clients -> {"idle", "insert", "emit_submitted", "token",
                            "update", "emit_cancelled"}]
    /\ want \in [Clients -> Keys \cup {NoKey}]
    /\ target \in [Clients -> 0..MaxJobs]
    /\ \A c \in Clients :
        /\ cpc[c] = "insert" => want[c] \in Keys
        /\ cpc[c] \in {"emit_submitted", "token", "update", "emit_cancelled"}
              => target[c] # 0
    /\ reply \in [Clients -> {"none", "job", "backpressure", "error"}]

FlagType == drain \in BOOLEAN /\ shutdown \in BOOLEAN

BoundType ==
    /\ faults \in 0..MaxFaults
    /\ crashes \in 0..MaxCrashes

TypeOK ==
    /\ DatabaseType /\ TaskType /\ WorkerType /\ ClientType
    /\ FlagType /\ BoundType

-----------------------------------------------------------------------------
Init ==
    /\ stored = 0
    /\ state = [j \in JobId |-> "ABSENT"]
    /\ key = [j \in JobId |-> NoKey]
    /\ log = [j \in JobId |-> << >>]
    /\ message = [j \in JobId |-> "none"]
    /\ drain = FALSE
    /\ shutdown = FALSE
    /\ permits = MaxConcurrent
    /\ token = [j \in JobId |-> "none"]
    /\ task = [j \in JobId |-> "none"]
    /\ outcome = [j \in JobId |-> "none"]
    /\ buffer = [j \in JobId |-> 0]
    /\ wpc = [w \in Workers |-> "loop"]
    /\ wjob = [w \in Workers |-> 0]
    /\ cpc = [c \in Clients |-> "idle"]
    /\ want = [c \in Clients |-> NoKey]
    /\ target = [c \in Clients |-> 0]
    /\ reply = [c \in Clients |-> "none"]
    /\ faults = 0 /\ crashes = 0

ActiveJobs  == {j \in JobId : state[j] \in Active}
ActiveCount == Cardinality(ActiveJobs)

\* persist_event: an event that does not fit in max_event_bytes is refused, an
\* insert may fail, and both are ignored by every caller of it.
Persist(j, e, fits) ==
    \/ fits /\ log' = [log EXCEPT ![j] = Append(@, e)] /\ UNCHANGED faults
    \/ ~fits /\ UNCHANGED <<log, faults>>
    \/ fits /\ faults < MaxFaults /\ faults' = faults + 1 /\ UNCHANGED log

Fault == faults < MaxFaults /\ faults' = faults + 1

\* The caller's future ends with answer r.
Answer(c, r) ==
    /\ cpc' = [cpc EXCEPT ![c] = "idle"]
    /\ want' = [want EXCEPT ![c] = NoKey]
    /\ target' = [target EXCEPT ![c] = 0]
    /\ reply' = [reply EXCEPT ![c] = r]

\* The job is read once more for the answer; that read may fail.
AnswerJob(c) == \E r \in {"job", "error"} : Answer(c, r)

-----------------------------------------------------------------------------
\* submit: the drain flag and the size limits, before any lock.
SubmitCheck(c, k, oversized) ==
    /\ cpc[c] = "idle"
    /\ \/ drain /\ Answer(c, "error")
       \/ ~drain /\ oversized /\ Answer(c, "error")
       \/ /\ ~drain /\ ~oversized
          /\ cpc' = [cpc EXCEPT ![c] = "insert"]
          /\ want' = [want EXCEPT ![c] = k]
          /\ reply' = [reply EXCEPT ![c] = "none"]
          /\ UNCHANGED target
    /\ UNCHANGED <<dbVars, taskVars, workerVars, flagVars, permits, boundVars>>

UnfinishedKeyStored(k) == \E j \in ActiveJobs : key[j] = k   \* mutated
KeyStored(k) == \E j \in 1..stored : key[j] = k

QueueFull == ActiveCount >= MaxQueueSize

Backpressure_First(k) == QueueFull                            \* mutated
Backpressure(k) == ~KeyStored(k) /\ QueueFull

\* The submit transaction: idempotency first, then capacity, then the insert.
SubmitAnswered(c) ==
    /\ cpc[c] = "insert"
    /\ \/ KeyStored(want[c]) /\ AnswerJob(c) /\ UNCHANGED faults
       \/ Backpressure(want[c]) /\ Answer(c, "backpressure") /\ UNCHANGED faults
       \/ Fault /\ Answer(c, "error")
    /\ UNCHANGED <<dbVars, taskVars, workerVars, flagVars, permits, crashes>>

SubmitInsert(c) ==
    /\ cpc[c] = "insert"
    /\ ~KeyStored(want[c]) /\ ~QueueFull
    /\ stored < MaxJobs
    /\ stored' = stored + 1
    /\ state' = [state EXCEPT ![stored + 1] = "PENDING"]
    /\ key' = [key EXCEPT ![stored + 1] = want[c]]
    /\ cpc' = [cpc EXCEPT ![c] = "emit_submitted"]
    /\ target' = [target EXCEPT ![c] = stored + 1]
    /\ UNCHANGED <<log, message, taskVars, workerVars, want, reply, flagVars,
                   permits, boundVars>>

SubmitTransaction(c) == SubmitAnswered(c) \/ SubmitInsert(c)

SubmitEmit(c) ==
    /\ cpc[c] = "emit_submitted"
    /\ \E fits \in BOOLEAN : Persist(target[c], "submitted", fits)
    /\ AnswerJob(c)
    /\ UNCHANGED <<stored, state, key, message, taskVars, workerVars, flagVars,
                   permits, crashes>>

-----------------------------------------------------------------------------
\* cancel: the first read, released before anything is changed.
CancelLookup(c, j) ==
    /\ cpc[c] = "idle"
    /\ \/ Answer(c, "error")  \* not found, already terminal, or a failed read
       \/ /\ state[j] \in Active
          /\ cpc' = [cpc EXCEPT ![c] = "token"]
          /\ target' = [target EXCEPT ![c] = j]
          /\ reply' = [reply EXCEPT ![c] = "none"]
          /\ UNCHANGED want
    /\ UNCHANGED <<dbVars, taskVars, workerVars, flagVars, permits, boundVars>>

\* The processor's token is cancelled if it is already registered.
CancelToken(c) ==
    /\ cpc[c] = "token"
    /\ token' = [token EXCEPT ![target[c]] =
                    IF @ = "none" THEN "none" ELSE "cancelled"]
    /\ cpc' = [cpc EXCEPT ![c] = "update"]
    /\ UNCHANGED <<dbVars, task, outcome, buffer, workerVars, want, target,
                   reply, flagVars, permits, boundVars>>

\* UPDATE ... WHERE state IN ('PENDING','RUNNING'); its row count is not read.
CancelUpdate(c) ==
    /\ cpc[c] = "update"
    /\ \/ /\ state' = [state EXCEPT ![target[c]] =
                         IF @ \in Active THEN "CANCELLED" ELSE @]
          /\ cpc' = [cpc EXCEPT ![c] = "emit_cancelled"]
          /\ UNCHANGED <<want, target, reply, faults>>
       \/ /\ Fault
          /\ Answer(c, "error")
          /\ UNCHANGED state
    /\ UNCHANGED <<stored, key, log, message, taskVars, workerVars, flagVars,
                   permits, crashes>>

CancelEmit(c) ==
    /\ cpc[c] = "emit_cancelled"
    /\ \E fits \in BOOLEAN : Persist(target[c], "cancelled", fits)
    /\ AnswerJob(c)
    /\ UNCHANGED <<stored, state, key, message, taskVars, workerVars, flagVars,
                   permits, crashes>>

\* The caller's future is dropped at an await, as a server does when its
\* client disconnects.
Abandon(c) ==
    /\ cpc[c] # "idle"
    /\ Answer(c, "none")
    /\ UNCHANGED <<dbVars, taskVars, workerVars, flagVars, permits, boundVars>>

-----------------------------------------------------------------------------
\* run_worker: wait for a permit or for the shutdown signal.
WorkerStop(w) ==
    /\ wpc[w] = "loop" /\ shutdown
    /\ wpc' = [wpc EXCEPT ![w] = "stopped"]
    /\ UNCHANGED <<dbVars, taskVars, wjob, clientVars, flagVars, permits,
                   boundVars>>

WorkerAcquire(w) ==
    /\ wpc[w] = "loop" /\ permits > 0
    /\ permits' = permits - 1
    /\ wpc' = [wpc EXCEPT ![w] = "claim"]
    /\ UNCHANGED <<dbVars, taskVars, wjob, clientVars, flagVars, boundVars>>

DropPermit_Leaks(w) ==                                        \* mutated
    /\ permits' = permits
    /\ wpc' = [wpc EXCEPT ![w] = "loop"]
    /\ wjob' = [wjob EXCEPT ![w] = 0]

\* The permit is dropped and the loop starts again.
DropPermit(w) ==
    /\ permits' = permits + 1
    /\ wpc' = [wpc EXCEPT ![w] = "loop"]
    /\ wjob' = [wjob EXCEPT ![w] = 0]

OldestActive(j) ==                                            \* mutated
    /\ state[j] \in Active
    /\ \A i \in JobId : i < j => state[i] \notin Active

OldestPending(j) ==
    /\ state[j] = "PENDING"
    /\ \A i \in JobId : i < j => state[i] # "PENDING"

\* claim_next, its transaction: the oldest PENDING row becomes RUNNING.
ClaimTransaction(w) ==
    /\ wpc[w] = "claim"
    /\ \/ \E j \in JobId :
            /\ OldestPending(j)
            /\ state' = [state EXCEPT ![j] = "RUNNING"]
            /\ wjob' = [wjob EXCEPT ![w] = j]
            /\ wpc' = [wpc EXCEPT ![w] = "get"]
            /\ UNCHANGED <<permits, faults>>
       \/ /\ \A j \in JobId : state[j] # "PENDING"
          /\ DropPermit(w)
          /\ UNCHANGED <<state, faults>>
       \/ Fault /\ DropPermit(w) /\ UNCHANGED state
    /\ UNCHANGED <<stored, key, log, message, taskVars, clientVars, flagVars,
                   crashes>>

\* claim_next, its second read.  Its error leaves the row RUNNING.
ClaimGet(w) ==
    /\ wpc[w] = "get"
    /\ \/ /\ wpc' = [wpc EXCEPT ![w] = "token"]
          /\ UNCHANGED <<permits, wjob, faults>>
       \/ Fault /\ DropPermit(w)
    /\ UNCHANGED <<dbVars, taskVars, clientVars, flagVars, crashes>>

\* A fresh token is registered and the task is spawned with the permit.
WorkerSpawn(w) ==
    /\ wpc[w] = "token"
    /\ token' = [token EXCEPT ![wjob[w]] = "live"]
    /\ task' = [task EXCEPT ![wjob[w]] = "process"]
    /\ wpc' = [wpc EXCEPT ![w] = "loop"]
    /\ wjob' = [wjob EXCEPT ![w] = 0]
    /\ UNCHANGED <<dbVars, outcome, buffer, clientVars, flagVars, permits,
                   boundVars>>

-----------------------------------------------------------------------------
\* The processor sends an event; send waits while the channel is full.
TaskProgress(j) ==
    /\ task[j] = "process"
    /\ buffer[j] < MaxBuffer
    /\ Len(log[j]) + buffer[j] < MaxLog
    /\ buffer' = [buffer EXCEPT ![j] = @ + 1]
    /\ UNCHANGED <<dbVars, token, task, outcome, workerVars, clientVars,
                   flagVars, permits, boundVars>>

\* The forwarding task persists one event; it outlives a panicking processor.
ForwardEvent(j) ==
    /\ buffer[j] > 0
    /\ buffer' = [buffer EXCEPT ![j] = @ - 1]
    /\ \E fits \in BOOLEAN : Persist(j, "progress", fits)
    /\ UNCHANGED <<stored, state, key, message, token, task, outcome,
                   workerVars, clientVars, flagVars, permits, crashes>>

\* The processor returns a message or an error and drops its sender.
TaskReturn(j, result) ==
    /\ task[j] = "process"
    /\ task' = [task EXCEPT ![j] = "drained"]
    /\ outcome' = [outcome EXCEPT ![j] = result]
    /\ UNCHANGED <<dbVars, token, buffer, workerVars, clientVars, flagVars,
                   permits, boundVars>>

TaskDrained_NoWait(j) ==                                      \* mutated
    /\ task[j] = "drained"
    /\ task' = [task EXCEPT ![j] = "update"]
    /\ UNCHANGED <<dbVars, token, outcome, buffer, workerVars, clientVars,
                   flagVars, permits, boundVars>>

\* persist_handle.await: the forwarder has nothing left to persist.
TaskDrained(j) ==
    /\ task[j] = "drained" /\ buffer[j] = 0
    /\ task' = [task EXCEPT ![j] = "update"]
    /\ UNCHANGED <<dbVars, token, outcome, buffer, workerVars, clientVars,
                   flagVars, permits, boundVars>>

\* The task ends and its permit is dropped.
TaskEnd(j) ==
    /\ task' = [task EXCEPT ![j] = "none"]
    /\ outcome' = [outcome EXCEPT ![j] = "none"]
    /\ permits' = permits + 1

\* A panic unwinds the task: the permit is dropped, set_terminal never runs.
TaskPanic(j) ==
    /\ task[j] = "process"
    /\ Fault
    /\ TaskEnd(j)
    /\ UNCHANGED <<dbVars, token, buffer, workerVars, clientVars, flagVars,
                   crashes>>

\* Mutated: the UPDATE has no condition on the state.
SetTerminal_AnyState(j) ==
    /\ task[j] = "update"
    /\ state' = [state EXCEPT ![j] = outcome[j]]
    /\ task' = [task EXCEPT ![j] = "won"]
    /\ \E m \in {"short", "long"} : message' = [message EXCEPT ![j] = m]
    /\ UNCHANGED <<stored, key, log, token, outcome, buffer, workerVars,
                   clientVars, flagVars, permits, boundVars>>

\* set_terminal, UPDATE ... WHERE state = 'RUNNING', which stores the
\* processor's message too, of any length.  On an error the task ends and the
\* token stays registered.
SetTerminal(j) ==
    /\ task[j] = "update"
    /\ \/ /\ state[j] = "RUNNING"
          /\ state' = [state EXCEPT ![j] = outcome[j]]
          /\ \E m \in {"short", "long"} : message' = [message EXCEPT ![j] = m]
          /\ task' = [task EXCEPT ![j] = "won"]
          /\ UNCHANGED <<outcome, permits, faults>>
       \/ /\ state[j] # "RUNNING"
          /\ task' = [task EXCEPT ![j] = "lost"]
          /\ UNCHANGED <<state, message, outcome, permits, faults>>
       \/ Fault /\ TaskEnd(j) /\ UNCHANGED <<state, message>>
    /\ UNCHANGED <<stored, key, log, token, buffer, workerVars, clientVars,
                   flagVars, crashes>>

RemoveToken_NeverEmits(j) ==                                  \* mutated
    /\ task[j] \in {"won", "lost"} /\ TaskEnd(j)
    /\ token' = [token EXCEPT ![j] = "none"]
    /\ UNCHANGED <<dbVars, buffer, workerVars, clientVars, flagVars, boundVars>>

\* set_terminal forgets the token; if no row changed, that is all it does.
RemoveToken(j) ==
    /\ \/ task[j] = "lost" /\ TaskEnd(j)
       \/ /\ task[j] = "won"
          /\ task' = [task EXCEPT ![j] = "emit"]
          /\ UNCHANGED <<outcome, permits>>
    /\ token' = [token EXCEPT ![j] = "none"]
    /\ UNCHANGED <<dbVars, buffer, workerVars, clientVars, flagVars, boundVars>>

EmitTerminal(j) ==
    /\ task[j] = "emit"
    /\ Persist(j, outcome[j], message[j] = "short")
    /\ TaskEnd(j)
    /\ UNCHANGED <<stored, state, key, message, token, buffer, workerVars,
                   clientVars, flagVars, crashes>>

-----------------------------------------------------------------------------
SetDrain(enable) ==
    /\ (IF enable THEN "drain" ELSE "undrain") \in Signals
    /\ drain' = enable
    /\ UNCHANGED <<dbVars, taskVars, workerVars, clientVars, shutdown, permits,
                   boundVars>>

Shutdown ==
    /\ "shutdown" \in Signals
    /\ shutdown' = TRUE
    /\ UNCHANGED <<dbVars, taskVars, workerVars, clientVars, drain, permits,
                   boundVars>>

\* The process dies and open() runs again: only the database is left.
Crash ==
    /\ crashes < MaxCrashes
    /\ crashes' = crashes + 1
    /\ drain' = FALSE
    /\ shutdown' = FALSE
    /\ permits' = MaxConcurrent
    /\ token' = [j \in JobId |-> "none"]
    /\ task' = [j \in JobId |-> "none"]
    /\ outcome' = [j \in JobId |-> "none"]
    /\ buffer' = [j \in JobId |-> 0]
    /\ wpc' = [w \in Workers |-> "loop"]
    /\ wjob' = [w \in Workers |-> 0]
    /\ cpc' = [c \in Clients |-> "idle"]
    /\ want' = [c \in Clients |-> NoKey]
    /\ target' = [c \in Clients |-> 0]
    /\ reply' = [c \in Clients |-> "none"]
    /\ UNCHANGED <<dbVars, faults>>

ClientStep(c) ==
    \/ SubmitTransaction(c) \/ SubmitEmit(c)
    \/ CancelToken(c) \/ CancelUpdate(c) \/ CancelEmit(c)

WorkerStep(w) ==
    \/ WorkerStop(w) \/ WorkerAcquire(w)
    \/ ClaimTransaction(w) \/ ClaimGet(w) \/ WorkerSpawn(w)

TaskStep(j) ==
    \/ ForwardEvent(j)
    \/ \E result \in Finished : TaskReturn(j, result)
    \/ TaskDrained(j) \/ SetTerminal(j) \/ RemoveToken(j) \/ EmitTerminal(j)

Next ==
    \/ \E c \in Clients :
        \/ \E k \in Keys, oversized \in BOOLEAN : SubmitCheck(c, k, oversized)
        \/ \E j \in JobId : CancelLookup(c, j)
        \/ ClientStep(c)
        \/ Abandon(c)
    \/ \E w \in Workers : WorkerStep(w)
    \/ \E j \in JobId : TaskProgress(j) \/ TaskPanic(j) \/ TaskStep(j)
    \/ \E enable \in BOOLEAN : SetDrain(enable)
    \/ Shutdown
    \/ Crash

Spec == Init /\ [][Next]_vars

\* Tokio runs every ready future: a caller's call, a worker loop and a spawned
\* task go on.  A processor is assumed to return.
Fairness ==
    /\ \A c \in Clients : WF_vars(ClientStep(c))
    /\ \A w \in Workers : WF_vars(WorkerStep(w))
    /\ \A j \in JobId : WF_vars(TaskStep(j))

FairSpec == Spec /\ Fairness
-----------------------------------------------------------------------------
\* The queue never holds more unfinished jobs than its capacity, whatever the
\* callers interleave and however often the process restarts (the comment on
\* the transaction in submit).
BoundedQueue == ActiveCount <= MaxQueueSize

\* An idempotency key names at most one job, even for concurrent callers.
OneJobPerKey ==
    \A i, j \in 1..stored : key[i] = key[j] => i = j

\* A retry of a stored submission is never turned away for lack of capacity
\* ("Idempotent retries must succeed even while the queue is full").
RetryNeverRefused ==
    [][\A c \in Clients :
          cpc[c] = "insert" /\ KeyStored(want[c])
              => reply'[c] # "backpressure"]_vars

\* Every permit is free, with a worker that is claiming, or with a task: none
\* is lost or duplicated on any path, so at most MaxConcurrent tasks run.
Claiming == {w \in Workers : wpc[w] \in {"claim", "get", "token"}}
LiveTasks == {j \in JobId : task[j] # "none"}
PermitsAccounted ==
    permits + Cardinality(Claiming) + Cardinality(LiveTasks) = MaxConcurrent

HasFinished(j) == \E i \in DOMAIN log[j] : log[j][i] \in Finished

\* A claimed job belongs to one worker or to one task, and a job handed to a
\* processor has never finished before: no job is executed twice.
SingleOwner(j) ==
    \A w \in Workers : wjob[w] = j =>
        /\ task[j] = "none" /\ buffer[j] = 0
        /\ ~HasFinished(j)
        /\ \A v \in Workers : wjob[v] = j => v = w
SingleExecution == \A j \in JobId : SingleOwner(j)

\* A worker's terminal event is appended once, and it names the state the job
\* really has; no event of the processor is stored after it, because the task
\* awaits the forwarder first.
TerminalEvent(j) ==
    \A i \in DOMAIN log[j] : log[j][i] \in Finished =>
        /\ state[j] = log[j][i]
        /\ \A n \in DOMAIN log[j] : log[j][n] \in Finished => n = i
ProgressFirst(j) ==
    \A i, n \in DOMAIN log[j] :
        i < n /\ log[j][i] \in Finished => log[j][n] # "progress"
TerminalEventTrue == \A j \in JobId : TerminalEvent(j) /\ ProgressFirst(j)

\* What the code keeps true of a job between any two steps; it makes the two
\* properties above inductive.  A job not yet claimed has no task and no worker;
\* a task outlives neither the terminal event nor, once it updates the row, its
\* event channel; a task that won the UPDATE still has its outcome in the row.
JobConsistent(j) ==
    /\ state[j] = "ABSENT" <=> stored < j
    /\ state[j] \in {"ABSENT", "PENDING"} =>
          /\ task[j] = "none" /\ buffer[j] = 0
          /\ ~HasFinished(j)
          /\ \A w \in Workers : wjob[w] # j
    /\ HasFinished(j) => task[j] = "none" /\ buffer[j] = 0
    /\ task[j] \in {"update", "won", "lost", "emit"} => buffer[j] = 0
    /\ task[j] \in {"won", "emit"} => state[j] = outcome[j]
    /\ SingleOwner(j) /\ TerminalEvent(j) /\ ProgressFirst(j)
ConsistencyInv == \A j \in JobId : JobConsistent(j)

\* "The cancellation event is already terminal; do not append a contradictory
\* worker terminal event" (set_terminal): a log never holds both.
NoContradictoryEvents ==
    \A j \in JobId : HasFinished(j) =>
        \A i \in DOMAIN log[j] : log[j][i] # "cancelled"

-----------------------------------------------------------------------------
\* The promise the queue implements: JobLifecycle, with the same job states.
Lifecycle == INSTANCE JobLifecycle
    WITH MaxJobs <- MaxJobs, MaxQueueSize <- MaxQueueSize, state <- state
ImplementsLifecycle == Lifecycle!Spec

\* While the workers are not shut down, every job that was queued reaches a
\* terminal state.
QueuedJobsFinish ==
    []~shutdown => \A j \in JobId :
        state[j] = "PENDING" ~> state[j] \in Terminal

\* The stored events of a finished job eventually tell its outcome, unless the
\* processor's message is too long for an event (persist_event).
FinishIsReported ==
    \A j \in JobId :
        state[j] \in Finished /\ message[j] = "short" ~> HasFinished(j)

\* Both: what was queued ends, and its end is told if it can be.
JobsEndAndTell == QueuedJobsFinish /\ FinishIsReported
=============================================================================
