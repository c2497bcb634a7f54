---------------------------- MODULE ControlService ----------------------------
(***************************************************************************)
(* The control plane of rust/crates/jasusi-core/src/rpc/server.rs: the     *)
(* handlers submit_job, get_job_status, cancel_job and drain, and the      *)
(* shutdown loop of start_server, over the components they compose:        *)
(*   - the durable queue, by the promise JobQueue is proved to keep        *)
(*     (JobLifecycle's actions) and its drain flag;                        *)
(*   - the quota manager, by its concurrency counter (module Quota), for   *)
(*     one user and project; a rate limit may refuse at any time;          *)
(*   - the DrainManager of jasusi-service/src/drain.rs.                    *)
(* A handler is split at its awaits.  stream_job_events answers with a     *)
(* stream of a job's events, which stays open after the job has ended.     *)
(***************************************************************************)
EXTENDS Naturals, FiniteSets

CONSTANTS
    Clients,
    KeysOf,         \* idempotency keys each client submits
    NoKey,
    MaxJobs,        \* bound: rows of the queue
    MaxQueueSize,
    QuotaCap,       \* max_concurrent
    DrainRequests,  \* values of DrainRequest.enable the clients use
    Signals,        \* "ctrl_c" if the operator may stop the server
    Disconnects,    \* whether a client may drop a call
    Watchers,       \* clients that call stream_job_events
    MaxFaults       \* bound: database errors

ASSUME ControlAssumption ==
    /\ \A c \in Clients : NoKey \notin KeysOf[c]
    /\ MaxJobs \in Nat /\ MaxQueueSize \in Nat /\ MaxFaults \in Nat
    /\ QuotaCap \in Nat \ {0}
    /\ DrainRequests \subseteq BOOLEAN
    /\ Disconnects \in BOOLEAN
    /\ Watchers \subseteq Clients

VARIABLES
    state, key,    \* the queue's jobs and their idempotency keys
    queueDrain,    \* the queue's drain flag
    concurrent,    \* the quota manager's counter
    reservations,  \* jobs with a QuotaReservation
    drain,         \* DrainState
    expired,       \* the drain deadline has passed
    server,        \* start_server: serving, after ctrl_c waiting and then
                   \* closing, stopped
    streams,       \* watchers whose stream is open
    cpc, want, target,  \* a client's call: where it is, its key, its job
    active,        \* the active count a drain call read
    faults

Queue == INSTANCE JobLifecycle
JobId == Queue!Ids
Unfinished == Queue!Unfinished
Terminal == {"COMPLETED", "FAILED", "CANCELLED"}
AllKeys == UNION {KeysOf[c] : c \in Clients}

queueVars == <<state, key, queueDrain>>
quotaVars == <<concurrent, reservations>>
drainVars == <<drain, expired, server, streams>>
callVars  == <<cpc, want, target, active>>
vars == <<queueVars, quotaVars, drainVars, callVars, faults>>

TypeOK ==
    /\ state \in [JobId -> {"ABSENT", "PENDING", "RUNNING"} \cup Terminal]
    /\ key \in [JobId -> AllKeys \cup {NoKey}]
    /\ queueDrain \in BOOLEAN
    /\ concurrent \in 0..QuotaCap
    /\ reservations \subseteq {j \in JobId : state[j] # "ABSENT"}
    /\ drain \in {"Active", "Draining", "Complete"}
    /\ expired \in BOOLEAN
    /\ server \in {"serving", "waiting", "closing", "stopped"}
    /\ streams \subseteq Watchers
    /\ cpc \in [Clients -> {"idle", "admit", "flag", "insert", "reload", "record",
                            "cancel", "release", "count", "complete"}]
    /\ want \in [Clients -> AllKeys \cup {NoKey}]
    /\ target \in [Clients -> 0..MaxJobs]
    /\ active \in [Clients -> Nat]
    /\ faults \in 0..MaxFaults

Init ==
    /\ state = [j \in JobId |-> "ABSENT"]
    /\ key = [j \in JobId |-> NoKey]
    /\ queueDrain = FALSE
    /\ concurrent = 0 /\ reservations = {}
    /\ drain = "Active" /\ expired = FALSE /\ server = "serving"
    /\ streams = {}
    /\ cpc = [c \in Clients |-> "idle"]
    /\ want = [c \in Clients |-> NoKey]
    /\ target = [c \in Clients |-> 0]
    /\ active = [c \in Clients |-> 0]
    /\ faults = 0

\* A server that is closing takes no new calls.
Call(c) == cpc[c] = "idle" /\ server \in {"serving", "waiting"}
Goto(c, place) == cpc' = [cpc EXCEPT ![c] = place]
Return(c) ==
    /\ Goto(c, "idle")
    /\ want' = [want EXCEPT ![c] = NoKey]
    /\ target' = [target EXCEPT ![c] = 0]
    /\ active' = [active EXCEPT ![c] = 0]
Fault == faults < MaxFaults /\ faults' = faults + 1

JobsOf(k) == {j \in JobId : key[j] = k}

-----------------------------------------------------------------------------
\* submit_job: a stored key is answered before any quota is taken.
SubmitFind(c, k) ==
    /\ Call(c)
    /\ \/ JobsOf(k) # {} /\ Return(c) /\ UNCHANGED faults
       \/ JobsOf(k) = {} /\ Goto(c, "admit") /\ UNCHANGED faults
          /\ want' = [want EXCEPT ![c] = k] /\ UNCHANGED <<target, active>>
       \/ Fault /\ Return(c)
    /\ UNCHANGED <<queueVars, quotaVars, drainVars>>

HasCapacity == concurrent < QuotaCap

\* try_admit: refused by the concurrency limit, or by a rate limit at any time.
SubmitAdmit(c) ==
    /\ cpc[c] = "admit"
    /\ \/ HasCapacity
          /\ concurrent' = concurrent + 1
          /\ Goto(c, "flag") /\ UNCHANGED <<want, target, active>>
       \/ Return(c) /\ UNCHANGED concurrent
    /\ UNCHANGED <<queueVars, reservations, drainVars, faults>>

\* QuotaManager::release saturates at zero.
QuotaRelease == concurrent' = IF concurrent > 0 THEN concurrent - 1 ELSE 0

\* Any error of queue.submit gives the admission back.
SubmitError(c) == QuotaRelease /\ Return(c)

\* queue.submit reads the drain flag before it waits for the connection.
SubmitFlag(c) ==
    /\ cpc[c] = "flag"
    /\ \/ queueDrain /\ SubmitError(c)
       \/ ~queueDrain /\ Goto(c, "insert") /\ UNCHANGED <<concurrent, want,
                                                          target, active>>
    /\ UNCHANGED <<queueVars, reservations, drainVars, faults>>

\* Bound: a queue that has had MaxJobs jobs is taken for a full one.
NoRowLeft == \A j \in JobId : state[j] # "ABSENT"

\* The transaction of queue.submit.
SubmitInsert(c) ==
    /\ cpc[c] = "insert"
    /\ \/ \E j \in JobsOf(want[c]) :
            /\ target' = [target EXCEPT ![c] = j]
            /\ Goto(c, "reload")
            /\ UNCHANGED <<state, key, concurrent, want, active, faults>>
       \/ \E j \in JobId :
            /\ JobsOf(want[c]) = {}
            /\ Queue!Accept(j)
            /\ key' = [key EXCEPT ![j] = want[c]]
            /\ target' = [target EXCEPT ![c] = j]
            /\ Goto(c, "reload")
            /\ UNCHANGED <<concurrent, want, active, faults>>
       \/ /\ JobsOf(want[c]) = {}
          /\ Cardinality(Unfinished) >= MaxQueueSize \/ NoRowLeft
          /\ SubmitError(c)
          /\ UNCHANGED <<state, key, faults>>
       \/ Fault /\ SubmitError(c) /\ UNCHANGED <<state, key>>
    /\ UNCHANGED <<queueDrain, reservations, drainVars>>

\* queue.submit reads the job again.  If that fails the caller gets an error
\* and the admission is given back, although the job is in the queue.
SubmitReload(c) ==
    /\ cpc[c] = "reload"
    /\ \/ Goto(c, "record") /\ UNCHANGED <<concurrent, want, target, active,
                                           faults>>
       \/ Fault /\ SubmitError(c)
    /\ UNCHANGED <<queueVars, reservations, drainVars>>

\* reservations.insert replaces the entry of a job that has one.
SubmitRecord(c) ==
    /\ cpc[c] = "record"
    /\ reservations' = reservations \cup {target[c]}
    /\ Return(c)
    /\ UNCHANGED <<queueVars, concurrent, drainVars, faults>>

-----------------------------------------------------------------------------
StatusRead_AnyState(c, j) ==                                  \* mutated
    /\ Call(c)
    /\ state[j] # "ABSENT" /\ Goto(c, "release")
    /\ target' = [target EXCEPT ![c] = j]
    /\ UNCHANGED <<queueVars, quotaVars, drainVars, want, active, faults>>

\* get_job_status, and the read of release_reservation_if_terminal.
StatusRead(c, j) ==
    /\ Call(c)
    /\ state[j] \in Terminal /\ Goto(c, "release")
    /\ target' = [target EXCEPT ![c] = j]
    /\ UNCHANGED <<queueVars, quotaVars, drainVars, want, active, faults>>

\* cancel_job: queue.cancel answers an error for an absent or a finished job,
\* and the handler then releases nothing.
CancelRead(c, j) ==
    /\ Call(c)
    /\ j \in Unfinished /\ Goto(c, "cancel")
    /\ target' = [target EXCEPT ![c] = j]
    /\ UNCHANGED <<queueVars, quotaVars, drainVars, want, active, faults>>

CancelUpdate(c) ==
    /\ cpc[c] = "cancel"
    /\ \/ Queue!Cancel(target[c]) /\ Goto(c, "release")
          /\ UNCHANGED <<want, target, active, faults>>
       \/ target[c] \notin Unfinished /\ Goto(c, "release")
          /\ UNCHANGED <<state, want, target, active, faults>>
       \/ Fault /\ Return(c) /\ UNCHANGED state
    /\ UNCHANGED <<key, queueDrain, quotaVars, drainVars>>

ReleaseReservation_Kept(c) ==                                 \* mutated
    /\ cpc[c] = "release"
    /\ IF target[c] \in reservations THEN QuotaRelease ELSE UNCHANGED concurrent
    /\ Return(c)
    /\ UNCHANGED <<queueVars, reservations, drainVars, faults>>

\* release_reservation_if_terminal, under the reservations' lock.
ReleaseReservation(c) ==
    /\ cpc[c] = "release"
    /\ \/ /\ target[c] \in reservations
          /\ reservations' = reservations \ {target[c]}
          /\ QuotaRelease
       \/ target[c] \notin reservations /\ UNCHANGED quotaVars
    /\ Return(c)
    /\ UNCHANGED <<queueVars, drainVars, faults>>

\* A disconnected client's handler is dropped at an await.
Disconnect(c) ==
    /\ Disconnects /\ cpc[c] # "idle"
    /\ Return(c)
    /\ UNCHANGED <<queueVars, quotaVars, drainVars, faults>>

-----------------------------------------------------------------------------
\* DrainManager::start restarts the deadline unless draining is complete.
DrainStart ==
    /\ queueDrain' = TRUE
    /\ drain' = IF drain = "Complete" THEN drain ELSE "Draining"
    /\ expired' = IF drain = "Complete" THEN expired ELSE FALSE

ShouldShutdown == drain = "Complete" \/ (drain = "Draining" /\ expired)

\* drain: only `enable` starts it.
DrainCall(c, enable) ==
    /\ Call(c)
    /\ \/ enable /\ DrainStart
       \/ ~enable /\ UNCHANGED <<queueDrain, drain, expired>>
    /\ Goto(c, "count")
    /\ UNCHANGED <<state, key, quotaVars, server, streams, want, target, active,
                   faults>>

\* An error of active_count reads as zero.
DrainCount(c) ==
    /\ cpc[c] = "count"
    /\ \/ active' = [active EXCEPT ![c] = Cardinality(Unfinished)]
          /\ UNCHANGED faults
       \/ active' = [active EXCEPT ![c] = 0] /\ Fault
    /\ Goto(c, "complete")
    /\ UNCHANGED <<queueVars, quotaVars, drainVars, want, target>>

\* Whether or not it was started, draining is completed.
DrainComplete(c) ==
    /\ cpc[c] = "complete"
    /\ \/ (ShouldShutdown \/ active[c] = 0) /\ drain' = "Complete"
       \/ ~(ShouldShutdown \/ active[c] = 0) /\ UNCHANGED drain
    /\ Return(c)
    /\ UNCHANGED <<queueVars, quotaVars, expired, server, streams, faults>>

DeadlinePasses ==
    /\ drain = "Draining" /\ ~expired
    /\ expired' = TRUE
    /\ UNCHANGED <<queueVars, quotaVars, drain, server, streams, callVars,
                   faults>>

\* stream_job_events of a job the queue has.
StreamOpen(c) ==
    /\ Call(c) /\ c \in Watchers \ streams
    /\ \E j \in JobId : state[j] # "ABSENT"
    /\ streams' = streams \cup {c}
    /\ UNCHANGED <<queueVars, quotaVars, drain, expired, server, callVars,
                   faults>>

\* The client closes it, or loses its connection, or the job's channel is
\* replaced; it does not end because the job does.
StreamClose(c) ==
    /\ c \in streams
    /\ streams' = streams \ {c}
    /\ UNCHANGED <<queueVars, quotaVars, drain, expired, server, callVars,
                   faults>>

\* start_server: after ctrl_c the loop polls until no job is active, or
\* the deadline.
CtrlC ==
    /\ "ctrl_c" \in Signals /\ server = "serving"
    /\ server' = "waiting"
    /\ DrainStart
    /\ UNCHANGED <<state, key, quotaVars, streams, callVars, faults>>

ShutdownPoll_OnlyEmpty ==                                     \* mutated
    /\ server = "waiting"
    /\ Unfinished = {}
    /\ server' = "closing" /\ drain' = "Complete"
    /\ UNCHANGED <<queueVars, quotaVars, expired, streams, callVars, faults>>

\* The end of the loop only begins the graceful shutdown of the server.
ShutdownPoll ==
    /\ server = "waiting"
    /\ \/ (Unfinished = {} \/ ShouldShutdown) /\ UNCHANGED faults
       \/ Fault
    /\ server' = "closing" /\ drain' = "Complete"
    /\ UNCHANGED <<queueVars, quotaVars, expired, streams, callVars>>

\* serve_with_incoming_shutdown returns when the calls that are being handled
\* and the streams that are open have ended.
ServerStops ==
    /\ server = "closing" /\ streams = {}
    /\ \A c \in Clients : cpc[c] = "idle"
    /\ server' = "stopped"
    /\ UNCHANGED <<queueVars, quotaVars, drain, expired, streams, callVars,
                   faults>>

\* A worker attached to the queue.
WorkerStep ==
    /\ \E j \in JobId : Queue!Start(j) \/ Queue!Finish(j)
    /\ UNCHANGED <<key, queueDrain, quotaVars, drainVars, callVars, faults>>

ClientStep(c) ==
    \/ SubmitAdmit(c) \/ SubmitFlag(c) \/ SubmitInsert(c) \/ SubmitReload(c)
    \/ SubmitRecord(c)
    \/ CancelUpdate(c) \/ ReleaseReservation(c)
    \/ DrainCount(c) \/ DrainComplete(c)

Next ==
    \/ \E c \in Clients :
        \/ \E k \in KeysOf[c] : SubmitFind(c, k)
        \/ \E j \in JobId : StatusRead(c, j) \/ CancelRead(c, j)
        \/ \E enable \in DrainRequests : DrainCall(c, enable)
        \/ ClientStep(c) \/ Disconnect(c)
        \/ StreamOpen(c) \/ StreamClose(c)
    \/ WorkerStep \/ DeadlinePasses \/ CtrlC \/ ShutdownPoll \/ ServerStops

Spec == Init /\ [][Next]_vars

\* Tokio runs the handlers and the shutdown, and its clock advances; nothing
\* makes a client close its stream.
FairSpec ==
    /\ Spec
    /\ \A c \in Clients : WF_vars(ClientStep(c))
    /\ WF_vars(DeadlinePasses) /\ WF_vars(ShutdownPoll) /\ WF_vars(ServerStops)
-----------------------------------------------------------------------------
\* A call that was admitted holds one unit of the quota until it has recorded
\* it for its job.
Admitted == {c \in Clients : cpc[c] \in {"flag", "insert", "reload", "record"}}

\* The concurrency counter never falls below what is really held: no unit is
\* given back twice, whatever calls for the same job overlap.  So at most
\* QuotaCap jobs of the user are unfinished, and one more for every database
\* error that gave back an admission whose job stays queued.
QuotaNotUndercounted ==
    /\ Cardinality(reservations) + Cardinality(Admitted) <= concurrent
    /\ Cardinality(Unfinished) <= QuotaCap + faults

\* A reservation is only given up for a finished job.
ReservationUntilTerminal ==
    [][\A j \in reservations \ reservations' : state[j] \in Terminal]_vars

\* Why they hold: a call only records or releases a job the queue has, the latter
\* a finished one; and an unfinished job that no reservation and no call stands for
\* is paid by a unit that a dropped call left behind, or by an error of the reload.
Targets ==
    /\ \A j \in JobId : key[j] # NoKey => state[j] # "ABSENT"
    /\ \A c \in Clients :
        /\ cpc[c] \in {"admit", "flag", "insert"} => want[c] # NoKey
        /\ cpc[c] \in {"reload", "record", "cancel"} =>
              target[c] \in JobId /\ state[target[c]] # "ABSENT"
        /\ cpc[c] = "release" =>
              target[c] \in JobId /\ state[target[c]] \in Terminal

Inserted == {target[c] : c \in {d \in Clients : cpc[d] \in {"reload", "record"}}}
Unpaid == Unfinished \ (reservations \cup Inserted)
UnitsSuffice ==
    /\ IsFiniteSet(Admitted)
    /\ Cardinality(reservations) + Cardinality(Admitted) <= concurrent
    /\ Cardinality(Unpaid) + Cardinality(reservations) + Cardinality(Admitted)
         <= concurrent + faults

ReservationInv == TypeOK /\ Targets /\ UnitsSuffice

\* "Decrements the concurrency counter. Call when the request completes or is
\* cancelled" (QuotaManager::release): when every job is finished, none holds a
\* reservation and no call is under way, no concurrency is left in use.
QuotaReturned ==
    /\ Unfinished = {} /\ reservations = {}
    /\ \A c \in Clients : cpc[c] = "idle"
    => concurrent = 0

\* After ctrl_c the server closes, even if a job never finishes and calls are
\* dropped, unless clients keep sending Drain requests for ever: every one of
\* them restarts the deadline.  Then it waits for its open streams, without a
\* deadline: it stops if the clients close them.
DrainCallsEnd == <>[](\A c \in Clients : cpc[c] \notin {"count", "complete"})
ShutdownCompletes ==
    DrainCallsEnd =>
        /\ server = "waiting" ~> server \in {"closing", "stopped"}
        /\ []<>(streams = {}) => (server = "waiting" ~> server = "stopped")
=============================================================================
