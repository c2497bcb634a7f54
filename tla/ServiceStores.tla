----------------------------- MODULE ServiceStores -----------------------------
(***************************************************************************)
(* What the crate jasusi-service keeps beside the queue: the events of a   *)
(* job and their subscriptions (JobEvents), the quotas (Quota) and the     *)
(* audit log (AuditLog).  No one of them reads another's state or holds    *)
(* another's lock, so that interleaving them shows nothing that each does  *)
(* not show alone: a behaviour is one of one `family`.                     *)
(***************************************************************************)
EXTENDS Naturals

CONSTANTS
    EventIds, Subscribers, NoSubscriber, Capacity, Outbox,        \* JobEvents
    MaxFaults,
    Callers, Nobody, Requests, Parts, Limits, Length,             \* Quota
    TokenModulus, MaxTime,
    Verifiers, MaxEvents, MaxFailures, MaxRestarts                \* AuditLog

VARIABLES
    family,     \* bound: the part that this behaviour exercises
    rows, tried, sent, channel, spc, fromStart, fed, seen, got, unread,
    faults,
    now, concurrent, start, count, tokens, admission, pc, req, todo, stamps,
    file, torn, spoiled, buffer, sequence, previous, log, events, acked,
    failures, restarts, kills, offset, vpc, expected, chain, held, verdict, disturbed

Events == INSTANCE JobEvents
Quotas == INSTANCE Quota
Audit  == INSTANCE AuditLog

ASSUME ServiceStoresAssumption ==
    Events!EventsAssumption /\ Quotas!QuotaAssumption /\ Audit!AuditAssumption

eventVars == <<rows, tried, sent, channel, spc, fromStart, fed, seen, got,
               unread, faults>>
quotaVars == <<now, concurrent, start, count, tokens, admission, pc, req, todo,
               stamps>>
auditVars == <<file, torn, spoiled, buffer, sequence, previous, log, events,
               acked, failures, restarts, kills, offset, vpc, expected, chain, held, verdict,
               disturbed>>

vars == <<family, eventVars, quotaVars, auditVars>>

Init ==
    /\ family \in {"events", "quota", "audit"}
    /\ Events!Init /\ Quotas!Init /\ Audit!Init

OnlyEvents == Events!Next /\ UNCHANGED <<quotaVars, auditVars>>
OnlyQuota  == Quotas!Next /\ UNCHANGED <<eventVars, auditVars>>
OnlyAudit  == Audit!Next  /\ UNCHANGED <<eventVars, quotaVars>>

Next ==
    /\ UNCHANGED family
    /\ \/ family = "events" /\ OnlyEvents
       \/ family = "quota"  /\ OnlyQuota
       \/ family = "audit"  /\ OnlyAudit

Spec == Init /\ [][Next]_vars /\ (family = "events" => Events!Fairness)

-----------------------------------------------------------------------------
\* A subscriber has a whole beginning of what was stored and sent.
StreamGapless == Events!StreamGapless

\* A stream that a later subscription displaced does not hang, unless its
\* client leaves the loop waiting for room for ever.
DisplacedStreamEnds == Events!DisplacedStreamEnds

\* No cap of a clock minute, hour or day is exceeded.
FixedWindowCap == Quotas!FixedWindowCap

\* The concurrency of a key is the number of admissions that hold it.
ConcurrencyIsHeld == Quotas!ConcurrencyIsHeld

\* An acknowledged event is on disk; only a failed write breaks the chain, and
\* nothing the order of the numbers.
LogKept == Audit!LogKept

\* An undisturbed verification tells the truth about the whole file.
UndisturbedVerdict == Audit!UndisturbedVerdict
=============================================================================
