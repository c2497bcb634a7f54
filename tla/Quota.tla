-------------------------------- MODULE Quota --------------------------------
(***************************************************************************)
(* QuotaManager of rust/crates/jasusi-service/src/quota.rs.                *)
(*                                                                         *)
(* A request is charged to one bucket of counters for each limited scope   *)
(* it carries the identifiers of.  check, try_admit and release hold the   *)
(* admission mutex throughout, but the clock is read again for every       *)
(* scope, and once more before the counters are raised, so an admission    *)
(* may straddle the end of a minute, hour or day.                          *)
(***************************************************************************)
EXTENDS Naturals, FiniteSets, Sequences

CONSTANTS
    Callers,       \* threads that use the manager
    Nobody,        \* not a caller
    Requests,      \* QuotaRequests: [ids, tokens], a function from the named
                   \* identifiers it carries, and one from its token counts
    Parts,         \* for each limited scope, the identifiers it is keyed by
    Limits,        \* for each limited scope, its caps: a partial function
    Length,        \* seconds in a "minute", an "hour" and a "day"
    TokenModulus,  \* 2^64 in the code: token counts wrap
    MaxTime        \* bound: seconds

Windows == {"minute", "hour", "day"}
TokenKinds == {"input", "output"}
Scopes == DOMAIN Parts

QuotaAssumption ==
    /\ Nobody \notin Callers
    /\ IsFiniteSet(Callers)
    /\ DOMAIN Limits = Scopes
    /\ \A s \in Scopes :
        /\ DOMAIN Limits[s] \subseteq Windows \cup TokenKinds \cup {"concurrent"}
        /\ \A cap \in DOMAIN Limits[s] : Limits[s][cap] \in Nat
    /\ Requests # {}
    /\ \A r \in Requests : \A d \in TokenKinds : r.tokens[d] \in Nat
    /\ Length \in [Windows -> Nat \ {0}]
    /\ TokenModulus \in Nat \ {0}
    /\ MaxTime \in Nat

\* QuotaKey::from_scope: a scope applies if the request has all its parts.
Applies(s, r) == Parts[s] \subseteq DOMAIN r.ids
KeyOf(s, r) == <<s, [p \in Parts[s] |-> r.ids[p]]>>
ScopesOf(r) == {s \in Scopes : Applies(s, r)}
Charged(r) == {KeyOf(s, r) : s \in ScopesOf(r)}
Keys == UNION {Charged(r) : r \in Requests}

VARIABLES
    now,         \* the system clock
    concurrent,  \* per key: admissions not yet released
    start,       \* per window and key: the window's number
    count,       \* per window and key: requests counted in it
    tokens,      \* per kind and key: tokens counted in the hour
    admission,   \* who holds the admission mutex
    pc,          \* where a caller is
    req,         \* the request it works on
    todo,        \* scopes its check has not evaluated yet
    stamps       \* history: per key, when each admission was counted, as far as
                 \* the clock was not set back since

counters == <<concurrent, start, count, tokens>>
calls    == <<admission, pc, req, todo>>
vars     == <<now, counters, calls, stamps>>

TypeOK ==
    /\ now \in 0..MaxTime
    /\ concurrent \in [Keys -> Nat]
    /\ start \in [Windows -> [Keys -> Nat]]
    /\ count \in [Windows -> [Keys -> Nat]]
    /\ tokens \in [TokenKinds -> [Keys -> Nat]]
    /\ admission \in Callers \cup {Nobody}
    /\ pc \in [Callers -> {"idle", "check", "admit", "held"}]
    /\ req \in [Callers -> Requests]
    /\ todo \in [Callers -> SUBSET Scopes]
    /\ stamps \in [Keys -> Seq(0..MaxTime)]
    /\ \A c \in Callers : admission = c <=> pc[c] \in {"check", "admit"}

Init ==
    /\ now = 0
    /\ concurrent = [k \in Keys |-> 0]
    /\ start = [w \in Windows |-> [k \in Keys |-> 0]]
    /\ count = [w \in Windows |-> [k \in Keys |-> 0]]
    /\ tokens = [d \in TokenKinds |-> [k \in Keys |-> 0]]
    /\ admission = Nobody
    /\ pc = [c \in Callers |-> "idle"]
    /\ req = [c \in Callers |-> CHOOSE r \in Requests : TRUE]   \* of no call yet
    /\ todo = [c \in Callers |-> {}]
    /\ stamps = [k \in Keys |-> << >>]

-----------------------------------------------------------------------------
\* tick_windows: a window whose number is not the clock's starts again at zero.
Current(w) == now \div Length[w]
Lapsed(w, k) == start[w][k] # Current(w)
Used(w, k) == IF Lapsed(w, k) THEN 0 ELSE count[w][k]
TokensUsed(d, k) == IF Lapsed("hour", k) THEN 0 ELSE tokens[d][k]

\* The windows of the keys in K are ticked; then every key adds its share.
Record(K, requests, spent) ==
    /\ start' = [w \in Windows |-> [k \in Keys |->
                    IF k \in K THEN Current(w) ELSE start[w][k]]]
    /\ count' = [w \in Windows |-> [k \in Keys |->
                    IF k \in K THEN Used(w, k) + requests ELSE count[w][k]]]
    /\ tokens' = [d \in TokenKinds |-> [k \in Keys |->
                    IF k \in K THEN (TokensUsed(d, k) + spent[d]) % TokenModulus
                    ELSE tokens[d][k]]]

NoTokens == [d \in TokenKinds |-> 0]

OverBudget_OffByOne(s, k, r) ==                               \* mutated
    \/ /\ "concurrent" \in DOMAIN Limits[s]
       /\ concurrent[k] >= Limits[s]["concurrent"]
    \/ \E w \in Windows \cap DOMAIN Limits[s] : Used(w, k) > Limits[s][w]

\* evaluate_scope.
OverBudget(s, k, r) ==
    \/ /\ "concurrent" \in DOMAIN Limits[s]
       /\ concurrent[k] >= Limits[s]["concurrent"]
    \/ \E w \in Windows \cap DOMAIN Limits[s] : Used(w, k) >= Limits[s][w]
    \/ \E d \in TokenKinds \cap DOMAIN Limits[s] :
          (TokensUsed(d, k) + r.tokens[d]) % TokenModulus > Limits[s][d]

Denied(s, r) == OverBudget(s, KeyOf(s, r), r)

-----------------------------------------------------------------------------
Lock_Unserialised(c, op, r) ==                                \* mutated
    /\ pc[c] = "idle"
    /\ admission' = c
    /\ pc' = [pc EXCEPT ![c] = op]
    /\ req' = [req EXCEPT ![c] = r]
    /\ todo' = [todo EXCEPT ![c] = ScopesOf(r)]
    /\ UNCHANGED <<now, counters, stamps>>

\* check and try_admit take the admission mutex.
Lock(c, op, r) ==
    /\ pc[c] = "idle" /\ admission = Nobody
    /\ admission' = c
    /\ pc' = [pc EXCEPT ![c] = op]
    /\ req' = [req EXCEPT ![c] = r]
    /\ todo' = [todo EXCEPT ![c] = ScopesOf(r)]
    /\ UNCHANGED <<now, counters, stamps>>

\* check_unlocked, one turn of its loop: the scopes come in any order, and the
\* first that denies ends the call.  What check answers is not kept; what
\* try_admit answers is whether its caller holds anything then.
Evaluate(c, s) ==
    /\ pc[c] \in {"check", "admit"} /\ s \in todo[c]
    /\ Record({KeyOf(s, req[c])}, 0, NoTokens)
    /\ \/ /\ Denied(s, req[c])
          /\ pc' = [pc EXCEPT ![c] = "idle"]
          /\ todo' = [todo EXCEPT ![c] = {}]
          /\ admission' = Nobody
       \/ /\ ~Denied(s, req[c])
          /\ todo' = [todo EXCEPT ![c] = @ \ {s}]
          /\ UNCHANGED <<pc, admission>>
    /\ UNCHANGED <<now, concurrent, req, stamps>>

\* check: every scope agreed.
CheckAllowed(c) ==
    /\ pc[c] = "check" /\ todo[c] = {}
    /\ pc' = [pc EXCEPT ![c] = "idle"]
    /\ admission' = Nobody
    /\ UNCHANGED <<now, counters, req, todo, stamps>>

Reserve(c, K) ==
    /\ Record(K, 1, req[c].tokens)
    /\ concurrent' = [k \in Keys |-> concurrent[k] + IF k \in K THEN 1 ELSE 0]
    /\ stamps' = [k \in Keys |-> IF k \in K THEN Append(stamps[k], now)
                                 ELSE stamps[k]]
    /\ pc' = [pc EXCEPT ![c] = "held"]
    /\ admission' = Nobody
    /\ UNCHANGED <<now, req, todo>>

Admit_OneScope(c) ==                                          \* mutated
    /\ pc[c] = "admit" /\ todo[c] = {}
    /\ \E k \in Charged(req[c]) : Reserve(c, {k})

\* try_admit: with one reading of the clock every counter of the request rises.
Admit(c) == pc[c] = "admit" /\ todo[c] = {} /\ Reserve(c, Charged(req[c]))

\* release, once per admission.  Only the concurrency is given back.
Release(c) ==
    /\ pc[c] = "held" /\ admission = Nobody
    /\ concurrent' = [k \in Keys |->
          IF k \in Charged(req[c]) /\ concurrent[k] > 0
          THEN concurrent[k] - 1 ELSE concurrent[k]]
    /\ pc' = [pc EXCEPT ![c] = "idle"]
    /\ UNCHANGED <<now, start, count, tokens, admission, req, todo, stamps>>

\* The clock, which an operator or a time server may set back; what was admitted
\* before that was admitted by another clock.
Tick(t) ==
    /\ now' = t
    /\ \/ t > now /\ UNCHANGED stamps
       \/ t < now /\ stamps' = [k \in Keys |-> << >>]
    /\ UNCHANGED <<counters, calls>>

Next ==
    \/ \E c \in Callers :
        \/ \E op \in {"check", "admit"}, r \in Requests : Lock(c, op, r)
        \/ \E s \in Scopes : Evaluate(c, s)
        \/ CheckAllowed(c) \/ Admit(c) \/ Release(c)
    \/ \E t \in 0..MaxTime : Tick(t)

Spec == Init /\ [][Next]_vars
-----------------------------------------------------------------------------
\* Nobody is admitted beyond a cap: what is counted for a key in its current
\* window never exceeds the limit of its scope, although the limits of a
\* request's scopes are evaluated one after another and the clock moves between
\* the evaluation and the count.
CapsRespected ==
    \A k \in Keys :
        LET limit == Limits[k[1]]
        IN  /\ "concurrent" \in DOMAIN limit
                  => concurrent[k] <= limit["concurrent"]
            /\ \A w \in Windows \cap DOMAIN limit : count[w][k] <= limit[w]
            /\ \A d \in TokenKinds \cap DOMAIN limit : tokens[d][k] <= limit[d]

\* The concurrency of a key is the number of admissions that hold it: a request
\* is charged to all of its scopes or to none, and release undoes it exactly.
Holders(k) == {c \in Callers : pc[c] = "held" /\ k \in Charged(req[c])}
ConcurrencyIsHeld == \A k \in Keys : concurrent[k] = Cardinality(Holders(k))

\* In whatever minute, hour or day one looks, at most the cap was admitted; and
\* again at most the cap each time the clock is set back.
AdmittedIn(k, w, b) ==
    Cardinality({i \in DOMAIN stamps[k] : stamps[k][i] \div Length[w] = b})
WithinWindows ==
    \A k \in Keys : \A w \in Windows \cap DOMAIN Limits[k[1]] : \A b \in 0..MaxTime :
        AdmittedIn(k, w, b) <= Limits[k[1]][w]

\* Both: no cap of a clock minute, hour or day is exceeded, by the counters or by
\* what was really admitted.
FixedWindowCap == CapsRespected /\ WithinWindows

\* Why it holds, where no sum of tokens wraps: the counter of a window has at least
\* what was admitted in it, and nothing was in a later one; and what try_admit has
\* found for a scope is still true when it counts.  A clock that was set back may
\* leave a counter in a later window, but then nothing was admitted since.
NoOverflow ==
    \A s \in Scopes : \A d \in TokenKinds \cap DOMAIN Limits[s] :
        \A r \in Requests : Limits[s][d] + r.tokens[d] < TokenModulus

CountsCover ==
    \A k \in Keys : \A w \in Windows :
        /\ \A i \in DOMAIN stamps[k] :
             stamps[k][i] \div Length[w] <= start[w][k] /\ start[w][k] <= Current(w)
        /\ AdmittedIn(k, w, start[w][k]) <= count[w][k]

RoomLeft(s, r) ==
    LET k == KeyOf(s, r)
    IN  /\ "concurrent" \in DOMAIN Limits[s]
              => concurrent[k] < Limits[s]["concurrent"]
        /\ \A w \in Windows \cap DOMAIN Limits[s] : count[w][k] < Limits[s][w]
        /\ \A d \in TokenKinds \cap DOMAIN Limits[s] :
              tokens[d][k] + r.tokens[d] <= Limits[s][d]

RoomIsLeft ==
    \A c \in Callers :
        /\ pc[c] \in {"check", "admit"} => todo[c] \subseteq ScopesOf(req[c])
        /\ pc[c] = "admit" =>
              \A s \in ScopesOf(req[c]) \ todo[c] : RoomLeft(s, req[c])

CapInv == TypeOK /\ FixedWindowCap /\ CountsCover /\ RoomIsLeft
=============================================================================
