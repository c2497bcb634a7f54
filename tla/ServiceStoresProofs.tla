-------------------------- MODULE ServiceStoresProofs --------------------------
(* Theorems about ServiceStores for every value of its constants.           *)
EXTENDS ServiceStores, SequenceTheorems, FiniteSetTheorems, TLAPS

-----------------------------------------------------------------------------
(* A step of the composition is a step of each part, or leaves it alone.    *)

LEMMA StepOfEach ==
  ASSUME [Next]_vars
  PROVE  /\ [Events!Next]_(Events!vars)
         /\ [Quotas!Next]_(Quotas!vars)
         /\ [Audit!Next]_(Audit!vars)
  <1>1. UNCHANGED eventVars => UNCHANGED Events!vars
    BY DEF eventVars, Events!vars, Events!emitVars, Events!subVars
  <1>2. UNCHANGED quotaVars => UNCHANGED Quotas!vars
    BY DEF quotaVars, Quotas!vars, Quotas!counters, Quotas!calls
  <1>3. UNCHANGED auditVars => UNCHANGED Audit!vars
    BY DEF auditVars, Audit!vars, Audit!writerVars, Audit!callVars,
           Audit!verifyVars, Audit!sharedVars
  <1>4. CASE OnlyEvents
    BY <1>2, <1>3, <1>4 DEF OnlyEvents
  <1>5. CASE OnlyQuota
    BY <1>1, <1>3, <1>5 DEF OnlyQuota
  <1>6. CASE OnlyAudit
    BY <1>1, <1>2, <1>6 DEF OnlyAudit
  <1>7. CASE UNCHANGED vars
    BY <1>1, <1>2, <1>3, <1>7 DEF vars
  <1> QED
    BY <1>4, <1>5, <1>6, <1>7 DEF Next

-----------------------------------------------------------------------------
(* The event stream of a job.                                               *)

LEMMA PrefixElements ==
  ASSUME NEW s \in Seq(EventIds), NEW t \in Seq(EventIds)
  PROVE  Events!IsPrefix(s, t) <=>
           Len(s) <= Len(t) /\ \A i \in 1..Len(s) : s[i] = t[i]
  <1>0. Len(s) \in Nat /\ Len(t) \in Nat
    BY LenProperties
  <1>1. SubSeq(s, 1, Len(s)) = s
    BY SubSeqFull
  <1> SUFFICES ASSUME Len(s) <= Len(t)
               PROVE  SubSeq(t, 1, Len(s)) = s
                        <=> \A i \in 1..Len(s) : s[i] = t[i]
    BY <1>1 DEF Events!IsPrefix
  <1>2. \A i \in 1..Len(s) : t[i] \in EventIds
    BY <1>0, ElementOfSeq
  <1> DEFINE u == SubSeq(t, 1, Len(s))
  <1>3. /\ u \in Seq(EventIds)
        /\ Len(u) = IF 1 <= Len(s) THEN Len(s) - 1 + 1 ELSE 0
        /\ \A i \in 1..(Len(s) - 1 + 1) : u[i] = t[1 + i - 1]
    BY <1>0, <1>2, SubSeqProperties
  <1> HIDE DEF u
  <1>4. Len(u) = Len(s) /\ \A i \in 1..Len(s) : u[i] = t[i]
    BY <1>0, <1>3
  <1>5. (\A i \in 1..Len(s) : u[i] = s[i]) => u = s
    BY <1>3, <1>4, SeqEqual
  <1>6. u = s <=> \A i \in 1..Len(s) : s[i] = t[i]
    BY <1>4, <1>5
  <1> QED
    BY <1>6 DEF u

LEMMA PrefixGrows ==
  ASSUME NEW s \in Seq(EventIds), NEW t \in Seq(EventIds),
         NEW u \in Seq(EventIds), Events!IsPrefix(s, t)
  PROVE  Events!IsPrefix(s, t \o u)
  <1>1. /\ t \o u \in Seq(EventIds) /\ Len(t \o u) = Len(t) + Len(u)
        /\ \A i \in 1..Len(t) + Len(u) :
             (t \o u)[i] = IF i <= Len(t) THEN t[i] ELSE u[i - Len(t)]
    BY ConcatProperties
  <1>2. Len(s) <= Len(t) /\ \A i \in 1..Len(s) : s[i] = t[i]
    BY PrefixElements
  <1> DEFINE w == t \o u
  <1>3. w \in Seq(EventIds)
    BY <1>1
  <1>4. Len(s) <= Len(w) /\ \A i \in 1..Len(s) : s[i] = w[i]
    BY <1>1, <1>2, LenProperties
  <1> HIDE DEF w
  <1>5. Events!IsPrefix(s, w)
    BY <1>3, <1>4, PrefixElements
  <1> QED
    BY <1>5 DEF w

LEMMA PrefixNext ==
  ASSUME NEW s \in Seq(EventIds), NEW t \in Seq(EventIds),
         Events!IsPrefix(s, t), Len(s) < Len(t)
  PROVE  /\ t[Len(s) + 1] \in EventIds
         /\ Append(s, t[Len(s) + 1]) \in Seq(EventIds)
         /\ Len(Append(s, t[Len(s) + 1])) = Len(s) + 1
         /\ Events!IsPrefix(Append(s, t[Len(s) + 1]), t)
  <1> DEFINE e == t[Len(s) + 1]
             w == Append(s, e)
  <1>0. Len(s) \in Nat /\ Len(t) \in Nat
    BY LenProperties
  <1>1. e \in EventIds
    BY <1>0, ElementOfSeq
  <1>2. /\ w \in Seq(EventIds) /\ Len(w) = Len(s) + 1
        /\ \A i \in 1..Len(s) : w[i] = s[i]
        /\ w[Len(s) + 1] = e
    BY <1>1, AppendProperties
  <1>3. \A i \in 1..Len(s) : s[i] = t[i]
    BY PrefixElements
  <1> HIDE DEF w
  <1>4. Len(w) <= Len(t) /\ \A i \in 1..Len(w) : w[i] = t[i]
    BY <1>0, <1>2, <1>3
  <1>5. Events!IsPrefix(w, t)
    BY <1>2, <1>4, PrefixElements
  <1> QED
    BY <1>1, <1>2, <1>5 DEF w

LEMMA ContainsConcat ==
  ASSUME NEW t \in Seq(EventIds), NEW u \in Seq(EventIds), NEW e,
         Events!Contains(t, e) \/ Events!Contains(u, e)
  PROVE  Events!Contains(t \o u, e)
  <1>0. Len(t) \in Nat /\ Len(u) \in Nat
    BY LenProperties
  <1>1. /\ Len(t \o u) = Len(t) + Len(u)
        /\ \A i \in 1..Len(t) + Len(u) :
             (t \o u)[i] = IF i <= Len(t) THEN t[i] ELSE u[i - Len(t)]
    BY ConcatProperties
  <1>2. ASSUME NEW i \in 1..Len(t), t[i] = e
        PROVE  Events!Contains(t \o u, e)
    <2>1. i \in 1..Len(t) + Len(u) /\ i <= Len(t)
      BY <1>0
    <2> QED
      BY <1>1, <1>2, <2>1 DEF Events!Contains
  <1>3. ASSUME NEW i \in 1..Len(u), u[i] = e
        PROVE  Events!Contains(t \o u, e)
    <2>1. /\ Len(t) + i \in 1..Len(t) + Len(u) /\ ~(Len(t) + i <= Len(t))
          /\ (Len(t) + i) - Len(t) = i
      BY <1>0
    <2> QED
      BY <1>1, <1>3, <2>1 DEF Events!Contains
  <1> QED
    BY <1>2, <1>3 DEF Events!Contains

LEMMA ContainsAppend ==
  ASSUME NEW t \in Seq(EventIds), NEW d \in EventIds, NEW e,
         Events!Contains(Append(t, d), e)
  PROVE  Events!Contains(t, e) \/ e = d
  <1>1. /\ Len(Append(t, d)) = Len(t) + 1
        /\ \A i \in 1..Len(t) : Append(t, d)[i] = t[i]
        /\ Append(t, d)[Len(t) + 1] = d
    BY AppendProperties
  <1>2. PICK i \in 1..Len(t) + 1 : Append(t, d)[i] = e
    BY <1>1 DEF Events!Contains
  <1>3. CASE i = Len(t) + 1
    BY <1>1, <1>2, <1>3
  <1>4. CASE i # Len(t) + 1
    <2>1. i \in 1..Len(t)
      BY <1>4, LenProperties
    <2> QED
      BY <1>1, <1>2, <2>1 DEF Events!Contains
  <1> QED
    BY <1>3, <1>4

LEMMA StreamInit ==
  Init => Events!StreamInv
  <1> SUFFICES ASSUME Events!Init PROVE Events!StreamInv
    BY DEF Init
  <1> USE DEF Events!Init
  <1>1. Events!TypeOK
    BY EmptySeq, ServiceStoresAssumption
       DEF Events!TypeOK, ServiceStoresAssumption, Events!EventsAssumption
  <1>2. Events!NoGap
    BY DEF Events!NoGap
  <1>3. Events!IsPrefix(<< >>, << >>)
    <2>1. << >> \in Seq(EventIds) /\ Len(<< >>) = 0
      BY EmptySeq
    <2> QED
      BY <2>1 DEF Events!IsPrefix
  <1>4. Events!NoSilentHole
    BY <1>3 DEF Events!NoSilentHole
  <1> QED
    BY <1>1, <1>2, <1>4 DEF Events!StreamInv, Events!StreamGapless

\* emit stores an event before any subscription can have missed it.
LEMMA StreamPersist ==
  ASSUME Events!StreamInv, NEW e \in EventIds, Events!Persist(e)
  PROVE  Events!StreamInv'
  <1> USE DEF Events!StreamInv, Events!StreamGapless
  <1>1. /\ UNCHANGED <<sent, channel, spc, fromStart, fed, seen, got,
                       unread>>
        /\ e \notin tried /\ tried' = tried \cup {e}
    BY DEF Events!Persist, Events!subVars
  <1>2. /\ rows' = rows \/ rows' = Append(rows, e)
        /\ faults' \in 0..MaxFaults
    BY ServiceStoresAssumption
       DEF Events!Persist, Events!TypeOK, ServiceStoresAssumption,
           Events!EventsAssumption
  <1>3. rows' \in Seq(EventIds)
    <2>1. rows \in Seq(EventIds)
      BY DEF Events!TypeOK
    <2>2. Append(rows, e) \in Seq(EventIds)
      BY <2>1, AppendProperties
    <2> QED
      BY <1>2, <2>1, <2>2
  <1>4. Events!TypeOK'
    BY <1>1, <1>2, <1>3 DEF Events!TypeOK
  <1>5. ASSUME NEW d \in sent, Events!Contains(rows', d)
        PROVE  Events!Contains(rows, d)
    BY <1>1, <1>2, <1>5, ContainsAppend DEF Events!TypeOK
  <1>6. Events!NoGap'
    BY <1>1, <1>5 DEF Events!NoGap, Events!Contains
  <1>7. Events!NoSilentHole'
    BY <1>1 DEF Events!NoSilentHole, Events!IsPrefix
  <1> QED
    BY <1>1, <1>4, <1>6, <1>7

\* What a step feeds to one channel keeps every receiver's prefix.
LEMMA FeedKeepsPrefix ==
  ASSUME Events!TypeOK, Events!NoSilentHole, NEW s \in Subscribers,
         NEW es \in Seq(EventIds), Events!Feed(s, es), UNCHANGED got
  PROVE  /\ fed' \in [Subscribers -> Seq(EventIds)]
         /\ fed'[s] = fed[s] \o es
         /\ \A t \in Subscribers \ {s} : fed'[t] = fed[t]
         /\ Events!NoSilentHole'
  <1>1. /\ fed' \in [Subscribers -> Seq(EventIds)]
        /\ fed'[s] = fed[s] \o es
        /\ \A t \in Subscribers \ {s} : fed'[t] = fed[t]
    BY ConcatProperties DEF Events!Feed, Events!TypeOK
  <1>2. ASSUME NEW t \in Subscribers
        PROVE  Events!IsPrefix(got[t], fed'[t])
    <2>1. /\ got[t] \in Seq(EventIds) /\ fed[t] \in Seq(EventIds)
          /\ Events!IsPrefix(got[t], fed[t])
      BY DEF Events!NoSilentHole, Events!TypeOK
    <2>2. Events!IsPrefix(got[t], fed[t] \o es)
      BY <2>1, PrefixGrows
    <2> QED
      BY <1>1, <2>1, <2>2
  <1>3. Events!NoSilentHole'
    BY <1>2 DEF Events!NoSilentHole, Events!IsPrefix
  <1> QED
    BY <1>1, <1>3

LEMMA StreamSend ==
  ASSUME Events!StreamInv, NEW e \in EventIds, Events!Send(e)
  PROVE  Events!StreamInv'
  <1> USE DEF Events!StreamInv, Events!StreamGapless
  <1>1. /\ UNCHANGED <<rows, tried, channel, spc, fromStart, seen, got,
                       unread, faults>>
        /\ sent' = sent \cup {e} /\ sent' \subseteq tried'
    BY DEF Events!Send
  <1>2. CASE channel = NoSubscriber
    <2>1. UNCHANGED fed
      BY <1>2 DEF Events!Send
    <2>2. Events!TypeOK'
      BY <1>1, <2>1 DEF Events!TypeOK
    <2>3. Events!NoGap'
      BY <1>1, <1>2, ServiceStoresAssumption
         DEF Events!NoGap, ServiceStoresAssumption, Events!EventsAssumption
    <2>4. Events!NoSilentHole'
      BY <1>1, <2>1 DEF Events!NoSilentHole, Events!IsPrefix
    <2> QED
      BY <1>1, <2>2, <2>3, <2>4
  <1>3. CASE channel # NoSubscriber
    <2>1. channel \in Subscribers /\ Events!Feed(channel, <<e>>)
      BY <1>3 DEF Events!Send, Events!TypeOK
    <2>2. <<e>> \in Seq(EventIds) /\ Events!Contains(<<e>>, e)
      BY DEF Events!Contains
    <2>3. /\ fed' \in [Subscribers -> Seq(EventIds)]
          /\ fed'[channel] = fed[channel] \o <<e>>
          /\ Events!NoSilentHole'
      BY <1>1, <2>1, <2>2, FeedKeepsPrefix
    <2>4. Events!TypeOK'
      BY <1>1, <2>3 DEF Events!TypeOK
    <2>5. ASSUME fromStart[channel], spc[channel] = "stream",
                 NEW d \in sent', Events!Contains(rows, d)
          PROVE  Events!Contains(fed'[channel], d)
      BY <1>1, <2>1, <2>2, <2>3, <2>5, ContainsConcat
         DEF Events!NoGap, Events!TypeOK
    <2>6. Events!NoGap'
      BY <1>1, <2>5 DEF Events!NoGap, Events!Contains
    <2> QED
      BY <1>1, <2>3, <2>4, <2>6
  <1> QED
    BY <1>2, <1>3

\* A new sender in place is either still to replay or was asked for no history.
LEMMA StreamSubscribe ==
  ASSUME Events!StreamInv, NEW s \in Subscribers, NEW from \in BOOLEAN,
         Events!Subscribe(s, from)
  PROVE  Events!StreamInv'
  <1> USE DEF Events!StreamInv, Events!StreamGapless
  <1>1. /\ UNCHANGED <<rows, tried, sent, fed, seen, got, unread, faults>>
        /\ channel' = s
        /\ fromStart' = [fromStart EXCEPT ![s] = from]
        /\ spc' = [spc EXCEPT ![s] = IF from THEN "replay" ELSE "stream"]
    BY DEF Events!Subscribe, Events!emitVars
  <1>2. Events!TypeOK'
    BY <1>1 DEF Events!TypeOK
  <1>3. fromStart'[s] => spc'[s] = "replay"
    BY <1>1 DEF Events!TypeOK
  <1>4. Events!NoGap'
    BY <1>1, <1>3 DEF Events!NoGap
  <1>5. Events!NoSilentHole'
    BY <1>1 DEF Events!NoSilentHole, Events!IsPrefix
  <1> QED
    BY <1>1, <1>2, <1>4, <1>5

\* The replay closes the gap: every stored row is fed.
LEMMA StreamReplay ==
  ASSUME Events!StreamInv, NEW s \in Subscribers, Events!Replay(s)
  PROVE  Events!StreamInv'
  <1> USE DEF Events!StreamInv, Events!StreamGapless
  <1>1. UNCHANGED <<rows, tried, sent, channel, fromStart, seen, got, unread>>
    BY DEF Events!Replay, Events!emitVars
  <1>2. CASE /\ Events!Feed(s, rows)
             /\ spc' = [spc EXCEPT ![s] = "stream"]
             /\ UNCHANGED faults
    <2>1. /\ fed' \in [Subscribers -> Seq(EventIds)]
          /\ fed'[s] = fed[s] \o rows
          /\ \A t \in Subscribers \ {s} : fed'[t] = fed[t]
          /\ Events!NoSilentHole'
      BY <1>1, <1>2, FeedKeepsPrefix DEF Events!TypeOK
    <2>2. Events!TypeOK'
      BY <1>1, <1>2, <2>1 DEF Events!TypeOK
    <2>3. ASSUME NEW d, Events!Contains(rows, d)
          PROVE  Events!Contains(fed'[s], d)
      BY <2>1, <2>3, ContainsConcat DEF Events!TypeOK
    <2>4. ASSUME NEW t \in Subscribers \ {s}, channel = t, fromStart[t],
                 spc'[t] = "stream", NEW d \in sent, Events!Contains(rows, d)
          PROVE  Events!Contains(fed'[t], d)
      BY <1>2, <2>1, <2>4 DEF Events!NoGap, Events!TypeOK
    <2>5. Events!NoGap'
      BY <1>1, <2>3, <2>4 DEF Events!NoGap, Events!Contains
    <2> QED
      BY <1>1, <2>1, <2>2, <2>5
  <1>3. CASE /\ faults < MaxFaults /\ faults' = faults + 1
             /\ spc' = [spc EXCEPT ![s] = "error"]
             /\ UNCHANGED fed
    <2>1. Events!TypeOK'
      BY <1>1, <1>3, ServiceStoresAssumption
         DEF Events!TypeOK, ServiceStoresAssumption, Events!EventsAssumption
    <2>0. ASSUME NEW t \in Subscribers, spc'[t] = "stream"
          PROVE  spc[t] = "stream"
      BY <1>3, <2>0 DEF Events!TypeOK
    <2>2. Events!NoGap'
      BY <1>1, <1>3, <2>0 DEF Events!NoGap, Events!Contains
    <2>3. Events!NoSilentHole'
      BY <1>1, <1>3 DEF Events!NoSilentHole, Events!IsPrefix
    <2> QED
      BY <1>1, <2>1, <2>2, <2>3
  <1> QED
    BY <1>2, <1>3 DEF Events!Replay

LEMMA StreamReceive ==
  ASSUME Events!StreamInv, NEW s \in Subscribers, Events!Receive(s)
  PROVE  Events!StreamInv'
  <1> USE DEF Events!StreamInv, Events!StreamGapless
  <1>1. /\ UNCHANGED <<rows, tried, sent, channel, spc, fromStart, fed, faults>>
        /\ seen' = [seen EXCEPT ![s] = @ + 1]
        /\ got' = [got EXCEPT ![s] = Append(@, fed[s][seen[s] + 1])]
        /\ seen[s] < Len(fed[s])
        /\ unread[s] <= Outbox /\ unread' = [unread EXCEPT ![s] = @ + 1]
    BY ServiceStoresAssumption
       DEF Events!Receive, Events!emitVars, Events!Blocked, Events!Passed,
           ServiceStoresAssumption, Events!EventsAssumption, Events!TypeOK
  <1>2. /\ got[s] \in Seq(EventIds) /\ fed[s] \in Seq(EventIds)
        /\ seen[s] = Len(got[s]) /\ Events!IsPrefix(got[s], fed[s])
    BY DEF Events!TypeOK, Events!NoSilentHole
  <1>3. /\ got'[s] \in Seq(EventIds)
        /\ Len(got'[s]) = seen[s] + 1
        /\ Events!IsPrefix(got'[s], fed[s])
    BY <1>1, <1>2, PrefixNext DEF Events!TypeOK
  <1>7. unread' \in [Subscribers -> 0..Outbox + 1]
    BY <1>1, ServiceStoresAssumption
       DEF ServiceStoresAssumption, Events!EventsAssumption, Events!TypeOK
  <1>4. Events!TypeOK'
    BY <1>1, <1>3, <1>7 DEF Events!TypeOK
  <1>5. Events!NoSilentHole'
    BY <1>1, <1>3 DEF Events!NoSilentHole, Events!IsPrefix, Events!TypeOK
  <1>6. Events!NoGap'
    BY <1>1 DEF Events!NoGap, Events!Contains
  <1> QED
    BY <1>1, <1>4, <1>5, <1>6

LEMMA StreamStop ==
  ASSUME Events!StreamInv, NEW s \in Subscribers,
         Events!StreamEnd(s) \/ Events!Disconnect(s)
  PROVE  Events!StreamInv'
  <1> USE DEF Events!StreamInv, Events!StreamGapless
  <1>1. /\ UNCHANGED <<rows, tried, sent, channel, fromStart, fed, seen, got,
                       unread, faults>>
        /\ \/ spc' = [spc EXCEPT ![s] = "ended"]
           \/ spc' = [spc EXCEPT ![s] = "gone"]
    BY DEF Events!StreamEnd, Events!Disconnect, Events!emitVars
  <1>2. Events!TypeOK'
    BY <1>1 DEF Events!TypeOK
  <1>0. ASSUME NEW t \in Subscribers, spc'[t] = "stream"
        PROVE  spc[t] = "stream"
    BY <1>1, <1>0 DEF Events!TypeOK
  <1>3. Events!NoGap'
    BY <1>1, <1>0 DEF Events!NoGap, Events!Contains
  <1>4. Events!NoSilentHole'
    BY <1>1 DEF Events!NoSilentHole, Events!IsPrefix
  <1> QED
    BY <1>1, <1>2, <1>3, <1>4

LEMMA StreamRead ==
  ASSUME Events!StreamInv, NEW s \in Subscribers, Events!ClientRead(s)
  PROVE  Events!StreamInv'
  <1> USE DEF Events!StreamInv, Events!StreamGapless
  <1>1. /\ UNCHANGED <<rows, tried, sent, channel, spc, fromStart, fed, seen, got,
                       faults>>
        /\ unread[s] > 0 /\ unread' = [unread EXCEPT ![s] = @ - 1]
    BY DEF Events!ClientRead, Events!emitVars
  <1>2. unread' \in [Subscribers -> 0..Outbox + 1]
    BY <1>1, ServiceStoresAssumption
       DEF ServiceStoresAssumption, Events!EventsAssumption, Events!TypeOK
  <1>3. Events!TypeOK'
    BY <1>1, <1>2 DEF Events!TypeOK
  <1>4. Events!NoGap' /\ Events!NoSilentHole'
    BY <1>1 DEF Events!NoGap, Events!Contains, Events!NoSilentHole,
                Events!IsPrefix
  <1> QED
    BY <1>1, <1>3, <1>4

LEMMA StreamStep ==
  Events!StreamInv /\ [Events!Next]_(Events!vars) => Events!StreamInv'
  <1> SUFFICES ASSUME Events!StreamInv, [Events!Next]_(Events!vars)
               PROVE  Events!StreamInv'
    OBVIOUS
  <1>1. CASE UNCHANGED Events!vars
    BY <1>1 DEF Events!vars, Events!emitVars, Events!subVars, Events!StreamInv,
                Events!TypeOK, Events!StreamGapless, Events!NoGap,
                Events!NoSilentHole, Events!Contains, Events!IsPrefix
  <1>2. CASE Events!Next
    BY <1>2, StreamPersist, StreamSend, StreamSubscribe, StreamReplay,
       StreamReceive, StreamStop, StreamRead DEF Events!Next
  <1> QED
    BY <1>1, <1>2

\* A subscriber that asked for the history and is the one in place has been sent
\* every stored event whose emission is over, and what any caller received is a
\* beginning of what its channel was sent.
THEOREM StreamGaplessInv == Spec => []StreamGapless
  <1>1. Events!StreamInv /\ [Next]_vars => Events!StreamInv'
    BY StepOfEach, StreamStep
  <1>2. Events!StreamInv => StreamGapless
    BY DEF Events!StreamInv, StreamGapless
  <1> QED
    BY <1>1, <1>2, StreamInit, PTL DEF Spec

-----------------------------------------------------------------------------
(* The quotas: the keys of a request and the counters of a key.             *)

LEMMA SameCardinality ==
  /\ \A S : Quotas!Cardinality(S) = Cardinality(S)
  /\ \A S : Quotas!IsFiniteSet(S) <=> IsFiniteSet(S)
  BY DEF Quotas!Cardinality, Cardinality, Quotas!IsFiniteSet, IsFiniteSet

LEMMA QuotaFacts ==
  /\ Nobody \notin Callers /\ IsFiniteSet(Callers) /\ Requests # {}
  /\ Length \in [Quotas!Windows -> Nat \ {0}]
  /\ TokenModulus \in Nat \ {0} /\ MaxTime \in Nat
  /\ \A s \in Quotas!Scopes : \A cap \in DOMAIN Limits[s] : Limits[s][cap] \in Nat
  /\ \A r \in Requests : \A d \in Quotas!TokenKinds : r.tokens[d] \in Nat
  BY ServiceStoresAssumption, SameCardinality
     DEF ServiceStoresAssumption, Quotas!QuotaAssumption

LEMMA KeyFacts ==
  ASSUME NEW r \in Requests
  PROVE  /\ Quotas!Charged(r) \subseteq Quotas!Keys
         /\ \A s \in Quotas!ScopesOf(r) :
              /\ s \in Quotas!Scopes
              /\ Quotas!KeyOf(s, r) \in Quotas!Charged(r)
              /\ Quotas!KeyOf(s, r)[1] = s
         /\ \A k \in Quotas!Charged(r) :
              k[1] \in Quotas!ScopesOf(r) /\ k = Quotas!KeyOf(k[1], r)
  BY DEF Quotas!Keys, Quotas!Charged, Quotas!KeyOf, Quotas!ScopesOf

LEMMA KeyScope ==
  \A k \in Quotas!Keys : k[1] \in Quotas!Scopes
  BY KeyFacts DEF Quotas!Keys

LEMMA ClockWindow ==
  ASSUME Quotas!TypeOK, NEW w \in Quotas!Windows
  PROVE  Quotas!Current(w) \in Nat
  <1>1. now \in Nat /\ Length[w] \in Nat \ {0}
    BY QuotaFacts DEF Quotas!TypeOK
  <1> QED
    BY <1>1 DEF Quotas!Current

LEMMA RecordType ==
  ASSUME Quotas!TypeOK, NEW K, NEW n \in Nat, NEW spent,
         \A d \in Quotas!TokenKinds : spent[d] \in Nat,
         Quotas!Record(K, n, spent)
  PROVE  /\ start' \in [Quotas!Windows -> [Quotas!Keys -> Nat]]
         /\ count' \in [Quotas!Windows -> [Quotas!Keys -> Nat]]
         /\ tokens' \in [Quotas!TokenKinds -> [Quotas!Keys -> Nat]]
  <1>1. ASSUME NEW w \in Quotas!Windows, NEW k \in Quotas!Keys
        PROVE  /\ Quotas!Current(w) \in Nat /\ start[w][k] \in Nat
               /\ Quotas!Used(w, k) + n \in Nat /\ count[w][k] \in Nat
    BY ClockWindow DEF Quotas!TypeOK, Quotas!Used
  <1>2. ASSUME NEW d \in Quotas!TokenKinds, NEW k \in Quotas!Keys
        PROVE  /\ (Quotas!TokensUsed(d, k) + spent[d]) % TokenModulus \in Nat
               /\ tokens[d][k] \in Nat
    <2>1. Quotas!TokensUsed(d, k) \in Nat /\ spent[d] \in Nat
          /\ tokens[d][k] \in Nat
      BY DEF Quotas!TypeOK, Quotas!TokensUsed
    <2> QED
      BY <2>1, QuotaFacts
  <1> QED
    BY <1>1, <1>2 DEF Quotas!Record

LEMMA QuotaTypeInit ==
  Quotas!Init => Quotas!TypeOK
  <1> SUFFICES ASSUME Quotas!Init PROVE Quotas!TypeOK
    OBVIOUS
  <1>1. (CHOOSE r \in Requests : TRUE) \in Requests
    BY QuotaFacts
  <1>2. << >> \in Seq(0..MaxTime)
    BY EmptySeq
  <1> QED
    BY <1>1, <1>2, QuotaFacts DEF Quotas!Init, Quotas!TypeOK

-----------------------------------------------------------------------------
(* The quotas: the admission mutex has one owner, and everything its type.  *)

LEMMA LockType ==
  ASSUME Quotas!TypeOK, NEW c \in Callers, NEW op \in {"check", "admit"},
         NEW r \in Requests, Quotas!Lock(c, op, r)
  PROVE  Quotas!TypeOK'
  <1>1. Quotas!ScopesOf(r) \in SUBSET Quotas!Scopes
    BY DEF Quotas!ScopesOf
  <1> QED
    BY <1>1, QuotaFacts DEF Quotas!TypeOK, Quotas!Lock, Quotas!counters

LEMMA EvaluateType ==
  ASSUME Quotas!TypeOK, NEW c \in Callers, NEW s \in Quotas!Scopes,
         Quotas!Evaluate(c, s)
  PROVE  Quotas!TypeOK'
  <1>1. /\ start' \in [Quotas!Windows -> [Quotas!Keys -> Nat]]
        /\ count' \in [Quotas!Windows -> [Quotas!Keys -> Nat]]
        /\ tokens' \in [Quotas!TokenKinds -> [Quotas!Keys -> Nat]]
    <2>1. 0 \in Nat /\ \A d \in Quotas!TokenKinds : Quotas!NoTokens[d] \in Nat
      BY DEF Quotas!NoTokens
    <2>2. Quotas!Record({Quotas!KeyOf(s, req[c])}, 0, Quotas!NoTokens)
      BY DEF Quotas!Evaluate
    <2> QED
      BY <2>1, <2>2, RecordType
  <1>2. UNCHANGED <<now, concurrent, req, stamps>> /\ admission = c
    BY DEF Quotas!Evaluate, Quotas!TypeOK
  <1>3. CASE /\ pc' = [pc EXCEPT ![c] = "idle"]
             /\ todo' = [todo EXCEPT ![c] = {}]
             /\ admission' = Nobody
    BY <1>1, <1>2, <1>3, QuotaFacts DEF Quotas!TypeOK
  <1>4. CASE /\ todo' = [todo EXCEPT ![c] = @ \ {s}]
             /\ UNCHANGED <<pc, admission>>
    BY <1>1, <1>2, <1>4 DEF Quotas!TypeOK
  <1> QED
    BY <1>3, <1>4 DEF Quotas!Evaluate

LEMMA CheckAllowedType ==
  ASSUME Quotas!TypeOK, NEW c \in Callers, Quotas!CheckAllowed(c)
  PROVE  Quotas!TypeOK'
  BY QuotaFacts DEF Quotas!TypeOK, Quotas!CheckAllowed, Quotas!counters

LEMMA AdmitType ==
  ASSUME Quotas!TypeOK, NEW c \in Callers, Quotas!Admit(c)
  PROVE  Quotas!TypeOK'
  <1> DEFINE K == Quotas!Charged(req[c])
  <1>1. /\ start' \in [Quotas!Windows -> [Quotas!Keys -> Nat]]
        /\ count' \in [Quotas!Windows -> [Quotas!Keys -> Nat]]
        /\ tokens' \in [Quotas!TokenKinds -> [Quotas!Keys -> Nat]]
    <2>1. \A d \in Quotas!TokenKinds : req[c].tokens[d] \in Nat
      BY QuotaFacts DEF Quotas!TypeOK
    <2> QED
      BY <2>1, RecordType DEF Quotas!Admit, Quotas!Reserve
  <1>2. ASSUME NEW k \in Quotas!Keys
        PROVE  /\ stamps[k] \in Seq(0..MaxTime)
               /\ Append(stamps[k], now) \in Seq(0..MaxTime)
    <2>1. stamps[k] \in Seq(0..MaxTime) /\ now \in 0..MaxTime
      BY DEF Quotas!TypeOK
    <2> QED
      BY <2>1, AppendProperties
  <1>3. stamps' \in [Quotas!Keys -> Seq(0..MaxTime)]
    BY <1>2 DEF Quotas!Admit, Quotas!Reserve
  <1>4. concurrent' \in [Quotas!Keys -> Nat]
    BY DEF Quotas!Admit, Quotas!Reserve, Quotas!TypeOK
  <1>5. /\ UNCHANGED <<now, req, todo>> /\ admission = c
        /\ pc' = [pc EXCEPT ![c] = "held"]
        /\ admission' = Nobody
    BY DEF Quotas!Admit, Quotas!Reserve, Quotas!TypeOK
  <1> QED
    BY <1>1, <1>3, <1>4, <1>5, QuotaFacts DEF Quotas!TypeOK

LEMMA ReleaseType ==
  ASSUME Quotas!TypeOK, NEW c \in Callers, Quotas!Release(c)
  PROVE  Quotas!TypeOK'
  <1>1. concurrent' \in [Quotas!Keys -> Nat]
    BY DEF Quotas!Release, Quotas!TypeOK
  <1>2. /\ pc' = [pc EXCEPT ![c] = "idle"] /\ pc[c] = "held"
        /\ UNCHANGED <<now, start, count, tokens, admission, req, todo, stamps>>
    BY DEF Quotas!Release
  <1> QED
    BY <1>1, <1>2 DEF Quotas!TypeOK

LEMMA TickType ==
  ASSUME Quotas!TypeOK, NEW t \in 0..MaxTime, Quotas!Tick(t)
  PROVE  Quotas!TypeOK'
  <1>1. UNCHANGED <<concurrent, start, count, tokens, admission, pc, req, todo>>
        /\ now' = t
    BY DEF Quotas!Tick, Quotas!counters, Quotas!calls
  <1>2. stamps' \in [Quotas!Keys -> Seq(0..MaxTime)]
    BY EmptySeq DEF Quotas!Tick, Quotas!TypeOK
  <1> QED
    BY <1>1, <1>2 DEF Quotas!TypeOK

-----------------------------------------------------------------------------
(* The quotas: what is reserved is what is held.                            *)

LEMMA HoldersFinite ==
  \A k : IsFiniteSet(Quotas!Holders(k))
  BY QuotaFacts, FS_Subset DEF Quotas!Holders

\* A step that neither begins nor ends an admission.
LEMMA HoldersKept ==
  ASSUME Quotas!ConcurrencyIsHeld, UNCHANGED concurrent,
         \A c \in Callers :
            \/ pc'[c] = pc[c] /\ req'[c] = req[c]
            \/ pc[c] # "held" /\ pc'[c] # "held"
  PROVE  Quotas!ConcurrencyIsHeld'
  <1>1. ASSUME NEW k PROVE Quotas!Holders(k)' = Quotas!Holders(k)
    BY DEF Quotas!Holders, Quotas!Charged, Quotas!KeyOf, Quotas!ScopesOf,
           Quotas!Applies, Quotas!Scopes
  <1> QED
    BY <1>1 DEF Quotas!ConcurrencyIsHeld, Quotas!Keys, Quotas!Charged,
                Quotas!KeyOf, Quotas!ScopesOf, Quotas!Applies, Quotas!Scopes

LEMMA AdmitCounted ==
  ASSUME Quotas!TypeOK, Quotas!ConcurrencyIsHeld, NEW c \in Callers,
         Quotas!Admit(c)
  PROVE  Quotas!ConcurrencyIsHeld'
  <1>1. /\ pc[c] = "admit" /\ pc' = [pc EXCEPT ![c] = "held"] /\ req' = req
        /\ concurrent' = [k \in Quotas!Keys |-> concurrent[k] +
                            IF k \in Quotas!Charged(req[c]) THEN 1 ELSE 0]
    BY DEF Quotas!Admit, Quotas!Reserve
  <1>2. ASSUME NEW k \in Quotas!Keys
        PROVE  concurrent'[k] = Quotas!Cardinality(Quotas!Holders(k)')
    <2>1. c \notin Quotas!Holders(k)
      BY <1>1 DEF Quotas!Holders
    <2>2. concurrent[k] = Cardinality(Quotas!Holders(k)) /\ concurrent[k] \in Nat
      BY SameCardinality DEF Quotas!ConcurrencyIsHeld, Quotas!TypeOK
    <2>3. CASE k \in Quotas!Charged(req[c])
      <3>1. Quotas!Holders(k)' = Quotas!Holders(k) \cup {c}
        BY <1>1, <2>3 DEF Quotas!Holders, Quotas!TypeOK, Quotas!Charged,
           Quotas!KeyOf, Quotas!ScopesOf, Quotas!Applies, Quotas!Scopes
      <3>2. Cardinality(Quotas!Holders(k) \cup {c})
              = Cardinality(Quotas!Holders(k)) + 1
        BY <2>1, HoldersFinite, FS_AddElement
      <3>3. concurrent'[k] = concurrent[k] + 1
        BY <1>1, <2>3
      <3> QED
        BY <2>2, <3>1, <3>2, <3>3, SameCardinality
    <2>4. CASE k \notin Quotas!Charged(req[c])
      <3>1. Quotas!Holders(k)' = Quotas!Holders(k)
        BY <1>1, <2>4 DEF Quotas!Holders, Quotas!TypeOK, Quotas!Charged,
           Quotas!KeyOf, Quotas!ScopesOf, Quotas!Applies, Quotas!Scopes
      <3>2. concurrent'[k] = concurrent[k]
        BY <1>1, <2>2, <2>4
      <3> QED
        BY <2>2, <3>1, <3>2, SameCardinality
    <2> QED
      BY <2>3, <2>4
  <1> QED
    BY <1>2 DEF Quotas!ConcurrencyIsHeld, Quotas!Keys, Quotas!Charged,
                Quotas!KeyOf, Quotas!ScopesOf, Quotas!Applies, Quotas!Scopes

LEMMA ReleaseCounted ==
  ASSUME Quotas!TypeOK, Quotas!ConcurrencyIsHeld, NEW c \in Callers,
         Quotas!Release(c)
  PROVE  Quotas!ConcurrencyIsHeld'
  <1>1. /\ pc[c] = "held" /\ pc' = [pc EXCEPT ![c] = "idle"] /\ req' = req
        /\ concurrent' = [k \in Quotas!Keys |->
             IF k \in Quotas!Charged(req[c]) /\ concurrent[k] > 0
             THEN concurrent[k] - 1 ELSE concurrent[k]]
    BY DEF Quotas!Release
  <1>2. ASSUME NEW k \in Quotas!Keys
        PROVE  concurrent'[k] = Quotas!Cardinality(Quotas!Holders(k)')
    <2>2. concurrent[k] = Cardinality(Quotas!Holders(k)) /\ concurrent[k] \in Nat
      BY SameCardinality DEF Quotas!ConcurrencyIsHeld, Quotas!TypeOK
    <2>3. CASE k \in Quotas!Charged(req[c])
      <3>1. Quotas!Holders(k)' = Quotas!Holders(k) \ {c}
        BY <1>1, <2>3 DEF Quotas!Holders, Quotas!TypeOK, Quotas!Charged,
           Quotas!KeyOf, Quotas!ScopesOf, Quotas!Applies, Quotas!Scopes
      <3>2. c \in Quotas!Holders(k)
        BY <1>1, <2>3 DEF Quotas!Holders
      <3>3. Cardinality(Quotas!Holders(k) \ {c})
              = Cardinality(Quotas!Holders(k)) - 1
        BY <3>2, HoldersFinite, FS_RemoveElement
      <3>4. Cardinality(Quotas!Holders(k)) # 0
        BY <3>2, HoldersFinite, FS_EmptySet
      <3>5. concurrent'[k] = concurrent[k] - 1
        BY <1>1, <2>2, <2>3, <3>4
      <3> QED
        BY <2>2, <3>1, <3>3, <3>5, SameCardinality
    <2>4. CASE k \notin Quotas!Charged(req[c])
      <3>1. Quotas!Holders(k)' = Quotas!Holders(k)
        BY <1>1, <2>4 DEF Quotas!Holders, Quotas!TypeOK, Quotas!Charged,
           Quotas!KeyOf, Quotas!ScopesOf, Quotas!Applies, Quotas!Scopes
      <3>2. concurrent'[k] = concurrent[k]
        BY <1>1, <2>4
      <3> QED
        BY <2>2, <3>1, <3>2, SameCardinality
    <2> QED
      BY <2>3, <2>4
  <1> QED
    BY <1>2 DEF Quotas!ConcurrencyIsHeld, Quotas!Keys, Quotas!Charged,
                Quotas!KeyOf, Quotas!ScopesOf, Quotas!Applies, Quotas!Scopes

LEMMA QuotaStep ==
  Quotas!TypeOK /\ Quotas!ConcurrencyIsHeld /\ [Quotas!Next]_(Quotas!vars)
    => Quotas!TypeOK' /\ Quotas!ConcurrencyIsHeld'
  <1> SUFFICES ASSUME Quotas!TypeOK, Quotas!ConcurrencyIsHeld,
                      [Quotas!Next]_(Quotas!vars)
               PROVE  Quotas!TypeOK' /\ Quotas!ConcurrencyIsHeld'
    OBVIOUS
  <1>1. ASSUME NEW c \in Callers, NEW op \in {"check", "admit"},
               NEW r \in Requests, Quotas!Lock(c, op, r)
        PROVE  Quotas!ConcurrencyIsHeld'
    BY <1>1, HoldersKept DEF Quotas!Lock, Quotas!counters, Quotas!TypeOK
  <1>2. ASSUME NEW c \in Callers, NEW s \in Quotas!Scopes, Quotas!Evaluate(c, s)
        PROVE  Quotas!ConcurrencyIsHeld'
    BY <1>2, HoldersKept DEF Quotas!Evaluate, Quotas!TypeOK
  <1>3. ASSUME NEW c \in Callers, Quotas!CheckAllowed(c)
        PROVE  Quotas!ConcurrencyIsHeld'
    BY <1>3, HoldersKept DEF Quotas!CheckAllowed, Quotas!counters, Quotas!TypeOK
  <1>4. ASSUME NEW t \in 0..MaxTime, Quotas!Tick(t)
        PROVE  Quotas!ConcurrencyIsHeld'
    BY <1>4, HoldersKept DEF Quotas!Tick, Quotas!counters, Quotas!calls
  <1>5. CASE UNCHANGED Quotas!vars
    <2>1. Quotas!ConcurrencyIsHeld'
      BY <1>5, HoldersKept DEF Quotas!vars, Quotas!counters, Quotas!calls
    <2>2. Quotas!TypeOK'
      BY <1>5 DEF Quotas!vars, Quotas!counters, Quotas!calls, Quotas!TypeOK
    <2> QED
      BY <2>1, <2>2
  <1>6. CASE Quotas!Next
    BY <1>1, <1>2, <1>3, <1>4, <1>6, LockType, EvaluateType, CheckAllowedType,
       AdmitType, ReleaseType, TickType, AdmitCounted, ReleaseCounted
       DEF Quotas!Next
  <1> QED
    BY <1>5, <1>6

\* The concurrency counter of every key is the number of admissions that hold
\* it, however calls, denials and releases follow each other.
THEOREM ConcurrencyInv == Spec => []ConcurrencyIsHeld
  <1> DEFINE I == Quotas!TypeOK /\ Quotas!ConcurrencyIsHeld
  <1>1. Init => I
    <2> SUFFICES ASSUME Quotas!Init PROVE Quotas!ConcurrencyIsHeld
      BY QuotaTypeInit DEF Init
    <2>1. ASSUME NEW k \in Quotas!Keys PROVE Quotas!Holders(k) = {}
      BY DEF Quotas!Init, Quotas!Holders
    <2> QED
      BY <2>1, FS_EmptySet, SameCardinality
         DEF Quotas!Init, Quotas!ConcurrencyIsHeld
  <1>2. I /\ [Next]_vars => I'
    BY StepOfEach, QuotaStep
  <1>3. I => ConcurrencyIsHeld
    BY DEF ConcurrencyIsHeld
  <1> QED
    BY <1>1, <1>2, <1>3, PTL DEF Spec

-----------------------------------------------------------------------------
(* The quotas: the caps.                                                    *)

LEMMA DivisionMonotonic ==
  ASSUME NEW x \in Nat, NEW y \in Nat, NEW n \in Nat \ {0}, x <= y
  PROVE  x \div n <= y \div n
  BY SMT

LEMMA RemainderSmall ==
  ASSUME NEW x \in Nat, NEW n \in Nat \ {0}, x < n
  PROVE  x % n = x
  BY SMT

\* How many times of a sequence fall into window b of length n.
Tally(q, n, b) == Cardinality({i \in DOMAIN q : q[i] \div n = b})

LEMMA AdmittedIsTally ==
  \A k, w, b : /\ Quotas!AdmittedIn(k, w, b) = Tally(stamps[k], Length[w], b)
               /\ Quotas!AdmittedIn(k, w, b)' = Tally(stamps'[k], Length[w], b)
  BY SameCardinality DEF Quotas!AdmittedIn, Tally

LEMMA TallyFinite ==
  ASSUME NEW q \in Seq(0..MaxTime), NEW n, NEW b
  PROVE  IsFiniteSet({i \in DOMAIN q : q[i] \div n = b})
  <1>1. DOMAIN q = 1..Len(q) /\ Len(q) \in Nat
    BY LenProperties
  <1>2. IsFiniteSet(DOMAIN q)
    BY <1>1, FS_Interval
  <1> QED
    BY <1>2, FS_Subset

LEMMA TallyNone ==
  ASSUME NEW q \in Seq(0..MaxTime), NEW n, NEW b,
         \A i \in DOMAIN q : q[i] \div n # b
  PROVE  Tally(q, n, b) = 0
  <1>1. {i \in DOMAIN q : q[i] \div n = b} = {}
    OBVIOUS
  <1> QED
    BY <1>1, FS_EmptySet DEF Tally

LEMMA TallyAppend ==
  ASSUME NEW q \in Seq(0..MaxTime), NEW t \in 0..MaxTime, NEW n, NEW b
  PROVE  Tally(Append(q, t), n, b) =
           Tally(q, n, b) + IF t \div n = b THEN 1 ELSE 0
  <1> DEFINE p == Append(q, t)
             S == {i \in DOMAIN q : q[i] \div n = b}
  <1>1. DOMAIN q = 1..Len(q) /\ Len(q) \in Nat
    BY LenProperties
  <1>2. /\ p \in Seq(0..MaxTime) /\ Len(p) = Len(q) + 1
        /\ \A i \in 1..Len(q) : p[i] = q[i]
        /\ p[Len(q) + 1] = t
    BY AppendProperties
  <1>3. DOMAIN p = 1..(Len(q) + 1)
    BY <1>2, LenProperties
  <1>4. IsFiniteSet(S) /\ Len(q) + 1 \notin S /\ Cardinality(S) \in Nat
    <2>1. IsFiniteSet(S)
      BY TallyFinite
    <2>2. Len(q) + 1 \notin S
      BY <1>1
    <2> HIDE DEF S
    <2> QED
      BY <2>1, <2>2, FS_CardinalityType
  <1> HIDE DEF p
  <1>5. CASE t \div n = b
    <2>1. {i \in DOMAIN p : p[i] \div n = b} = S \cup {Len(q) + 1}
      BY <1>1, <1>2, <1>3, <1>5
    <2> QED
      BY <1>4, <1>5, <2>1, FS_AddElement DEF Tally, p
  <1>6. CASE t \div n # b
    <2>1. {i \in DOMAIN p : p[i] \div n = b} = S
      BY <1>1, <1>2, <1>3, <1>6
    <2>2. Tally(p, n, b) = Cardinality(S) /\ Tally(q, n, b) = Cardinality(S)
      BY <2>1 DEF Tally
    <2> QED
      BY <1>4, <1>6, <2>2 DEF p
  <1> QED
    BY <1>5, <1>6

\* Only the owner of the admission mutex evaluates or counts.
LEMMA OneEvaluates ==
  ASSUME Quotas!TypeOK, NEW c \in Callers, NEW d \in Callers,
         pc[d] \in {"check", "admit"}, admission = c \/ admission = Nobody
  PROVE  d = c
  BY QuotaFacts DEF Quotas!TypeOK

\* What a window holds once it was ticked.
LEMMA UsedCovers ==
  ASSUME Quotas!TypeOK, Quotas!CountsCover, NEW k \in Quotas!Keys,
         NEW w \in Quotas!Windows
  PROVE  Tally(stamps[k], Length[w], Quotas!Current(w)) <= Quotas!Used(w, k)
  <1>1. /\ stamps[k] \in Seq(0..MaxTime)
        /\ start[w][k] \in Nat /\ Quotas!Current(w) \in Nat
    BY ClockWindow DEF Quotas!TypeOK
  <1>2. /\ \A i \in DOMAIN stamps[k] : stamps[k][i] \div Length[w] <= start[w][k]
        /\ \A i \in DOMAIN stamps[k] : start[w][k] <= Quotas!Current(w)
        /\ Tally(stamps[k], Length[w], start[w][k]) <= count[w][k]
    BY AdmittedIsTally DEF Quotas!CountsCover
  <1>3. CASE start[w][k] = Quotas!Current(w)
    BY <1>2, <1>3 DEF Quotas!Used, Quotas!Lapsed
  <1>4. CASE start[w][k] # Quotas!Current(w)
    <2>1. ASSUME NEW i \in DOMAIN stamps[k]
          PROVE  stamps[k][i] \div Length[w] # Quotas!Current(w)
      <3>1. stamps[k][i] \in Nat /\ Length[w] \in Nat \ {0}
        BY <1>1, QuotaFacts, LenProperties, ElementOfSeq
      <3>2. stamps[k][i] \div Length[w] \in Int
        BY <3>1
      <3> QED
        BY <1>1, <1>2, <1>4, <3>2
    <2>2. Tally(stamps[k], Length[w], Quotas!Current(w)) = 0
      BY <1>1, <2>1, TallyNone
    <2> QED
      BY <1>4, <2>2 DEF Quotas!Used, Quotas!Lapsed
  <1> QED
    BY <1>3, <1>4

LEMMA CapsInit ==
  ASSUME Quotas!Init
  PROVE  Quotas!CapInv
  <1>1. ASSUME NEW k \in Quotas!Keys, NEW w \in Quotas!Windows, NEW b
        PROVE  Quotas!AdmittedIn(k, w, b) = 0
    <2>1. stamps[k] = << >> /\ << >> \in Seq(0..MaxTime) /\ DOMAIN << >> = {}
      BY EmptySeq DEF Quotas!Init
    <2>2. Tally(<< >>, Length[w], b) = 0
      BY <2>1, TallyNone
    <2> QED
      BY <2>1, <2>2, AdmittedIsTally
  <1>2. Quotas!CapsRespected
    BY QuotaFacts, KeyScope DEF Quotas!Init, Quotas!CapsRespected
  <1>3. Quotas!WithinWindows
    BY <1>1, QuotaFacts, KeyScope DEF Quotas!WithinWindows
  <1>4. Quotas!TypeOK
    BY QuotaTypeInit
  <1>5. Quotas!CountsCover
    <2>1. ASSUME NEW k \in Quotas!Keys, NEW w \in Quotas!Windows
          PROVE  count[w][k] = 0 /\ DOMAIN stamps[k] = {}
      BY DEF Quotas!Init
    <2> QED
      BY <1>1, <2>1 DEF Quotas!CountsCover
  <1>6. Quotas!RoomIsLeft
    BY DEF Quotas!Init, Quotas!RoomIsLeft
  <1> QED
    BY <1>2, <1>3, <1>4, <1>5, <1>6 DEF Quotas!CapInv, Quotas!FixedWindowCap

\* A step that touches no counter.
LEMMA CapsKept ==
  ASSUME Quotas!TypeOK, Quotas!FixedWindowCap, Quotas!CountsCover,
         UNCHANGED <<now, start, count, tokens, stamps>>,
         \A k \in Quotas!Keys : concurrent'[k] <= concurrent[k],
         concurrent' \in [Quotas!Keys -> Nat]
  PROVE  Quotas!FixedWindowCap' /\ Quotas!CountsCover'
  <1>1. ASSUME NEW k, NEW w, NEW b
        PROVE  Quotas!AdmittedIn(k, w, b)' = Quotas!AdmittedIn(k, w, b)
    BY DEF Quotas!AdmittedIn
  <1>2. Quotas!Keys' = Quotas!Keys
    BY DEF Quotas!Keys, Quotas!Charged, Quotas!KeyOf, Quotas!ScopesOf,
           Quotas!Applies, Quotas!Scopes
  <1>3. Quotas!WithinWindows'
    BY <1>1, <1>2 DEF Quotas!WithinWindows, Quotas!FixedWindowCap, Quotas!Windows
  <1>4. Quotas!CountsCover'
    BY <1>1, <1>2 DEF Quotas!CountsCover, Quotas!Current, Quotas!Windows
  <1>5. ASSUME NEW k \in Quotas!Keys, "concurrent" \in DOMAIN Limits[k[1]]
        PROVE  concurrent'[k] <= Limits[k[1]]["concurrent"]
    <2>1. /\ concurrent[k] <= Limits[k[1]]["concurrent"]
          /\ concurrent'[k] <= concurrent[k]
          /\ Limits[k[1]]["concurrent"] \in Nat
          /\ concurrent[k] \in Nat /\ concurrent'[k] \in Nat
      BY <1>5, QuotaFacts, KeyScope
         DEF Quotas!FixedWindowCap, Quotas!CapsRespected, Quotas!TypeOK
    <2> QED
      BY <2>1
  <1>6. Quotas!CapsRespected'
    BY <1>2, <1>5 DEF Quotas!CapsRespected, Quotas!FixedWindowCap, Quotas!Windows,
       Quotas!TokenKinds
  <1> QED
    BY <1>3, <1>4, <1>6 DEF Quotas!FixedWindowCap

\* Record with the admissions it stands for: none, or one for each key of K.
Stamped(K, n) ==
  /\ n = 0 \/ n = 1
  /\ \A k \in Quotas!Keys :
       stamps'[k] = IF k \in K /\ n = 1 THEN Append(stamps[k], now) ELSE stamps[k]

LEMMA RecordTally ==
  ASSUME Quotas!TypeOK, Quotas!CountsCover, NEW K, NEW n, NEW spent,
         Quotas!Record(K, n, spent), Stamped(K, n), UNCHANGED now,
         NEW k \in Quotas!Keys, NEW w \in Quotas!Windows
  PROVE  /\ \A i \in DOMAIN stamps'[k] :
              /\ stamps'[k][i] \div Length[w] <= start'[w][k]
              /\ start'[w][k] <= Quotas!Current(w)
         /\ Tally(stamps'[k], Length[w], start'[w][k]) <= count'[w][k]
         /\ \A b : \/ Tally(stamps'[k], Length[w], b)
                        = Tally(stamps[k], Length[w], b)
                   \/ b = start'[w][k]
  <1> DEFINE q == stamps[k]
             C == Quotas!Current(w)
  <1>0. q \in Seq(0..MaxTime) /\ now \in 0..MaxTime /\ now \in Nat
        /\ Length[w] \in Nat \ {0} /\ C \in Nat /\ start[w][k] \in Nat
        /\ C = now \div Length[w] /\ n \in {0, 1}
    BY ClockWindow, QuotaFacts DEF Quotas!TypeOK, Quotas!Current, Stamped
  <1>1. /\ \A i \in DOMAIN q :
             q[i] \div Length[w] <= start[w][k] /\ start[w][k] <= C
        /\ Tally(q, Length[w], start[w][k]) <= count[w][k]
    BY AdmittedIsTally DEF Quotas!CountsCover
  <1>2. CASE k \notin K
    <2>1. /\ start'[w][k] = start[w][k] /\ count'[w][k] = count[w][k]
          /\ stamps'[k] = q
      BY <1>2 DEF Quotas!Record, Stamped
    <2> QED
      BY <1>1, <2>1
  <1>3. CASE k \in K
    <2>1. /\ start'[w][k] = C
          /\ Tally(q, Length[w], C) + n <= count'[w][k]
      <3>1. start'[w][k] = C /\ count'[w][k] = Quotas!Used(w, k) + n
        BY <1>3 DEF Quotas!Record
      <3>2. Tally(q, Length[w], C) <= Quotas!Used(w, k)
        BY UsedCovers
      <3>3. Quotas!Used(w, k) \in Nat
        BY DEF Quotas!Used, Quotas!TypeOK
      <3>4. Tally(q, Length[w], C) \in Nat
        BY <1>0, TallyFinite, FS_CardinalityType DEF Tally
      <3> HIDE DEF q, C
      <3> QED
        BY <1>0, <3>1, <3>2, <3>3, <3>4
    <2>2. ASSUME NEW i \in DOMAIN q PROVE q[i] \div Length[w] <= C
      <3>1. q[i] \in Nat
        <4>1. i \in 1..Len(q)
          BY <1>0, LenProperties
        <4>2. q[i] \in 0..MaxTime
          BY <1>0, <4>1, ElementOfSeq
        <4> HIDE DEF q
        <4> QED
          BY <4>2
      <3>2. q[i] \div Length[w] \in Int
        BY <1>0, <3>1
      <3> HIDE DEF q, C
      <3> QED
        BY <1>0, <1>1, <3>2
    <2>3. CASE n = 0
      <3>1. stamps'[k] = q
        BY <2>3 DEF Stamped
      <3>2. Tally(q, Length[w], C) \in Nat
        BY <1>0, TallyFinite, FS_CardinalityType DEF Tally
      <3> HIDE DEF q, C
      <3> QED
        BY <1>0, <2>1, <2>2, <2>3, <3>1, <3>2 DEF q, C
    <2>4. CASE n = 1
      <3>1. stamps'[k] = Append(q, now)
        BY <1>3, <2>4 DEF Stamped
      <3>2. \A b : Tally(Append(q, now), Length[w], b) =
                     Tally(q, Length[w], b) + IF C = b THEN 1 ELSE 0
        BY <1>0, TallyAppend
      <3>3. \A b : Tally(q, Length[w], b) \in Nat
        BY <1>0, TallyFinite, FS_CardinalityType DEF Tally
      <3>4. ASSUME NEW i \in DOMAIN stamps'[k]
            PROVE  stamps'[k][i] \div Length[w] <= C
        <4>0. /\ Append(q, now) \in Seq(0..MaxTime)
              /\ Len(Append(q, now)) = Len(q) + 1 /\ Len(q) \in Nat
              /\ \A j \in 1..Len(q) : Append(q, now)[j] = q[j]
              /\ Append(q, now)[Len(q) + 1] = now
              /\ DOMAIN q = 1..Len(q)
          BY <1>0, AppendProperties, LenProperties
        <4>1. i \in 1..(Len(q) + 1)
          BY <3>1, <4>0, LenProperties
        <4>2. CASE i = Len(q) + 1
          BY <1>0, <3>1, <4>0, <4>2
        <4>3. CASE i # Len(q) + 1
          <5>1. i \in DOMAIN q /\ stamps'[k][i] = q[i]
            BY <3>1, <4>0, <4>1, <4>3
          <5> QED
            BY <2>2, <5>1
        <4> QED
          BY <4>2, <4>3
      <3> HIDE DEF q, C
      <3>5. \A b : Tally(stamps'[k], Length[w], b) = Tally(q, Length[w], b) \/ b = C
        BY <3>1, <3>2, <3>3
      <3>6. Tally(stamps'[k], Length[w], C) <= count'[w][k]
        BY <2>1, <2>4, <3>1, <3>2
      <3> QED
        BY <1>0, <2>1, <3>4, <3>5, <3>6 DEF q, C
    <2> QED
      BY <1>0, <2>3, <2>4
  <1> QED
    BY <1>2, <1>3

\* If what is counted stays within the caps, so does what was admitted.
LEMMA RecordWithin ==
  ASSUME Quotas!TypeOK, Quotas!FixedWindowCap, Quotas!CountsCover, NEW K,
         NEW n, NEW spent, Quotas!Record(K, n, spent), Stamped(K, n),
         UNCHANGED now, Quotas!CapsRespected'
  PROVE  Quotas!FixedWindowCap' /\ Quotas!CountsCover'
  <1>1. Quotas!Keys' = Quotas!Keys
    BY DEF Quotas!Keys, Quotas!Charged, Quotas!KeyOf, Quotas!ScopesOf,
           Quotas!Applies, Quotas!Scopes
  <1>2. Quotas!CountsCover'
    <2>1. ASSUME NEW k \in Quotas!Keys, NEW w \in Quotas!Windows
          PROVE  /\ \A i \in DOMAIN stamps'[k] :
                      /\ stamps'[k][i] \div Length[w] <= start'[w][k]
                      /\ start'[w][k] <= Quotas!Current(w)'
                 /\ Quotas!AdmittedIn(k, w, start[w][k])' <= count'[w][k]
      <3>1. Quotas!Current(w)' = Quotas!Current(w)
        BY DEF Quotas!Current
      <3>2. Quotas!AdmittedIn(k, w, start[w][k])'
              = Tally(stamps'[k], Length[w], start'[w][k])
        BY SameCardinality DEF Quotas!AdmittedIn, Tally
      <3> QED
        BY <3>1, <3>2, RecordTally
    <2> QED
      BY <1>1, <2>1 DEF Quotas!CountsCover, Quotas!Windows
  <1>3. ASSUME NEW k \in Quotas!Keys,
               NEW w \in Quotas!Windows \cap DOMAIN Limits[k[1]],
               NEW b \in 0..MaxTime
        PROVE  Tally(stamps'[k], Length[w], b) <= Limits[k[1]][w]
    <2>1. CASE b = start'[w][k]
      <3>1. count'[w][k] <= Limits[k[1]][w]
        BY <1>1 DEF Quotas!CapsRespected, Quotas!Windows
      <3>2. Tally(stamps'[k], Length[w], b) <= count'[w][k]
        BY <2>1, RecordTally
      <3>3. count'[w][k] \in Nat /\ Tally(stamps'[k], Length[w], b) \in Nat
        <4>1. stamps[k] \in Seq(0..MaxTime) /\ now \in 0..MaxTime
          BY DEF Quotas!TypeOK
        <4>2. stamps'[k] \in Seq(0..MaxTime)
          <5>1. Append(stamps[k], now) \in Seq(0..MaxTime)
            BY <4>1, AppendProperties
          <5> QED
            BY <4>1, <5>1 DEF Stamped
        <4>3. Tally(stamps'[k], Length[w], b) \in Nat
          BY <4>2, TallyFinite, FS_CardinalityType DEF Tally
        <4>4. count'[w][k] \in Nat
          BY DEF Quotas!Record, Quotas!Used, Quotas!TypeOK, Stamped
        <4> QED
          BY <4>3, <4>4
      <3>4. Limits[k[1]][w] \in Nat
        BY <1>3, QuotaFacts, KeyScope
      <3> QED
        BY <3>1, <3>2, <3>3, <3>4
    <2>2. CASE Tally(stamps'[k], Length[w], b) = Tally(stamps[k], Length[w], b)
      BY <2>2, AdmittedIsTally DEF Quotas!FixedWindowCap, Quotas!WithinWindows
    <2> QED
      BY <2>1, <2>2, RecordTally
  <1>4. Quotas!WithinWindows'
    BY <1>1, <1>3, AdmittedIsTally DEF Quotas!WithinWindows, Quotas!Windows
  <1> QED
    BY <1>2, <1>4 DEF Quotas!FixedWindowCap

LEMMA LockCaps ==
  ASSUME Quotas!CapInv, NEW c \in Callers, NEW op \in {"check", "admit"},
         NEW r \in Requests, Quotas!Lock(c, op, r)
  PROVE  Quotas!CapInv'
  <1> USE DEF Quotas!CapInv
  <1>1. /\ UNCHANGED <<now, concurrent, start, count, tokens, stamps>>
        /\ pc' = [pc EXCEPT ![c] = op] /\ req' = [req EXCEPT ![c] = r]
        /\ todo' = [todo EXCEPT ![c] = Quotas!ScopesOf(r)]
        /\ admission = Nobody
    BY DEF Quotas!Lock, Quotas!counters
  <1>2. Quotas!FixedWindowCap' /\ Quotas!CountsCover'
    BY <1>1, CapsKept DEF Quotas!TypeOK
  <1>3. req'[c] = r /\ todo'[c] = Quotas!ScopesOf(r)
    BY <1>1 DEF Quotas!TypeOK
  <1>4. ASSUME NEW d \in Callers \ {c} PROVE pc'[d] \notin {"check", "admit"}
    BY <1>1, OneEvaluates DEF Quotas!TypeOK
  <1>5. Quotas!RoomIsLeft'
    BY <1>3, <1>4 DEF Quotas!RoomIsLeft, Quotas!ScopesOf, Quotas!Applies,
                      Quotas!Scopes
  <1> QED
    BY <1>2, <1>5, LockType

\* check_unlocked only ticks windows; and a scope that did not deny has room.
LEMMA EvaluateCaps ==
  ASSUME Quotas!CapInv, Quotas!NoOverflow, NEW c \in Callers,
         NEW s \in Quotas!Scopes, Quotas!Evaluate(c, s)
  PROVE  Quotas!CapInv'
  <1> USE DEF Quotas!CapInv
  <1> DEFINE r == req[c]
             K == {Quotas!KeyOf(s, r)}
  <1>0. /\ pc[c] \in {"check", "admit"} /\ s \in todo[c] /\ admission = c
        /\ Quotas!Record(K, 0, Quotas!NoTokens)
        /\ UNCHANGED <<now, concurrent, req, stamps>>
        /\ r \in Requests /\ todo[c] \subseteq Quotas!ScopesOf(r)
    BY DEF Quotas!Evaluate, Quotas!TypeOK, Quotas!RoomIsLeft
  <1>1. Stamped(K, 0)
    BY <1>0 DEF Stamped
  <1>2. ASSUME NEW k \in Quotas!Keys, NEW d \in Quotas!TokenKinds,
               d \in DOMAIN Limits[k[1]]
        PROVE  /\ tokens'[d][k] = IF k \in K THEN Quotas!TokensUsed(d, k)
                                  ELSE tokens[d][k]
               /\ Quotas!TokensUsed(d, k) <= Limits[k[1]][d]
               /\ tokens'[d][k] <= Limits[k[1]][d]
    <2>1. /\ tokens[d][k] \in Nat /\ tokens[d][k] <= Limits[k[1]][d]
          /\ Limits[k[1]][d] \in Nat /\ TokenModulus \in Nat \ {0}
      BY <1>2, QuotaFacts, KeyScope
         DEF Quotas!TypeOK, Quotas!FixedWindowCap, Quotas!CapsRespected
    <2>2. Limits[k[1]][d] + r.tokens[d] < TokenModulus /\ r.tokens[d] \in Nat
      BY <1>0, <1>2, QuotaFacts, KeyScope DEF Quotas!NoOverflow
    <2>3. /\ Quotas!TokensUsed(d, k) \in Nat
          /\ Quotas!TokensUsed(d, k) <= Limits[k[1]][d]
      BY <2>1 DEF Quotas!TokensUsed
    <2>4. Quotas!TokensUsed(d, k) < TokenModulus
      BY <2>1, <2>2, <2>3
    <2>5. (Quotas!TokensUsed(d, k) + Quotas!NoTokens[d]) % TokenModulus
            = Quotas!TokensUsed(d, k)
      BY <2>1, <2>3, <2>4, RemainderSmall DEF Quotas!NoTokens
    <2> QED
      BY <1>0, <2>1, <2>3, <2>5 DEF Quotas!Record
  <1>3. ASSUME NEW k \in Quotas!Keys, NEW w \in Quotas!Windows
        PROVE  /\ count'[w][k] = IF k \in K THEN Quotas!Used(w, k) + 0
                                 ELSE count[w][k]
               /\ Quotas!Used(w, k) = 0 \/ Quotas!Used(w, k) = count[w][k]
               /\ count[w][k] \in Nat
    BY <1>0 DEF Quotas!Record, Quotas!Used, Quotas!TypeOK
  <1>4. Quotas!CapsRespected'
    <2>1. ASSUME NEW k \in Quotas!Keys,
                 NEW w \in Quotas!Windows \cap DOMAIN Limits[k[1]]
          PROVE  count'[w][k] <= Limits[k[1]][w]
      <3>1. Limits[k[1]][w] \in Nat /\ count[w][k] <= Limits[k[1]][w]
        BY QuotaFacts, KeyScope DEF Quotas!FixedWindowCap, Quotas!CapsRespected
      <3> QED
        BY <1>3, <3>1
    <2> HIDE DEF K
    <2> QED
      BY <1>0, <1>2, <2>1
         DEF Quotas!FixedWindowCap, Quotas!CapsRespected, Quotas!Keys,
             Quotas!Charged, Quotas!KeyOf, Quotas!ScopesOf, Quotas!Applies,
             Quotas!Scopes, Quotas!Windows, Quotas!TokenKinds
  <1>5. Quotas!FixedWindowCap' /\ Quotas!CountsCover'
    BY <1>0, <1>1, <1>4, RecordWithin
  <1>6. ASSUME NEW d \in Callers \ {c} PROVE pc[d] \notin {"check", "admit"}
    BY <1>0, OneEvaluates
  <1>7. CASE /\ pc' = [pc EXCEPT ![c] = "idle"]
             /\ todo' = [todo EXCEPT ![c] = {}]
    <2>1. \A d \in Callers : pc'[d] \notin {"check", "admit"}
      BY <1>6, <1>7 DEF Quotas!TypeOK
    <2> QED
      BY <1>5, <2>1, EvaluateType DEF Quotas!RoomIsLeft
  <1>8. CASE /\ ~Quotas!Denied(s, r)
             /\ todo' = [todo EXCEPT ![c] = @ \ {s}]
             /\ UNCHANGED pc
    <2>1. Quotas!RoomLeft(s, r)'
      <3> DEFINE k == Quotas!KeyOf(s, r)
      <3>1. k \in Quotas!Keys /\ k \in K /\ k[1] = s /\ s \in Quotas!ScopesOf(r)
        BY <1>0, KeyFacts
      <3>2. ~Quotas!OverBudget(s, k, r)
        BY <1>8 DEF Quotas!Denied
      <3>3. ASSUME "concurrent" \in DOMAIN Limits[s]
            PROVE  concurrent'[k] < Limits[s]["concurrent"]
        <4>1. ~(concurrent[k] >= Limits[s]["concurrent"])
          BY <3>2, <3>3 DEF Quotas!OverBudget
        <4>2. concurrent[k] \in Nat /\ Limits[s]["concurrent"] \in Nat
          BY <3>1, <3>3, QuotaFacts DEF Quotas!TypeOK
        <4> QED
          BY <1>0, <4>1, <4>2
      <3>4. ASSUME NEW w \in Quotas!Windows \cap DOMAIN Limits[s]
            PROVE  count'[w][k] < Limits[s][w]
        <4>1. ~(Quotas!Used(w, k) >= Limits[s][w])
          BY <3>2 DEF Quotas!OverBudget
        <4>2. Quotas!Used(w, k) \in Nat /\ Limits[s][w] \in Nat
          BY <1>3, <3>1, QuotaFacts
        <4>3. count'[w][k] = Quotas!Used(w, k)
          BY <1>3, <3>1, <4>2
        <4> QED
          BY <4>1, <4>2, <4>3
      <3>5. ASSUME NEW d \in Quotas!TokenKinds \cap DOMAIN Limits[s]
            PROVE  tokens'[d][k] + r.tokens[d] <= Limits[s][d]
        <4>1. ~((Quotas!TokensUsed(d, k) + r.tokens[d]) % TokenModulus
                  > Limits[s][d])
          BY <3>2 DEF Quotas!OverBudget
        <4>2. /\ tokens'[d][k] = Quotas!TokensUsed(d, k)
              /\ Quotas!TokensUsed(d, k) <= Limits[s][d]
          BY <1>2, <3>1
        <4>3. /\ Quotas!TokensUsed(d, k) \in Nat /\ r.tokens[d] \in Nat
              /\ Limits[s][d] \in Nat /\ TokenModulus \in Nat \ {0}
              /\ Limits[s][d] + r.tokens[d] < TokenModulus
          BY <1>0, <3>1, QuotaFacts
             DEF Quotas!TokensUsed, Quotas!TypeOK, Quotas!NoOverflow
        <4>4. (Quotas!TokensUsed(d, k) + r.tokens[d]) % TokenModulus
                = Quotas!TokensUsed(d, k) + r.tokens[d]
          BY <4>2, <4>3, RemainderSmall
        <4> QED
          BY <4>1, <4>2, <4>3, <4>4
      <3> HIDE DEF k
      <3> QED
        BY <1>0, <3>3, <3>4, <3>5
           DEF k, Quotas!RoomLeft, Quotas!KeyOf, Quotas!Windows,
               Quotas!TokenKinds
    <2>2. ASSUME NEW z \in Quotas!ScopesOf(r), z # s, Quotas!RoomLeft(z, r)
          PROVE  Quotas!RoomLeft(z, r)'
      <3> DEFINE k == Quotas!KeyOf(z, r)
      <3>1. k \in Quotas!Keys /\ k \notin K
        BY <1>0, <2>2, KeyFacts DEF Quotas!KeyOf
      <3>2. /\ \A w \in Quotas!Windows : count'[w][k] = count[w][k]
            /\ \A d \in Quotas!TokenKinds : tokens'[d][k] = tokens[d][k]
        BY <1>0, <3>1 DEF Quotas!Record
      <3> HIDE DEF K
      <3> QED
        BY <1>0, <2>2, <3>2 DEF Quotas!RoomLeft, Quotas!KeyOf, Quotas!Windows,
                                Quotas!TokenKinds
    <2>3. /\ req'[c] = r /\ todo'[c] = todo[c] \ {s} /\ pc'[c] = pc[c]
          /\ Quotas!ScopesOf(r)' = Quotas!ScopesOf(r)
      BY <1>0, <1>8 DEF Quotas!TypeOK, Quotas!ScopesOf, Quotas!Applies,
                        Quotas!Scopes
    <2>4. ASSUME pc[c] = "admit", NEW z \in Quotas!ScopesOf(r) \ (todo[c] \ {s})
          PROVE  Quotas!RoomLeft(z, r)'
      <3>1. z = s \/ Quotas!RoomLeft(z, r)
        BY <2>4 DEF Quotas!RoomIsLeft
      <3> QED
        BY <2>1, <2>2, <3>1
    <2>5. Quotas!RoomIsLeft'
      BY <1>0, <1>6, <1>8, <2>3, <2>4
         DEF Quotas!RoomIsLeft, Quotas!RoomLeft, Quotas!ScopesOf,
             Quotas!Applies, Quotas!Scopes
    <2> QED
      BY <1>5, <2>5, EvaluateType
  <1> QED
    BY <1>7, <1>8 DEF Quotas!Evaluate

LEMMA CheckAllowedCaps ==
  ASSUME Quotas!CapInv, NEW c \in Callers, Quotas!CheckAllowed(c)
  PROVE  Quotas!CapInv'
  <1> USE DEF Quotas!CapInv
  <1>1. /\ UNCHANGED <<now, concurrent, start, count, tokens, stamps, req, todo>>
        /\ pc' = [pc EXCEPT ![c] = "idle"]
    BY DEF Quotas!CheckAllowed, Quotas!counters
  <1>2. Quotas!FixedWindowCap' /\ Quotas!CountsCover'
    BY <1>1, CapsKept DEF Quotas!TypeOK
  <1>3. \A d \in Callers : pc'[d] = pc[d] \/ pc'[d] = "idle"
    BY <1>1 DEF Quotas!TypeOK
  <1>4. Quotas!RoomIsLeft'
    BY <1>1, <1>3 DEF Quotas!RoomIsLeft, Quotas!RoomLeft, Quotas!ScopesOf,
       Quotas!Applies, Quotas!Scopes, Quotas!KeyOf, Quotas!Windows,
       Quotas!TokenKinds
  <1> QED
    BY <1>2, <1>4, CheckAllowedType

\* try_admit counts what it has found room for.
LEMMA AdmitCaps ==
  ASSUME Quotas!CapInv, Quotas!NoOverflow, NEW c \in Callers, Quotas!Admit(c)
  PROVE  Quotas!CapInv'
  <1> USE DEF Quotas!CapInv
  <1> DEFINE r == req[c]
             K == Quotas!Charged(r)
  <1>0. /\ pc[c] = "admit" /\ todo[c] = {} /\ admission = c
        /\ Quotas!Record(K, 1, r.tokens)
        /\ concurrent' = [k \in Quotas!Keys |->
                            concurrent[k] + IF k \in K THEN 1 ELSE 0]
        /\ UNCHANGED <<now, req, todo>>
        /\ pc' = [pc EXCEPT ![c] = "held"]
        /\ r \in Requests
    BY DEF Quotas!Admit, Quotas!Reserve, Quotas!TypeOK
  <1>1. Stamped(K, 1)
    BY DEF Stamped, Quotas!Admit, Quotas!Reserve
  <1>2. ASSUME NEW k \in K
        PROVE  Quotas!RoomLeft(k[1], r) /\ k = Quotas!KeyOf(k[1], r)
    BY <1>0, <1>2, KeyFacts DEF Quotas!RoomIsLeft
  <1>3. ASSUME NEW k \in Quotas!Keys, "concurrent" \in DOMAIN Limits[k[1]]
        PROVE  concurrent'[k] <= Limits[k[1]]["concurrent"]
    <2>1. /\ concurrent[k] <= Limits[k[1]]["concurrent"]
          /\ k \in K => concurrent[k] < Limits[k[1]]["concurrent"]
          /\ concurrent[k] \in Nat /\ Limits[k[1]]["concurrent"] \in Nat
      BY <1>2, <1>3, QuotaFacts, KeyScope
         DEF Quotas!FixedWindowCap, Quotas!CapsRespected, Quotas!TypeOK,
             Quotas!RoomLeft
    <2> QED
      BY <1>0, <2>1
  <1>4. ASSUME NEW k \in Quotas!Keys,
               NEW w \in Quotas!Windows \cap DOMAIN Limits[k[1]]
        PROVE  count'[w][k] <= Limits[k[1]][w]
    <2>1. /\ count[w][k] <= Limits[k[1]][w]
          /\ k \in K => count[w][k] < Limits[k[1]][w]
          /\ count[w][k] \in Nat /\ Limits[k[1]][w] \in Nat
      BY <1>2, QuotaFacts, KeyScope
         DEF Quotas!FixedWindowCap, Quotas!CapsRespected, Quotas!TypeOK,
             Quotas!RoomLeft
    <2>2. count'[w][k] = IF k \in K THEN Quotas!Used(w, k) + 1 ELSE count[w][k]
      BY <1>0 DEF Quotas!Record
    <2> QED
      BY <2>1, <2>2 DEF Quotas!Used
  <1>5. ASSUME NEW k \in Quotas!Keys,
               NEW d \in Quotas!TokenKinds \cap DOMAIN Limits[k[1]]
        PROVE  tokens'[d][k] <= Limits[k[1]][d]
    <2>1. /\ tokens[d][k] <= Limits[k[1]][d]
          /\ k \in K => tokens[d][k] + r.tokens[d] <= Limits[k[1]][d]
          /\ tokens[d][k] \in Nat /\ Limits[k[1]][d] \in Nat
          /\ r.tokens[d] \in Nat /\ TokenModulus \in Nat \ {0}
          /\ Limits[k[1]][d] + r.tokens[d] < TokenModulus
      BY <1>0, <1>2, QuotaFacts, KeyScope
         DEF Quotas!FixedWindowCap, Quotas!CapsRespected, Quotas!TypeOK,
             Quotas!RoomLeft, Quotas!NoOverflow
    <2>2. tokens'[d][k] =
            IF k \in K THEN (Quotas!TokensUsed(d, k) + r.tokens[d]) % TokenModulus
            ELSE tokens[d][k]
      BY <1>0 DEF Quotas!Record
    <2>3. CASE k \in K
      <3>1. Quotas!TokensUsed(d, k) \in Nat
            /\ Quotas!TokensUsed(d, k) <= tokens[d][k]
        BY <2>1 DEF Quotas!TokensUsed
      <3>2. (Quotas!TokensUsed(d, k) + r.tokens[d]) % TokenModulus
              = Quotas!TokensUsed(d, k) + r.tokens[d]
        BY <2>1, <2>3, <3>1, RemainderSmall
      <3> QED
        BY <2>1, <2>2, <2>3, <3>1, <3>2
    <2> QED
      BY <2>1, <2>2, <2>3
  <1>6. Quotas!CapsRespected'
    <2> HIDE DEF K
    <2> QED
      BY <1>3, <1>4, <1>5
         DEF Quotas!CapsRespected, Quotas!Keys, Quotas!Charged, Quotas!KeyOf,
             Quotas!ScopesOf, Quotas!Applies, Quotas!Scopes, Quotas!Windows,
             Quotas!TokenKinds
  <1>7. Quotas!FixedWindowCap' /\ Quotas!CountsCover'
    BY <1>0, <1>1, <1>6, RecordWithin
  <1>8. \A d \in Callers : pc'[d] \notin {"check", "admit"}
    BY <1>0, OneEvaluates DEF Quotas!TypeOK
  <1> QED
    BY <1>7, <1>8, AdmitType DEF Quotas!RoomIsLeft

LEMMA ReleaseCaps ==
  ASSUME Quotas!CapInv, NEW c \in Callers, Quotas!Release(c)
  PROVE  Quotas!CapInv'
  <1> USE DEF Quotas!CapInv
  <1>1. /\ UNCHANGED <<now, start, count, tokens, stamps>>
        /\ pc' = [pc EXCEPT ![c] = "idle"] /\ admission = Nobody
    BY DEF Quotas!Release
  <1>2. \A k \in Quotas!Keys : concurrent'[k] <= concurrent[k]
    BY DEF Quotas!Release, Quotas!TypeOK
  <1>3. concurrent' \in [Quotas!Keys -> Nat]
    BY DEF Quotas!Release, Quotas!TypeOK
  <1>4. Quotas!FixedWindowCap' /\ Quotas!CountsCover'
    BY <1>1, <1>2, <1>3, CapsKept
  <1>5. \A d \in Callers : pc'[d] \notin {"check", "admit"}
    BY <1>1, QuotaFacts DEF Quotas!TypeOK
  <1> QED
    BY <1>4, <1>5, ReleaseType DEF Quotas!RoomIsLeft

\* Between the evaluation and the count time passes and windows lapse; or the clock
\* is set back, and from then on nothing was admitted yet.
LEMMA TickCaps ==
  ASSUME Quotas!CapInv, NEW t \in 0..MaxTime, Quotas!Tick(t)
  PROVE  Quotas!CapInv'
  <1> USE DEF Quotas!CapInv
  <1>1. /\ UNCHANGED <<concurrent, start, count, tokens, pc, req, todo>>
        /\ now' = t /\ now \in Nat /\ t \in Nat
    BY DEF Quotas!Tick, Quotas!counters, Quotas!calls, Quotas!TypeOK
  <1>2. Quotas!Keys' = Quotas!Keys
    BY DEF Quotas!Keys, Quotas!Charged, Quotas!KeyOf, Quotas!ScopesOf,
           Quotas!Applies, Quotas!Scopes
  <1>3. Quotas!CapsRespected'
    BY <1>1, <1>2
       DEF Quotas!FixedWindowCap, Quotas!CapsRespected, Quotas!Windows,
           Quotas!TokenKinds
  <1>4. Quotas!RoomIsLeft'
    BY <1>1 DEF Quotas!RoomIsLeft, Quotas!RoomLeft, Quotas!ScopesOf,
       Quotas!Applies, Quotas!Scopes, Quotas!KeyOf, Quotas!Windows,
       Quotas!TokenKinds
  <1>5. CASE t > now /\ UNCHANGED stamps
    <2>1. \A k, w, b : Quotas!AdmittedIn(k, w, b)' = Quotas!AdmittedIn(k, w, b)
      BY <1>5 DEF Quotas!AdmittedIn
    <2>2. Quotas!WithinWindows'
      BY <1>2, <2>1
         DEF Quotas!FixedWindowCap, Quotas!WithinWindows, Quotas!Windows
    <2>3. ASSUME NEW w \in Quotas!Windows, NEW k \in Quotas!Keys,
                 start[w][k] <= Quotas!Current(w)
          PROVE  start[w][k] <= Quotas!Current(w)'
      <3>1. Length[w] \in Nat \ {0}
        BY QuotaFacts
      <3>2. now \div Length[w] <= t \div Length[w]
        BY <1>1, <1>5, <3>1, DivisionMonotonic
      <3>3. /\ start[w][k] <= now \div Length[w] /\ start[w][k] \in Nat
            /\ now \div Length[w] \in Int /\ t \div Length[w] \in Int
        <4>1. /\ start \in [Quotas!Windows -> [Quotas!Keys -> Nat]]
              /\ start[w][k] <= now \div Length[w]
          BY <2>3 DEF Quotas!Current, Quotas!TypeOK
        <4>2. start[w][k] \in Nat
          BY <4>1
        <4>3. now \div Length[w] \in Int /\ t \div Length[w] \in Int
          BY <1>1, <3>1
        <4> QED
          BY <4>1, <4>2, <4>3
      <3>4. Quotas!Current(w)' = t \div Length[w]
        BY <1>1 DEF Quotas!Current
      <3> QED
        BY <3>2, <3>3, <3>4
    <2>4. Quotas!CountsCover'
      BY <1>1, <1>2, <1>5, <2>1, <2>3 DEF Quotas!CountsCover, Quotas!Windows
    <2> QED
      BY <1>3, <1>4, <2>2, <2>4, TickType DEF Quotas!FixedWindowCap
  <1>6. CASE stamps' = [k \in Quotas!Keys |-> << >>]
    <2>1. ASSUME NEW k \in Quotas!Keys, NEW w, NEW b
          PROVE  DOMAIN stamps'[k] = {} /\ Tally(stamps'[k], Length[w], b) = 0
      <3>1. stamps'[k] = << >> /\ << >> \in Seq(0..MaxTime) /\ DOMAIN << >> = {}
        BY <1>6, EmptySeq
      <3>2. Tally(<< >>, Length[w], b) = 0
        BY <3>1, TallyNone
      <3> QED
        BY <3>1, <3>2
    <2>2. Quotas!WithinWindows'
      <3>1. ASSUME NEW k \in Quotas!Keys,
                   NEW w \in Quotas!Windows \cap DOMAIN Limits[k[1]],
                   NEW b \in 0..MaxTime
            PROVE  Quotas!AdmittedIn(k, w, b)' <= Limits[k[1]][w]
        BY <2>1, AdmittedIsTally, QuotaFacts, KeyScope
      <3> QED
        BY <1>2, <3>1 DEF Quotas!WithinWindows, Quotas!Windows
    <2>3. ASSUME NEW w \in Quotas!Windows, NEW k \in Quotas!Keys
          PROVE  Quotas!AdmittedIn(k, w, start[w][k])' <= count'[w][k]
      <3>1. Quotas!AdmittedIn(k, w, start[w][k])'
              = Tally(stamps'[k], Length[w], start'[w][k])
        BY SameCardinality DEF Quotas!AdmittedIn, Tally
      <3>2. count'[w][k] \in Nat
        BY <1>1 DEF Quotas!TypeOK
      <3> QED
        BY <2>1, <3>1, <3>2
    <2>4. Quotas!CountsCover'
      BY <1>2, <2>1, <2>3 DEF Quotas!CountsCover, Quotas!Windows
    <2> QED
      BY <1>3, <1>4, <2>2, <2>4, TickType DEF Quotas!FixedWindowCap
  <1> QED
    BY <1>5, <1>6 DEF Quotas!Tick

LEMMA CapsStep ==
  Quotas!NoOverflow /\ Quotas!CapInv /\ [Quotas!Next]_(Quotas!vars)
    => Quotas!CapInv'
  <1> SUFFICES ASSUME Quotas!NoOverflow, Quotas!CapInv,
                      [Quotas!Next]_(Quotas!vars)
               PROVE  Quotas!CapInv'
    OBVIOUS
  <1>1. CASE UNCHANGED Quotas!vars
    <2>1. UNCHANGED <<now, concurrent, start, count, tokens, admission, pc, req,
                      todo, stamps>>
      BY <1>1 DEF Quotas!vars, Quotas!counters, Quotas!calls
    <2>2. Quotas!TypeOK' /\ Quotas!FixedWindowCap' /\ Quotas!CountsCover'
      BY <2>1, CapsKept DEF Quotas!CapInv, Quotas!TypeOK
    <2>3. Quotas!RoomIsLeft'
      BY <2>1 DEF Quotas!CapInv, Quotas!RoomIsLeft, Quotas!RoomLeft,
         Quotas!ScopesOf, Quotas!Applies, Quotas!Scopes, Quotas!KeyOf,
         Quotas!Windows, Quotas!TokenKinds
    <2> QED
      BY <2>2, <2>3 DEF Quotas!CapInv
  <1>2. CASE Quotas!Next
    BY <1>2, LockCaps, EvaluateCaps, CheckAllowedCaps, AdmitCaps, ReleaseCaps,
       TickCaps DEF Quotas!Next
  <1> QED
    BY <1>1, <1>2

\* Where no sum of tokens wraps, no counter passes the cap of its scope, and no
\* clock minute, hour or day sees more admissions than its cap since the clock was
\* last set back, whatever the callers, windows, limits and jumps of the clock.
THEOREM FixedWindowInv ==
  Quotas!NoOverflow => (Spec => []FixedWindowCap)
  <1> SUFFICES ASSUME Quotas!NoOverflow
               PROVE  Spec => []FixedWindowCap
    OBVIOUS
  <1>1. Init => Quotas!CapInv
    BY CapsInit DEF Init
  <1>2. Quotas!CapInv /\ [Next]_vars => Quotas!CapInv'
    BY StepOfEach, CapsStep
  <1>3. Quotas!CapInv => FixedWindowCap
    BY DEF Quotas!CapInv, FixedWindowCap
  <1> QED
    BY <1>1, <1>2, <1>3, PTL DEF Spec

-----------------------------------------------------------------------------
(* The audit log: sequences of lines.                                       *)

LEMMA AuditFacts ==
  MaxEvents \in Nat /\ MaxFailures \in Nat /\ MaxRestarts \in Nat
  BY ServiceStoresAssumption DEF ServiceStoresAssumption, Audit!AuditAssumption

LEMMA AuditCounts ==
  \A S : Audit!Cardinality(S) = Cardinality(S)
  BY DEF Audit!Cardinality, Cardinality

LEMMA LinesAssociate ==
  \A f, a, b \in Seq(Audit!Line) : (f \o a) \o b = f \o (a \o b)
  BY ConcatAssociative

LEMMA LinesSplit ==
  ASSUME NEW f \in Seq(Audit!Line), NEW l \in Seq(Audit!Line),
         NEW n \in 0..Len(l)
  PROVE  LET a == SubSeq(l, 1, n)
             b == SubSeq(l, n + 1, Len(l))
         IN  /\ a \in Seq(Audit!Line) /\ b \in Seq(Audit!Line)
             /\ Len(a) = n /\ Len(b) = Len(l) - n
             /\ (f \o a) \in Seq(Audit!Line)
             /\ (f \o a) \o b = f \o l
             /\ n = 0 => f \o a = f
             /\ \A i \in DOMAIN a : i \in DOMAIN l /\ a[i] = l[i]
             /\ \A i \in DOMAIN b : n + i \in DOMAIN l /\ b[i] = l[n + i]
  <1> DEFINE a == SubSeq(l, 1, n)
             b == SubSeq(l, n + 1, Len(l))
  <1>0. Len(l) \in Nat /\ n \in Nat /\ n <= Len(l)
    BY LenProperties
  <1>1. \A i \in 1..Len(l) : l[i] \in Audit!Line
    BY ElementOfSeq
  <1>2. /\ a \in Seq(Audit!Line) /\ Len(a) = n
        /\ \A i \in 1..n : a[i] = l[i]
    <2>1. \A i \in 1..n : l[i] \in Audit!Line
      BY <1>0, <1>1
    <2>2. /\ a \in Seq(Audit!Line)
          /\ Len(a) = IF 1 <= n THEN n - 1 + 1 ELSE 0
          /\ \A i \in 1..(n - 1 + 1) : a[i] = l[1 + i - 1]
      BY <1>0, <2>1, SubSeqProperties
    <2> HIDE DEF a
    <2> QED
      BY <1>0, <2>2
  <1>3. /\ b \in Seq(Audit!Line) /\ Len(b) = Len(l) - n
        /\ \A i \in 1..(Len(l) - n) : b[i] = l[n + i]
    <2>1. \A i \in (n + 1)..Len(l) : l[i] \in Audit!Line
      BY <1>0, <1>1
    <2>2. /\ b \in Seq(Audit!Line)
          /\ Len(b) = IF n + 1 <= Len(l) THEN Len(l) - (n + 1) + 1 ELSE 0
          /\ \A i \in 1..(Len(l) - (n + 1) + 1) : b[i] = l[n + 1 + i - 1]
      BY <1>0, <2>1, SubSeqProperties
    <2> HIDE DEF b
    <2> QED
      BY <1>0, <2>2
  <1>4. a \o b = l
    <2>1. l = SubSeq(l, 1, Len(l))
      BY SubSeqFull
    <2>2. SubSeq(l, 1, n) \o SubSeq(l, n + 1, Len(l)) = SubSeq(l, 1, Len(l))
      <3>1. 1 \in 1..(Len(l) + 1) /\ n \in 1 - 1..Len(l) /\ Len(l) \in n..Len(l)
        BY <1>0
      <3> QED
        BY <3>1, ConcatAdjacentSubSeq
    <2> QED
      BY <2>1, <2>2
  <1>5. (f \o a) \in Seq(Audit!Line)
    BY <1>2, ConcatProperties
  <1>6. (f \o a) \o b = f \o l
    <2> HIDE DEF a, b
    <2>1. (f \o a) \o b = f \o (a \o b)
      BY <1>2, <1>3, LinesAssociate
    <2> QED
      BY <1>4, <2>1
  <1>7. n = 0 => f \o a = f
    <2> SUFFICES ASSUME n = 0 PROVE f \o a = f
      OBVIOUS
    <2>1. a = << >>
      BY SubSeqEmpty
    <2> QED
      BY <2>1, ConcatEmptySeq
  <1>8. /\ \A i \in DOMAIN a : i \in DOMAIN l /\ a[i] = l[i]
        /\ \A i \in DOMAIN b : n + i \in DOMAIN l /\ b[i] = l[n + i]
    <2>1. DOMAIN a = 1..n /\ DOMAIN b = 1..(Len(l) - n) /\ DOMAIN l = 1..Len(l)
      BY <1>2, <1>3, LenProperties
    <2> HIDE DEF a, b
    <2> QED
      BY <1>0, <1>2, <1>3, <2>1
  <1> QED
    BY <1>2, <1>3, <1>5, <1>6, <1>7, <1>8

LEMMA ConcatAppend ==
  ASSUME NEW f \in Seq(Audit!Line), NEW b \in Seq(Audit!Line), NEW x \in Audit!Line
  PROVE  /\ f \o b \in Seq(Audit!Line)
         /\ Append(b, x) \in Seq(Audit!Line) /\ Append(b, x) # << >>
         /\ f \o Append(b, x) = Append(f \o b, x)
         /\ Len(f \o Append(b, x)) = Len(f) + Len(b) + 1
         /\ f \o Append(b, x) \in Seq(Audit!Line)
         /\ (f \o Append(b, x))[Len(f) + Len(b) + 1] = x
         /\ \A i \in 1..Len(f) : (f \o Append(b, x))[i] = f[i]
  <1>0. Len(f) \in Nat /\ Len(b) \in Nat
    BY LenProperties
  <1>1. /\ f \o b \in Seq(Audit!Line) /\ Len(f \o b) = Len(f) + Len(b)
        /\ \A i \in 1..Len(f) + Len(b) :
             (f \o b)[i] = IF i <= Len(f) THEN f[i] ELSE b[i - Len(f)]
    BY ConcatProperties
  <1>2. Append(b, x) \in Seq(Audit!Line) /\ Append(b, x) # << >>
    BY AppendProperties
  <1>3. <<x>> \in Seq(Audit!Line)
    OBVIOUS
  <1>4. f \o Append(b, x) = (f \o b) \o <<x>>
    BY <1>3, AppendIsConcat, LinesAssociate
  <1>5. (f \o b) \o <<x>> = Append(f \o b, x)
    BY <1>1, AppendIsConcat
  <1>6. /\ Append(f \o b, x) \in Seq(Audit!Line)
        /\ Len(Append(f \o b, x)) = Len(f \o b) + 1
        /\ \A i \in 1..Len(f \o b) : Append(f \o b, x)[i] = (f \o b)[i]
        /\ Append(f \o b, x)[Len(f \o b) + 1] = x
    BY <1>1, AppendProperties
  <1>7. ASSUME NEW i \in 1..Len(f)
        PROVE  Append(f \o b, x)[i] = f[i]
    <2>1. i \in 1..Len(f) + Len(b) /\ i \in 1..Len(f \o b) /\ i <= Len(f)
      BY <1>0, <1>1
    <2> QED
      BY <1>1, <1>6, <2>1
  <1> QED
    BY <1>1, <1>2, <1>4, <1>5, <1>6, <1>7

LEMMA RisingAppend ==
  ASSUME NEW l \in Seq(Audit!Line), NEW n \in Nat, Audit!Rising(l, n),
         NEW x \in Audit!Line, x.seq = n
  PROVE  Audit!Rising(Append(l, x), n + 1)
  <1> DEFINE u == Append(l, x)
  <1>1. /\ u \in Seq(Audit!Line) /\ Len(u) = Len(l) + 1 /\ Len(l) \in Nat
        /\ \A i \in 1..Len(l) : u[i] = l[i]
        /\ u[Len(l) + 1] = x
    BY AppendProperties, LenProperties
  <1>2. DOMAIN u = 1..(Len(l) + 1) /\ DOMAIN l = 1..Len(l)
    BY <1>1, LenProperties
  <1> HIDE DEF u
  <1>3. \A i \in DOMAIN l : l[i].seq \in Nat /\ l[i].seq < n
    <2>1. ASSUME NEW i \in DOMAIN l PROVE l[i] \in Audit!Line
      BY <1>2, ElementOfSeq
    <2> QED
      BY <2>1 DEF Audit!Rising, Audit!Line
  <1>4. ASSUME NEW i \in DOMAIN u
        PROVE  /\ u[i].seq < n + 1
               /\ \A j \in DOMAIN u : i < j => u[i].seq < u[j].seq
    <2>1. CASE i = Len(l) + 1
      BY <1>1, <1>2, <2>1
    <2>2. CASE i # Len(l) + 1
      <3>1. i \in DOMAIN l /\ u[i] = l[i]
        BY <1>1, <1>2, <2>2
      <3>2. ASSUME NEW j \in DOMAIN u, i < j PROVE u[i].seq < u[j].seq
        <4>1. CASE j = Len(l) + 1
          BY <1>1, <1>3, <3>1, <4>1
        <4>2. CASE j # Len(l) + 1
          <5>1. j \in DOMAIN l /\ u[j] = l[j]
            BY <1>1, <1>2, <4>2
          <5> QED
            BY <3>1, <3>2, <5>1 DEF Audit!Rising
        <4> QED
          BY <4>1, <4>2
      <3> QED
        BY <1>3, <3>1, <3>2
    <2> QED
      BY <2>1, <2>2
  <1>5. Audit!Rising(u, n + 1)
    BY <1>4 DEF Audit!Rising
  <1> QED
    BY <1>5 DEF u

LEMMA RisingWeaken ==
  ASSUME NEW l \in Seq(Audit!Line), NEW n \in Nat, NEW m \in Nat, n <= m,
         Audit!Rising(l, n)
  PROVE  Audit!Rising(l, m)
  <1>1. ASSUME NEW i \in DOMAIN l PROVE l[i].seq < m
    <2>1. l[i] \in Audit!Line
      BY LenProperties, ElementOfSeq
    <2>2. l[i].seq \in Nat /\ l[i].seq < n
      BY <2>1 DEF Audit!Rising, Audit!Line
    <2> QED
      BY <2>2
  <1> QED
    BY <1>1 DEF Audit!Rising

LEMMA RisingPrefix ==
  ASSUME NEW f \in Seq(Audit!Line), NEW g \in Seq(Audit!Line), NEW n \in Nat,
         Audit!Rising(f \o g, n)
  PROVE  Audit!Rising(f, n)
  <1>0. Len(f) \in Nat /\ Len(g) \in Nat /\ DOMAIN f = 1..Len(f)
    BY LenProperties
  <1>1. /\ f \o g \in Seq(Audit!Line) /\ Len(f \o g) = Len(f) + Len(g)
        /\ \A i \in 1..Len(f) + Len(g) :
             (f \o g)[i] = IF i <= Len(f) THEN f[i] ELSE g[i - Len(f)]
    BY ConcatProperties
  <1>2. DOMAIN (f \o g) = 1..Len(f) + Len(g)
    BY <1>1, LenProperties
  <1>3. ASSUME NEW i \in DOMAIN f
        PROVE  i \in DOMAIN (f \o g) /\ (f \o g)[i] = f[i]
    BY <1>0, <1>1, <1>2
  <1> QED
    BY <1>3 DEF Audit!Rising

\* The scan of open finds the last line.
LEMMA NewestIsLast ==
  ASSUME NEW l \in Seq(Audit!Line), l # << >>, NEW n \in Nat, Audit!Rising(l, n)
  PROVE  /\ Len(l) \in DOMAIN l /\ l[Len(l)] \in Audit!Line
         /\ Audit!NextSequence(l) = l[Len(l)].seq + 1
         /\ Audit!PreviousHash(l) = l[Len(l)].hash
         /\ Audit!NextSequence(l) \in Nat /\ Audit!NextSequence(l) <= n
         /\ Audit!Rising(l, Audit!NextSequence(l))
  <1>0. Len(l) \in Nat \ {0} /\ DOMAIN l = 1..Len(l)
    BY LenProperties, EmptySeq
  <1>1. \A i \in DOMAIN l : l[i] \in Audit!Line /\ l[i].seq \in Nat /\ l[i].seq < n
    <2>1. ASSUME NEW i \in DOMAIN l PROVE l[i] \in Audit!Line
      BY <1>0, ElementOfSeq
    <2> QED
      BY <2>1 DEF Audit!Rising, Audit!Line
  <1>2. Len(l) \in DOMAIN l
    BY <1>0
  <1>3. Audit!NewestFirst(l) = {Len(l)}
    <2>1. ASSUME NEW i \in Audit!NewestFirst(l) PROVE i = Len(l)
      <3>1. /\ i \in DOMAIN l
            /\ \/ l[Len(l)].seq < l[i].seq
               \/ Len(l) <= i
        BY <1>2 DEF Audit!NewestFirst
      <3>2. i < Len(l) => l[i].seq < l[Len(l)].seq
        BY <1>2, <3>1 DEF Audit!Rising
      <3>3. ~(i < Len(l))
        BY <1>1, <1>2, <3>1, <3>2, <1>0
      <3> QED
        BY <1>0, <3>1, <3>3
    <2>2. ASSUME NEW j \in DOMAIN l
          PROVE  \/ l[j].seq < l[Len(l)].seq
                 \/ l[j].seq = l[Len(l)].seq /\ j <= Len(l)
      <3>1. CASE j = Len(l)
        BY <1>0, <3>1
      <3>2. CASE j # Len(l)
        <4>1. j < Len(l)
          BY <1>0, <3>2
        <4> QED
          BY <1>2, <4>1 DEF Audit!Rising
      <3> QED
        BY <3>1, <3>2
    <2> QED
      BY <1>2, <2>1, <2>2 DEF Audit!NewestFirst
  <1>4. (CHOOSE i \in Audit!NewestFirst(l) : TRUE) = Len(l)
    BY <1>3
  <1>5. /\ Audit!NextSequence(l) = l[Len(l)].seq + 1
        /\ Audit!PreviousHash(l) = l[Len(l)].hash
    BY <1>4 DEF Audit!NextSequence, Audit!PreviousHash
  <1>6. ASSUME NEW i \in DOMAIN l PROVE l[i].seq < l[Len(l)].seq + 1
    <2>1. i = Len(l) \/ i < Len(l)
      BY <1>0
    <2>2. l[i].seq <= l[Len(l)].seq
      BY <1>1, <1>2, <2>1 DEF Audit!Rising
    <2> QED
      BY <1>1, <1>2, <2>2
  <1>7. Audit!Rising(l, Audit!NextSequence(l))
    BY <1>5, <1>6 DEF Audit!Rising
  <1> QED
    BY <1>1, <1>2, <1>5, <1>7

-----------------------------------------------------------------------------
(* The audit log: what a write does.                                        *)

LEMMA AuditInit ==
  ASSUME Audit!Init
  PROVE  Audit!AuditInv
  <1> USE DEF Audit!Init
  <1>0. /\ << >> \in Seq(Audit!Line) /\ Len(<< >>) = 0 /\ DOMAIN << >> = {}
        /\ << >> \o << >> = << >>
    BY EmptySeq, LenProperties, ConcatEmptySeq
  <1>1. Audit!TypeOK
    <2>1. Audit!End = 0
      BY <1>0 DEF Audit!End, Audit!HalfLine
    <2>2. 0 \in 0..MaxEvents /\ 0 \in 0..Audit!Garbled
      BY AuditFacts DEF Audit!Garbled
    <2>3. 0 \in 0..MaxFailures /\ 0 \in 0..MaxRestarts /\ 0 \in 0..Audit!End
      BY <2>1, AuditFacts
    <2>4. /\ vpc \in [Verifiers -> {"idle", "read"}]
          /\ expected \in [Verifiers -> 0..MaxEvents]
          /\ chain \in [Verifiers -> 0..MaxEvents]
          /\ held \in [Verifiers -> 0..Audit!Garbled]
          /\ verdict \in [Verifiers -> {"none", "ok", "error"}]
      BY <2>2
    <2>5. kills \in 0..restarts /\ {} \subseteq Audit!Event
      OBVIOUS
    <2> QED
      BY <1>0, <2>2, <2>3, <2>4, <2>5 DEF Audit!TypeOK
  <1>2. Audit!NumbersRise
    BY <1>0 DEF Audit!NumbersRise, Audit!Rising
  <1>3. Audit!ChainContinues
    BY <1>0 DEF Audit!ChainContinues, Audit!Intact
  <1>4. Audit!AckedOnDisk /\ Audit!VerifiersProgress
    BY DEF Audit!AckedOnDisk, Audit!VerifiersProgress
  <1>5. Audit!CutsExplain
    <2>1. Audit!Cardinality(Audit!Lost) = 0
      BY FS_EmptySet, AuditCounts DEF Audit!Lost
    <2> QED
      BY <1>0, <2>1 DEF Audit!CutsExplain, Audit!Cuts
  <1> QED
    BY <1>1, <1>2, <1>3, <1>4, <1>5 DEF Audit!AuditInv

\* Lines that were not acknowledged, of events up to the next one.
Unacked(l) == \A i \in DOMAIN l : l[i].hash <= events + 1 /\ l[i].hash \notin acked

LEMMA AckedKnown ==
  ASSUME Audit!TypeOK, Audit!AckedOnDisk, Audit!CutsExplain
  PROVE  \A e \in acked : e \in Nat /\ e <= events
  BY AuditFacts DEF Audit!TypeOK, Audit!AckedOnDisk, Audit!CutsExplain, Audit!Event

\* What a write spoils was not acknowledged before.
LEMMA SpoilsFacts ==
  ASSUME Audit!TypeOK, Audit!CutsExplain, NEW a \in Seq(Audit!Line), Unacked(a)
  PROVE  /\ Audit!Spoils(a) \cap acked = {}
         /\ Audit!Spoils(a) \subseteq 1..(events + 1)
         /\ Audit!Spoils(a) \subseteq Audit!Event
         /\ Audit!Sound => Audit!Spoils(a) = {}
  <1>0. /\ file \in Seq(Audit!Line) /\ Len(file) \in Nat /\ events \in Nat
        /\ DOMAIN file = 1..Len(file)
    BY LenProperties, AuditFacts DEF Audit!TypeOK
  <1>1. Audit!Sound => Audit!Spoils(a) = {}
    BY DEF Audit!Spoils
  <1>2. ASSUME NEW e \in Audit!Spoils(a)
        PROVE  e \notin acked /\ e \in 1..(events + 1) /\ e \in Audit!Event
    <2>1. \/ \E i \in DOMAIN a : e = a[i].hash
          \/ torn = "bare" /\ e = file[Len(file)].hash
      BY <1>2 DEF Audit!Spoils
    <2>2. CASE \E i \in DOMAIN a : e = a[i].hash
      <3>1. PICK i \in DOMAIN a : e = a[i].hash
        BY <2>2
      <3>2. a[i] \in Audit!Line
        BY LenProperties, ElementOfSeq
      <3>3. e \in Audit!Event /\ e <= events + 1 /\ e \notin acked
        BY <3>1, <3>2 DEF Audit!Line, Unacked
      <3> QED
        BY <1>0, <3>3, AuditFacts DEF Audit!Event
    <2>3. CASE torn = "bare" /\ e = file[Len(file)].hash
      <3>1. file # << >> /\ e \notin acked
        BY <2>3 DEF Audit!CutsExplain
      <3>2. Len(file) \in DOMAIN file
        BY <1>0, <3>1, EmptySeq
      <3>3. file[Len(file)] \in Audit!Line /\ file[Len(file)].hash <= events
        BY <1>0, <3>2, ElementOfSeq DEF Audit!CutsExplain
      <3>4. e \in Audit!Event /\ e <= events
        BY <2>3, <3>3 DEF Audit!Line
      <3> QED
        BY <1>0, <3>1, <3>4, AuditFacts DEF Audit!Event
    <2> QED
      BY <2>1, <2>2, <2>3
  <1> QED
    BY <1>1, <1>2

\* The hashes in a file that has grown.
LEMMA HashesKnown ==
  ASSUME Audit!TypeOK, Audit!CutsExplain, NEW a \in Seq(Audit!Line),
         file' = file \o a, NEW m \in Nat, events <= m,
         \A i \in DOMAIN a : a[i].hash <= m
  PROVE  /\ file' \in Seq(Audit!Line) /\ Len(file') = Len(file) + Len(a)
         /\ \A i \in DOMAIN file' : file'[i].hash <= m
         /\ a # << >> => /\ file' # << >>
                         /\ Len(a) \in DOMAIN a
                         /\ file'[Len(file')] = a[Len(a)]
  <1>1. /\ file \in Seq(Audit!Line) /\ Len(file) \in Nat /\ Len(a) \in Nat
        /\ DOMAIN file = 1..Len(file) /\ DOMAIN a = 1..Len(a) /\ events \in Nat
    BY LenProperties DEF Audit!TypeOK
  <1>2. /\ file' \in Seq(Audit!Line) /\ Len(file') = Len(file) + Len(a)
        /\ \A i \in 1..Len(file) + Len(a) :
             file'[i] = IF i <= Len(file) THEN file[i] ELSE a[i - Len(file)]
    BY <1>1, ConcatProperties
  <1>3. DOMAIN file' = 1..Len(file) + Len(a)
    BY <1>2, LenProperties
  <1>4. ASSUME NEW i \in DOMAIN file' PROVE file'[i].hash <= m
    <2>1. CASE i <= Len(file)
      <3>1. i \in DOMAIN file /\ file'[i] = file[i]
        BY <1>1, <1>2, <1>3, <2>1
      <3>2. file[i] \in Audit!Line /\ file[i].hash <= events
        BY <1>1, <3>1, ElementOfSeq DEF Audit!CutsExplain
      <3>3. file[i].hash \in Nat
        BY <3>2 DEF Audit!Line, Audit!Event
      <3> QED
        BY <1>1, <3>1, <3>2, <3>3
    <2>2. CASE ~(i <= Len(file))
      <3>1. i - Len(file) \in DOMAIN a /\ file'[i] = a[i - Len(file)]
        BY <1>1, <1>2, <1>3, <2>2
      <3> QED
        BY <3>1
    <2> QED
      BY <2>1, <2>2
  <1>5. ASSUME a # << >>
        PROVE  /\ file' # << >> /\ Len(a) \in DOMAIN a
               /\ file'[Len(file')] = a[Len(a)]
    <2>1. Len(a) # 0
      BY <1>5, EmptySeq
    <2>2. Len(a) \in DOMAIN a /\ Len(file) + Len(a) \in 1..Len(file) + Len(a)
      BY <1>1, <2>1
    <2>3. file'[Len(file')] = a[Len(a)]
      BY <1>1, <1>2, <2>1, <2>2
    <2>4. file' # << >>
      BY <1>1, <1>2, <2>1, EmptySeq
    <2> QED
      BY <2>2, <2>3, <2>4
  <1> QED
    BY <1>2, <1>4, <1>5

\* What is lost grows by the acknowledged event at most, and not at all if that
\* one is not spoiled.
LEMMA LostGrows ==
  ASSUME Audit!TypeOK, NEW S, S \cap acked = {},
         spoiled' \subseteq spoiled \cup S, NEW x, acked' \subseteq acked \cup {x}
  PROVE  /\ Audit!Cardinality(Audit!Lost) \in Nat /\ Audit!Cardinality(Audit!Lost') \in Nat
         /\ Audit!Cardinality(Audit!Lost') <= Audit!Cardinality(Audit!Lost) + 1
         /\ x \notin acked' \/ x \notin spoiled' =>
              Audit!Cardinality(Audit!Lost') <= Audit!Cardinality(Audit!Lost)
  <1> DEFINE L == Audit!Lost
             M == Audit!Lost'
  <1>1. IsFiniteSet(L)
    <2>1. L \subseteq 1..MaxEvents
      BY DEF Audit!Lost, Audit!TypeOK, Audit!Event
    <2>2. IsFiniteSet(1..MaxEvents)
      BY AuditFacts, FS_Interval
    <2> QED
      BY <2>1, <2>2, FS_Subset
  <1>2. M \subseteq L \cup {x} /\ (x \notin acked' \/ x \notin spoiled' => M \subseteq L)
    BY DEF Audit!Lost
  <1> HIDE DEF L, M
  <1>3. /\ IsFiniteSet(L \cup {x})
        /\ Cardinality(L \cup {x}) = IF x \in L THEN Cardinality(L)
                                     ELSE Cardinality(L) + 1
    BY <1>1, FS_AddElement
  <1>4. Cardinality(L) \in Nat
    BY <1>1, FS_CardinalityType
  <1>5. IsFiniteSet(M) /\ Cardinality(M) <= Cardinality(L \cup {x})
    BY <1>2, <1>3, FS_Subset
  <1>6. Cardinality(M) \in Nat /\ (M \subseteq L => Cardinality(M) <= Cardinality(L))
    BY <1>1, <1>5, FS_Subset, FS_CardinalityType
  <1>7. Cardinality(M) <= Cardinality(L) + 1
    BY <1>3, <1>4, <1>5, <1>6
  <1> QED
    BY <1>2, <1>4, <1>6, <1>7, AuditCounts DEF L, M

\* A cut accounts for what the file ends in.
LEMMA CutsStop ==
  ASSUME Audit!AuditInv, NEW l \in Seq(Audit!Line), NEW n \in 0..Len(l),
         Unacked(l), file' = file \o SubSeq(l, 1, n),
         spoiled' = spoiled \cup Audit!Spoils(SubSeq(l, 1, n)),
         events' = events + 1, acked' = acked,
         Audit!Cuts' = Audit!Cuts + 1,
         torn' \in {"line", "bare"} => n > 0,
         buffer' \in {SubSeq(l, n + 1, Len(l)), << >>}
  PROVE  /\ Audit!CutsExplain' /\ spoiled' \subseteq Audit!Event
         /\ file' \in Seq(Audit!Line) /\ buffer' \in Seq(Audit!Line)
  <1> USE DEF Audit!AuditInv
  <1> DEFINE a == SubSeq(l, 1, n)
             b == SubSeq(l, n + 1, Len(l))
  <1>0. /\ file \in Seq(Audit!Line) /\ events \in Nat /\ events + 1 \in Nat
        /\ events <= events + 1 /\ n \in Nat /\ Audit!Cuts \in Nat
        /\ spoiled \subseteq Audit!Event
    BY LenProperties DEF Audit!TypeOK, Audit!Cuts
  <1>1. /\ a \in Seq(Audit!Line) /\ b \in Seq(Audit!Line) /\ Len(a) = n
        /\ \A i \in DOMAIN a : i \in DOMAIN l /\ a[i] = l[i]
        /\ \A i \in DOMAIN b : n + i \in DOMAIN l /\ b[i] = l[n + i]
    BY <1>0, LinesSplit
  <1>2. file' = file \o a /\ buffer' \in {b, << >>}
        /\ spoiled' = spoiled \cup Audit!Spoils(a)
    OBVIOUS
  <1> HIDE DEF a, b
  <1>3. Unacked(a) /\ Unacked(b)
    BY <1>1 DEF Unacked
  <1>4. /\ Audit!Spoils(a) \cap acked = {}
        /\ Audit!Spoils(a) \subseteq 1..(events + 1)
        /\ Audit!Spoils(a) \subseteq Audit!Event
    BY <1>1, <1>3, SpoilsFacts
  <1>5. /\ \A i \in DOMAIN file' : file'[i].hash <= events'
        /\ file' \in Seq(Audit!Line)
        /\ a # << >> => /\ file' # << >> /\ Len(a) \in DOMAIN a
                        /\ file'[Len(file')] = a[Len(a)]
    BY <1>0, <1>1, <1>2, <1>3, HashesKnown DEF Unacked
  <1>6. \A i \in DOMAIN buffer' :
           buffer'[i].hash <= events' /\ buffer'[i].hash \notin acked'
    <2>1. CASE buffer' = b
      BY <1>3, <2>1 DEF Unacked
    <2>2. CASE buffer' = << >>
      BY <2>2, EmptySeq
    <2> QED
      BY <1>2, <2>1, <2>2
  <1>7. spoiled' \subseteq 1..events'
    <2>1. spoiled \subseteq 1..(events + 1)
      BY <1>0 DEF Audit!CutsExplain
    <2> QED
      BY <1>2, <1>4, <2>1
  <1>8. torn' \in {"line", "bare"} =>
           file' # << >> /\ file'[Len(file')].hash \notin acked'
    <2>1. n > 0 => a # << >>
      BY <1>0, <1>1, EmptySeq
    <2> QED
      BY <1>3, <1>5, <2>1 DEF Unacked
  <1>9. Audit!Cardinality(Audit!Lost') + (IF torn' = "no" THEN 0 ELSE 1) <= Audit!Cuts'
    <2>1. /\ Audit!Cardinality(Audit!Lost) \in Nat /\ Audit!Cardinality(Audit!Lost') \in Nat
          /\ Audit!Cardinality(Audit!Lost') <= Audit!Cardinality(Audit!Lost)
      <3>1. events + 1 \notin acked'
        BY <1>0, AckedKnown
      <3> QED
        BY <1>2, <1>4, <3>1, LostGrows
    <2>2. Audit!Cardinality(Audit!Lost) <= Audit!Cuts
      BY <1>0, <2>1 DEF Audit!CutsExplain
    <2> QED
      BY <1>0, <2>1, <2>2
  <1>10. Audit!CutsExplain'
    BY <1>5, <1>6, <1>7, <1>8, <1>9 DEF Audit!CutsExplain
  <1> QED
    BY <1>0, <1>1, <1>2, <1>4, <1>5, <1>10, EmptySeq

\* A step that writes nothing.
LEMMA CutsUnwritten ==
  ASSUME Audit!AuditInv, NEW b \in Seq(Audit!Line), buffer' = b,
         Unacked(b), UNCHANGED <<file, torn, spoiled, acked>>,
         events' = events + 1, Audit!Cuts' = Audit!Cuts + 1
  PROVE  Audit!CutsExplain'
  <1> USE DEF Audit!AuditInv
  <1>0. /\ events \in Nat /\ Audit!Cuts \in Nat /\ spoiled \subseteq 1..events'
        /\ file \in Seq(Audit!Line)
    BY DEF Audit!TypeOK, Audit!Cuts, Audit!CutsExplain
  <1>1. ASSUME NEW i \in DOMAIN file PROVE file[i].hash <= events'
    <2>1. file[i] \in Audit!Line /\ file[i].hash <= events
      BY <1>0, LenProperties, ElementOfSeq DEF Audit!CutsExplain
    <2> QED
      BY <1>0, <2>1 DEF Audit!Line, Audit!Event
  <1>2. Audit!Cardinality(Audit!Lost') = Audit!Cardinality(Audit!Lost)
    BY DEF Audit!Lost
  <1>3. Audit!Cardinality(Audit!Lost) \in Nat
    <2>1. /\ {} \cap acked = {} /\ spoiled' \subseteq spoiled \cup {}
          /\ acked' \subseteq acked \cup {0}
      OBVIOUS
    <2> QED
      BY <2>1, LostGrows
  <1>4. Audit!Cardinality(Audit!Lost') + (IF torn' = "no" THEN 0 ELSE 1) <= Audit!Cuts'
    BY <1>0, <1>2, <1>3 DEF Audit!CutsExplain
  <1> QED
    BY <1>0, <1>1, <1>4 DEF Audit!CutsExplain, Unacked

LEMMA AckKept ==
  ASSUME Audit!TypeOK, Audit!AckedOnDisk, NEW a \in Seq(Audit!Line),
         file' = file \o a
  PROVE  \A e \in acked : \E i \in DOMAIN file' : file'[i].hash = e
  <1>1. /\ file \in Seq(Audit!Line) /\ Len(file) \in Nat /\ Len(a) \in Nat
        /\ DOMAIN file = 1..Len(file)
    BY LenProperties DEF Audit!TypeOK
  <1>2. /\ file' \in Seq(Audit!Line) /\ Len(file') = Len(file) + Len(a)
        /\ \A i \in 1..Len(file) + Len(a) :
             file'[i] = IF i <= Len(file) THEN file[i] ELSE a[i - Len(file)]
    BY <1>1, ConcatProperties
  <1>3. DOMAIN file' = 1..Len(file) + Len(a)
    BY <1>2, LenProperties
  <1>4. ASSUME NEW i \in DOMAIN file
        PROVE  i \in DOMAIN file' /\ file'[i] = file[i]
    BY <1>1, <1>2, <1>3
  <1> QED
    BY <1>4 DEF Audit!AckedOnDisk

\* A write moves the offset under every verifier.
LEMMA WrittenShared ==
  ASSUME Audit!TypeOK, Audit!VerifiersProgress, Audit!Written,
         file' \in Seq(Audit!Line), UNCHANGED vpc,
         log' = "open" \/ \A v \in Verifiers : vpc[v] # "read"
  PROVE  /\ offset' \in 0..Audit!End' /\ disturbed' \subseteq Verifiers
         /\ Audit!VerifiersProgress'
  <1>1. Len(file') \in Nat
    BY LenProperties
  <1>2. Audit!End' \in Nat
    BY <1>1 DEF Audit!End, Audit!HalfLine
  <1>3. offset' = Audit!End' /\ disturbed' = {v \in Verifiers : vpc[v] = "read"}
    BY DEF Audit!Written
  <1> QED
    BY <1>2, <1>3 DEF Audit!VerifiersProgress

LEMMA FlatShared ==
  ASSUME Audit!TypeOK, Audit!VerifiersProgress,
         UNCHANGED <<file, torn, spoiled, vpc, expected, chain, held, offset,
                     disturbed>>,
         log' = "open" \/ log' = log
  PROVE  /\ offset' \in 0..Audit!End' /\ disturbed' \subseteq Verifiers
         /\ Audit!VerifiersProgress'
  BY DEF Audit!TypeOK, Audit!End, Audit!HalfLine, Audit!VerifiersProgress,
         Audit!Progress, Audit!Follows

LEMMA EventNumbers ==
  ASSUME Audit!AuditInv, Audit!Append_
  PROVE  /\ events' = events + 1 /\ sequence' = sequence + 1
         /\ events \in Nat /\ sequence \in Nat /\ sequence' <= events'
         /\ events' \in 0..MaxEvents /\ sequence' \in 0..MaxEvents
         /\ log = "open"
         /\ Audit!NewLine \in Audit!Line
         /\ Audit!NewLine.seq = sequence /\ Audit!NewLine.hash = events + 1
         /\ Audit!NewLine.prev = previous
         /\ Audit!Pending \in Seq(Audit!Line) /\ Audit!Pending # << >>
         /\ Len(Audit!Pending) = Len(buffer) + 1
         /\ Unacked(Audit!Pending) /\ Unacked(buffer)
  <1>1. /\ events' = events + 1 /\ sequence' = sequence + 1
        /\ events \in Nat /\ sequence \in Nat /\ sequence <= events
        /\ events < MaxEvents /\ log = "open" /\ previous \in 0..MaxEvents
        /\ buffer \in Seq(Audit!Line)
    BY DEF Audit!AuditInv, Audit!Append_, Audit!NumbersRise, Audit!TypeOK
  <1>2. Audit!NewLine \in Audit!Line
    BY <1>1, AuditFacts DEF Audit!NewLine, Audit!Line, Audit!Event
  <1>3. /\ Audit!Pending \in Seq(Audit!Line) /\ Audit!Pending # << >>
        /\ Len(Audit!Pending) = Len(buffer) + 1
    BY <1>1, <1>2, AppendProperties DEF Audit!Pending
  <1>4. /\ Audit!NewLine.seq = sequence /\ Audit!NewLine.hash = events + 1
        /\ Audit!NewLine.prev = previous
    BY DEF Audit!NewLine
  <1>5. Unacked(buffer)
    <2>1. ASSUME NEW i \in DOMAIN buffer
          PROVE  buffer[i].hash <= events + 1 /\ buffer[i].hash \notin acked
      <3>1. /\ buffer[i] \in Audit!Line /\ buffer[i].hash <= events
            /\ buffer[i].hash \notin acked
        BY <1>1, LenProperties, ElementOfSeq DEF Audit!AuditInv, Audit!CutsExplain
      <3> QED
        BY <1>1, <3>1 DEF Audit!Line, Audit!Event
    <2> QED
      BY <2>1 DEF Unacked
  <1>6. events + 1 \notin acked
    BY <1>1, AckedKnown DEF Audit!AuditInv
  <1>7. Unacked(Audit!Pending)
    <2> DEFINE x == Audit!NewLine
    <2>0. x \in Audit!Line /\ x.hash = events + 1 /\ Audit!Pending = Append(buffer, x)
      BY <1>2, <1>4 DEF Audit!Pending
    <2> HIDE DEF x
    <2>1. /\ Len(Append(buffer, x)) = Len(buffer) + 1 /\ Len(buffer) \in Nat
          /\ \A i \in 1..Len(buffer) : Append(buffer, x)[i] = buffer[i]
          /\ Append(buffer, x)[Len(buffer) + 1] = x
          /\ DOMAIN Append(buffer, x) = 1..(Len(buffer) + 1)
          /\ DOMAIN buffer = 1..Len(buffer)
      BY <1>1, <2>0, AppendProperties, LenProperties
    <2>2. ASSUME NEW i \in DOMAIN Append(buffer, x)
          PROVE  /\ Append(buffer, x)[i].hash <= events + 1
                 /\ Append(buffer, x)[i].hash \notin acked
      <3>1. CASE i = Len(buffer) + 1
        BY <1>1, <1>6, <2>0, <2>1, <3>1
      <3>2. CASE i # Len(buffer) + 1
        BY <1>5, <2>1, <3>2 DEF Unacked
      <3> QED
        BY <3>1, <3>2
    <2> QED
      BY <2>0, <2>2 DEF Unacked
  <1> QED
    BY <1>1, <1>2, <1>3, <1>4, <1>5, <1>7, AuditFacts

\* append, which flushes all that an earlier failure left and then the new line.
LEMMA AppendOkInv ==
  ASSUME Audit!AuditInv, Audit!AppendOk
  PROVE  Audit!AuditInv'
  <1> USE DEF Audit!AuditInv
  <1> DEFINE x == Audit!NewLine
  <1>0. /\ file' = file \o Append(buffer, x) /\ torn' = "no" /\ buffer' = << >>
        /\ Audit!Pending = Append(buffer, x)
        /\ spoiled' = spoiled \cup Audit!Spoils(Audit!Pending)
        /\ Audit!Written /\ previous' = x.hash /\ acked' = acked \cup {events + 1}
        /\ UNCHANGED <<log, failures, restarts, kills, vpc, expected, chain, held,
                       verdict>>
    BY DEF Audit!AppendOk, Audit!Extend, Audit!Pending, Audit!verifyVars
  <1>1. /\ events' = events + 1 /\ sequence' = sequence + 1
        /\ events \in Nat /\ sequence \in Nat /\ sequence' <= events'
        /\ events' \in 0..MaxEvents /\ sequence' \in 0..MaxEvents
        /\ log = "open" /\ x \in Audit!Line /\ x.seq = sequence
        /\ x.hash = events + 1 /\ x.prev = previous
        /\ Audit!Pending \in Seq(Audit!Line) /\ Unacked(Audit!Pending)
    BY EventNumbers DEF Audit!AppendOk
  <1>2. /\ file \in Seq(Audit!Line) /\ buffer \in Seq(Audit!Line)
        /\ Len(file) \in Nat /\ Len(buffer) \in Nat /\ DOMAIN file = 1..Len(file)
    BY LenProperties DEF Audit!TypeOK
  <1> HIDE DEF x
  <1>3. /\ file \o buffer \in Seq(Audit!Line)
        /\ Append(buffer, x) \in Seq(Audit!Line)
        /\ file' = Append(file \o buffer, x)
        /\ Len(file') = Len(file) + Len(buffer) + 1
        /\ file' \in Seq(Audit!Line)
        /\ file'[Len(file) + Len(buffer) + 1] = x
        /\ \A i \in 1..Len(file) : file'[i] = file[i]
    BY <1>0, <1>1, <1>2, ConcatAppend
  <1>4. DOMAIN file' = 1..(Len(file) + Len(buffer) + 1)
    BY <1>3, LenProperties
  <1>5. Audit!AckedOnDisk'
    <2>1. \A e \in acked : \E i \in DOMAIN file' : file'[i].hash = e
      BY <1>0, <1>3, AckKept
    <2>2. /\ Len(file) + Len(buffer) + 1 \in DOMAIN file'
          /\ file'[Len(file) + Len(buffer) + 1].hash = events + 1
      BY <1>1, <1>2, <1>3, <1>4
    <2> QED
      BY <1>0, <2>1, <2>2 DEF Audit!AckedOnDisk
  <1>6. Audit!NumbersRise'
    <2>1. Audit!Rising(file', sequence')
      BY <1>1, <1>3, RisingAppend DEF Audit!NumbersRise
    <2>2. file' \o buffer' = file' /\ Len(buffer') = 0
      BY <1>0, <1>3, ConcatEmptySeq, EmptySeq
    <2>3. Len(file') + Len(buffer') <= events'
      BY <1>1, <1>2, <1>3, <2>2 DEF Audit!NumbersRise
    <2>4. Audit!Rising(file \o buffer, sequence)'
      BY <2>1, <2>2 DEF Audit!Rising
    <2> QED
      BY <1>0, <1>1, <2>3, <2>4 DEF Audit!NumbersRise
  <1>7. Audit!ChainContinues'
    <2> SUFFICES ASSUME Audit!Cuts = 0
                 PROVE  /\ Audit!Intact(file) '
                        /\ sequence' = Len(file')
                        /\ previous' = file'[Len(file')].hash
                        /\ file' # << >>
      BY <1>0 DEF Audit!ChainContinues, Audit!Cuts
    <2>1. /\ buffer = << >> /\ Audit!Intact(file) /\ sequence = Len(file)
          /\ previous = IF file = << >> THEN 0 ELSE file[Len(file)].hash
          /\ Len(buffer) = 0 /\ torn = "no"
      BY EmptySeq DEF Audit!ChainContinues
    <2>0. spoiled' = spoiled /\ events + 1 \notin spoiled
      <3>1. Audit!Spoils(Audit!Pending) = {}
        BY <2>1 DEF Audit!Spoils, Audit!Sound
      <3> QED
        BY <1>0, <1>1, <3>1 DEF Audit!CutsExplain
    <2>2. Len(file') = Len(file) + 1 /\ file'[Len(file) + 1] = x
          /\ DOMAIN file' = 1..(Len(file) + 1)
      BY <1>2, <1>3, <1>4, <2>1
    <2>3. ASSUME NEW i \in DOMAIN file'
          PROVE  /\ file'[i].hash \notin spoiled'
                 /\ file'[i].seq = i - 1
                 /\ file'[i].prev = IF i = 1 THEN 0 ELSE file'[i - 1].hash
      <3>1. CASE i = Len(file) + 1
        <4>1. CASE file = << >>
          BY <1>1, <1>2, <2>0, <2>1, <2>2, <3>1, <4>1, EmptySeq
        <4>2. CASE file # << >>
          <5>1. Len(file) \in 1..Len(file)
            BY <1>2, <4>2, EmptySeq
          <5>2. file'[i - 1] = file[Len(file)] /\ i # 1
            BY <1>2, <1>3, <3>1, <5>1
          <5> QED
            BY <1>1, <1>2, <2>0, <2>1, <2>2, <3>1, <4>2, <5>2
        <4> QED
          BY <4>1, <4>2
      <3>2. CASE i # Len(file) + 1
        <4>1. i \in DOMAIN file /\ i \in 1..Len(file)
          BY <1>2, <2>2, <3>2
        <4>2. i # 1 => i - 1 \in 1..Len(file)
          BY <1>2, <4>1
        <4> QED
          BY <1>3, <2>0, <2>1, <4>1, <4>2 DEF Audit!Intact, Audit!Follows
      <3> QED
        BY <3>1, <3>2
    <2>4. Audit!Intact(file)'
      BY <2>3 DEF Audit!Intact, Audit!Follows
    <2>5. file' # << >>
      BY <1>2, <2>2, EmptySeq
    <2> QED
      BY <1>0, <1>1, <2>1, <2>2, <2>4, <2>5
  <1>8. /\ offset' \in 0..Audit!End' /\ disturbed' \subseteq Verifiers
        /\ Audit!VerifiersProgress'
    BY <1>0, <1>1, <1>3, WrittenShared
  <1>10. /\ Audit!Spoils(Audit!Pending) \cap acked = {}
         /\ Audit!Spoils(Audit!Pending) \subseteq 1..(events + 1)
         /\ Audit!Spoils(Audit!Pending) \subseteq Audit!Event
         /\ Audit!Sound => Audit!Spoils(Audit!Pending) = {}
    BY <1>1, SpoilsFacts
  <1>9. Audit!TypeOK'
    <2>1. x.hash \in 0..MaxEvents /\ acked' \subseteq Audit!Event
      BY <1>0, <1>1, AuditFacts DEF Audit!Line, Audit!Event, Audit!TypeOK
    <2>2. << >> \in Seq(Audit!Line)
      BY EmptySeq
    <2>3. spoiled' \subseteq Audit!Event
      BY <1>0, <1>10 DEF Audit!TypeOK
    <2> QED
      BY <1>0, <1>1, <1>3, <1>8, <2>1, <2>2, <2>3 DEF Audit!TypeOK, Audit!Garbled
  <1>11. Audit!CutsExplain'
    <2>1. \A i \in DOMAIN file' : file'[i].hash <= events'
      <3>1. \A i \in DOMAIN Audit!Pending : Audit!Pending[i].hash <= events + 1
        BY <1>1 DEF Unacked
      <3>2. file' = file \o Audit!Pending /\ events + 1 \in Nat /\ events <= events + 1
        BY <1>0, <1>1
      <3> HIDE DEF Audit!Pending
      <3> QED
        BY <1>1, <3>1, <3>2, HashesKnown
    <2>2. spoiled' \subseteq 1..events'
      <3>1. spoiled \subseteq 1..(events + 1)
        BY <1>1 DEF Audit!CutsExplain
      <3> QED
        BY <1>0, <1>1, <1>10, <3>1
    <2>3. /\ Audit!Cardinality(Audit!Lost) \in Nat /\ Audit!Cardinality(Audit!Lost') \in Nat
          /\ Audit!Cardinality(Audit!Lost') <= Audit!Cardinality(Audit!Lost) + 1
          /\ events + 1 \notin spoiled' =>
               Audit!Cardinality(Audit!Lost') <= Audit!Cardinality(Audit!Lost)
      BY <1>0, <1>10, LostGrows
    <2>4. torn = "no" => events + 1 \notin spoiled'
      <3>1. torn = "no" => spoiled' = spoiled
        BY <1>0, <1>10 DEF Audit!Sound
      <3> QED
        BY <1>1, <3>1 DEF Audit!CutsExplain
    <2>5. Audit!Cuts' = Audit!Cuts /\ Audit!Cuts \in Nat
      BY <1>0 DEF Audit!Cuts, Audit!TypeOK
    <2>6. Audit!Cardinality(Audit!Lost') <= Audit!Cuts'
      BY <2>3, <2>4, <2>5 DEF Audit!CutsExplain
    <2>7. DOMAIN buffer' = {}
      BY <1>0, EmptySeq
    <2> QED
      BY <1>0, <2>1, <2>2, <2>3, <2>5, <2>6, <2>7 DEF Audit!CutsExplain
  <1> QED
    BY <1>5, <1>6, <1>7, <1>8, <1>9, <1>11

\* A write that stops: the lines are behind the file, some of them buffered or
\* lost.
LEMMA StoppedWriteInv ==
  ASSUME Audit!AuditInv, Audit!Append_, NEW l \in Seq(Audit!Line),
         NEW n \in 0..Len(l), Unacked(l),
         Audit!Rising(file \o l, sequence + 1), Len(l) <= Len(buffer) + 1,
         file' = file \o SubSeq(l, 1, n),
         spoiled' = spoiled \cup Audit!Spoils(SubSeq(l, 1, n)),
         buffer' \in {SubSeq(l, n + 1, Len(l)), << >>},
         torn' \in {"line", "bare"} => n > 0,
         log' # "open" => buffer' = << >>,
         Audit!Cuts' = Audit!Cuts + 1, UNCHANGED acked
  PROVE  /\ file' \in Seq(Audit!Line) /\ buffer' \in Seq(Audit!Line)
         /\ spoiled' \subseteq Audit!Event
         /\ Audit!NumbersRise' /\ Audit!ChainContinues' /\ Audit!AckedOnDisk'
         /\ Audit!CutsExplain'
  <1> USE DEF Audit!AuditInv
  <1> DEFINE a == SubSeq(l, 1, n)
             b == SubSeq(l, n + 1, Len(l))
  <1>0. /\ file \in Seq(Audit!Line) /\ Len(file) \in Nat /\ Len(l) \in Nat
        /\ Len(buffer) \in Nat /\ Len(file) + Len(buffer) <= events
        /\ Audit!Cuts \in Nat
    BY LenProperties DEF Audit!TypeOK, Audit!NumbersRise, Audit!Cuts
  <1>1. /\ events' = events + 1 /\ sequence' = sequence + 1
        /\ events \in Nat /\ sequence \in Nat /\ sequence' <= events'
    BY EventNumbers
  <1>2. /\ a \in Seq(Audit!Line) /\ b \in Seq(Audit!Line)
        /\ Len(a) = n /\ Len(b) = Len(l) - n
        /\ (file \o a) \in Seq(Audit!Line)
        /\ (file \o a) \o b = file \o l
    BY <1>0, LinesSplit
  <1>3. file' = file \o a /\ buffer' \in {b, << >>}
    OBVIOUS
  <1>4. /\ Audit!CutsExplain' /\ spoiled' \subseteq Audit!Event
        /\ file' \in Seq(Audit!Line) /\ buffer' \in Seq(Audit!Line)
    BY <1>1, CutsStop
  <1> HIDE DEF a, b
  <1>5. Audit!Rising(file' \o buffer', sequence')
    <2>1. CASE buffer' = b
      BY <1>1, <1>2, <1>3, <2>1
    <2>2. CASE buffer' = << >>
      <3>1. file' \o buffer' = file'
        BY <1>2, <1>3, <2>2, ConcatEmptySeq
      <3>2. Audit!Rising(file', sequence + 1)
        <4>1. Audit!Rising((file \o a) \o b, sequence + 1) /\ sequence + 1 \in Nat
          BY <1>1, <1>2
        <4> QED
          BY <1>2, <1>3, <4>1, RisingPrefix
      <3> QED
        BY <1>1, <3>1, <3>2
    <2> QED
      BY <1>3, <2>1, <2>2
  <1>6. Len(file') + Len(buffer') <= events'
    <2>1. Len(file') = Len(file) + n
      BY <1>0, <1>2, <1>3, ConcatProperties
    <2>2. Len(buffer') \in Nat /\ Len(buffer') <= Len(l) - n
      BY <1>0, <1>2, <1>3, EmptySeq
    <2> QED
      BY <1>0, <1>1, <2>1, <2>2
  <1>7. Audit!NumbersRise'
    <2>1. Audit!Rising(file \o buffer, sequence)'
      BY <1>5 DEF Audit!Rising
    <2> QED
      BY <1>1, <1>6, <2>1 DEF Audit!NumbersRise
  <1>8. Audit!ChainContinues'
    <2>1. Audit!Cuts' # 0
      BY <1>0
    <2> QED
      BY <2>1 DEF Audit!ChainContinues
  <1>9. Audit!AckedOnDisk'
    BY <1>2, <1>3, AckKept DEF Audit!AckedOnDisk
  <1> QED
    BY <1>4, <1>7, <1>8, <1>9

\* A write that does not begin.
LEMMA NoWriteInv ==
  ASSUME Audit!AuditInv, Audit!Append_, NEW l \in Seq(Audit!Line), Unacked(l),
         Audit!Rising(file \o l, sequence + 1), Len(l) <= Len(buffer) + 1,
         buffer' = l, log' = "open",
         UNCHANGED <<file, torn, spoiled, acked>>, Audit!Cuts' = Audit!Cuts + 1
  PROVE  /\ Audit!NumbersRise' /\ Audit!ChainContinues' /\ Audit!AckedOnDisk'
         /\ Audit!CutsExplain'
  <1> USE DEF Audit!AuditInv
  <1>1. /\ events' = events + 1 /\ sequence' = sequence + 1
        /\ events \in Nat /\ sequence \in Nat /\ sequence' <= events'
    BY EventNumbers
  <1>2. Audit!CutsExplain'
    BY <1>1, CutsUnwritten
  <1>3. Audit!NumbersRise'
    <2>1. Audit!Rising(file \o buffer, sequence)'
      BY <1>1 DEF Audit!Rising
    <2>2. /\ Len(file) \in Nat /\ Len(buffer) \in Nat /\ Len(l) \in Nat
          /\ Len(file) + Len(buffer) <= events
      BY LenProperties DEF Audit!TypeOK, Audit!NumbersRise
    <2>3. Len(file') + Len(buffer') <= events'
      BY <1>1, <2>2
    <2> QED
      BY <1>1, <2>1, <2>3 DEF Audit!NumbersRise
  <1>4. Audit!ChainContinues'
    <2>1. Audit!Cuts' # 0
      BY DEF Audit!Cuts, Audit!TypeOK
    <2> QED
      BY <2>1 DEF Audit!ChainContinues
  <1>5. Audit!AckedOnDisk'
    BY DEF Audit!AckedOnDisk
  <1> QED
    BY <1>2, <1>3, <1>4, <1>5

\* The lines an append may write: all of them rise, and none is acknowledged.
LEMMA LinesToWrite ==
  ASSUME Audit!AuditInv, Audit!Append_, NEW l \in {Audit!Pending, buffer}
  PROVE  /\ l \in Seq(Audit!Line) /\ Unacked(l)
         /\ Len(l) <= Len(buffer) + 1
         /\ Audit!Rising(file \o l, sequence + 1)
  <1> DEFINE x == Audit!NewLine
  <1>1. /\ Audit!Pending \in Seq(Audit!Line)
        /\ Len(Audit!Pending) = Len(buffer) + 1
        /\ x \in Audit!Line /\ x.seq = sequence /\ sequence \in Nat
        /\ Unacked(Audit!Pending) /\ Unacked(buffer)
    BY EventNumbers
  <1>2. /\ file \in Seq(Audit!Line) /\ buffer \in Seq(Audit!Line)
        /\ Len(buffer) \in Nat
    BY LenProperties DEF Audit!AuditInv, Audit!TypeOK
  <1>3. Audit!Rising(file \o Audit!Pending, sequence + 1)
    <2> HIDE DEF x
    <2>1. /\ file \o buffer \in Seq(Audit!Line)
          /\ file \o Append(buffer, x) = Append(file \o buffer, x)
      BY <1>1, <1>2, ConcatAppend
    <2>2. Audit!Rising(Append(file \o buffer, x), sequence + 1)
      BY <1>1, <2>1, RisingAppend DEF Audit!AuditInv, Audit!NumbersRise
    <2> QED
      BY <2>1, <2>2 DEF Audit!Pending, x
  <1>4. Audit!Rising(file \o buffer, sequence + 1)
    <2>1. sequence + 1 \in Nat /\ sequence <= sequence + 1
      BY <1>1
    <2>2. Audit!Rising(file \o buffer, sequence)
      BY DEF Audit!AuditInv, Audit!NumbersRise
    <2>3. file \o buffer \in Seq(Audit!Line)
      BY <1>2, ConcatProperties
    <2> QED
      BY <1>1, <2>1, <2>2, <2>3, RisingWeaken
  <1>5. CASE l = Audit!Pending
    BY <1>1, <1>2, <1>3, <1>5
  <1>6. CASE l = buffer
    BY <1>1, <1>2, <1>4, <1>6
  <1> QED
    BY <1>5, <1>6

LEMMA FailedWriteInv ==
  ASSUME Audit!AuditInv, Audit!Append_, NEW l \in {Audit!Pending, buffer},
         Audit!WriteFails(l),
         UNCHANGED <<previous, log, acked, restarts, kills, Audit!verifyVars>>
  PROVE  Audit!AuditInv'
  <1> USE DEF Audit!AuditInv
  <1>0. /\ UNCHANGED <<previous, log, acked, restarts, kills, vpc, expected, chain,
                       held, verdict>>
        /\ failures' = failures + 1 /\ failures' \in 0..MaxFailures
        /\ Audit!Cuts' = Audit!Cuts + 1
    BY AuditFacts DEF Audit!verifyVars, Audit!WriteFails, Audit!Cuts, Audit!TypeOK
  <1>1. /\ events' \in 0..MaxEvents /\ sequence' \in 0..MaxEvents
        /\ log = "open"
    BY EventNumbers
  <1>2. /\ l \in Seq(Audit!Line) /\ Unacked(l) /\ Len(l) <= Len(buffer) + 1
        /\ Audit!Rising(file \o l, sequence + 1)
    BY LinesToWrite
  <1>3. CASE /\ buffer' = l
             /\ UNCHANGED <<file, torn, spoiled, Audit!sharedVars>>
    <2>1. /\ Audit!NumbersRise' /\ Audit!ChainContinues' /\ Audit!AckedOnDisk'
          /\ Audit!CutsExplain'
      BY <1>0, <1>1, <1>2, <1>3, NoWriteInv
    <2>2. /\ offset' \in 0..Audit!End' /\ disturbed' \subseteq Verifiers
          /\ Audit!VerifiersProgress'
      BY <1>0, <1>3, FlatShared DEF Audit!sharedVars
    <2>3. torn' = "part" => buffer' # << >>
      <3>1. torn = "part" => buffer # << >>
        BY DEF Audit!TypeOK
      <3>2. Audit!Pending # << >>
        BY EventNumbers
      <3> QED
        BY <1>3, <3>1, <3>2
    <2>4. Audit!TypeOK'
      BY <1>0, <1>1, <1>2, <1>3, <2>2, <2>3 DEF Audit!TypeOK, Audit!Garbled
    <2> QED
      BY <2>1, <2>2, <2>4
  <1>4. ASSUME NEW n \in 0..Len(l), NEW end \in {"no", "part", "line"},
               Audit!StopsAfter(l, n, end),
               Audit!Extend(SubSeq(l, 1, n),
                            IF n = 0 /\ ~Audit!Sound THEN "junk" ELSE end),
               buffer' = SubSeq(l, n + 1, Len(l)), Audit!Written
        PROVE  Audit!AuditInv'
    <2>1. /\ file' = file \o SubSeq(l, 1, n)
          /\ spoiled' = spoiled \cup Audit!Spoils(SubSeq(l, 1, n))
          /\ torn' \in {"junk", end}
          /\ torn' \in {"line", "bare"} => n > 0
      BY <1>4 DEF Audit!Extend, Audit!StopsAfter
    <2>2. /\ file' \in Seq(Audit!Line) /\ buffer' \in Seq(Audit!Line)
          /\ spoiled' \subseteq Audit!Event
          /\ Audit!NumbersRise' /\ Audit!ChainContinues' /\ Audit!AckedOnDisk'
          /\ Audit!CutsExplain'
      BY <1>0, <1>1, <1>2, <1>4, <2>1, StoppedWriteInv
    <2>3. /\ offset' \in 0..Audit!End' /\ disturbed' \subseteq Verifiers
          /\ Audit!VerifiersProgress'
      BY <1>0, <1>1, <1>4, <2>2, WrittenShared
    <2>4. torn' = "part" => buffer' # << >>
      <3>1. torn' = "part" => n < Len(l)
        BY <1>4, <2>1 DEF Audit!StopsAfter
      <3>2. Len(buffer') = Len(l) - n /\ Len(l) \in Nat
        <4>1. file \in Seq(Audit!Line)
          BY DEF Audit!TypeOK
        <4> QED
          BY <1>2, <1>4, <4>1, LinesSplit, LenProperties
      <3>3. n < Len(l) => Len(buffer') # 0
        BY <3>2
      <3> QED
        BY <3>1, <3>3, EmptySeq
    <2>5. Audit!TypeOK'
      BY <1>0, <1>1, <2>1, <2>2, <2>3, <2>4 DEF Audit!TypeOK, Audit!Garbled
    <2> QED
      BY <2>2, <2>3, <2>5
  <1> QED
    BY <1>3, <1>4 DEF Audit!WriteFails

\* A long line is cut off or not written at all, after what was buffered.
LEMMA AppendCutInv ==
  ASSUME Audit!AuditInv, Audit!AppendCut
  PROVE  Audit!AuditInv'
  <1> USE DEF Audit!AuditInv
  <1>0. /\ UNCHANGED <<previous, log, acked, restarts, kills, vpc, expected, chain,
                       held, verdict>>
        /\ failures' = failures + 1 /\ failures' \in 0..MaxFailures
        /\ Audit!Cuts' = Audit!Cuts + 1 /\ buffer' = << >> /\ Audit!Append_
    BY AuditFacts DEF Audit!verifyVars, Audit!AppendCut, Audit!Cuts, Audit!TypeOK
  <1>1. /\ events' \in 0..MaxEvents /\ sequence' \in 0..MaxEvents
        /\ log = "open"
    BY <1>0, EventNumbers
  <1>2. /\ buffer \in Seq(Audit!Line) /\ Unacked(buffer)
        /\ Len(buffer) <= Len(buffer) + 1
        /\ Audit!Rising(file \o buffer, sequence + 1)
    BY <1>0, LinesToWrite
  <1>3. CASE /\ ~Audit!HasBuffered
             /\ UNCHANGED <<file, torn, spoiled, Audit!sharedVars>>
    <2>0. buffer = << >> /\ torn # "line" /\ torn # "part"
      BY <1>3 DEF Audit!HasBuffered, Audit!TypeOK
    <2>1. /\ Audit!NumbersRise' /\ Audit!ChainContinues' /\ Audit!AckedOnDisk'
          /\ Audit!CutsExplain'
      BY <1>0, <1>1, <1>2, <1>3, <2>0, NoWriteInv
    <2>2. /\ offset' \in 0..Audit!End' /\ disturbed' \subseteq Verifiers
          /\ Audit!VerifiersProgress'
      BY <1>0, <1>3, FlatShared DEF Audit!sharedVars
    <2>4. Audit!TypeOK'
      BY <1>0, <1>1, <1>2, <1>3, <2>0, <2>2 DEF Audit!TypeOK, Audit!Garbled
    <2> QED
      BY <2>1, <2>2, <2>4
  <1>4. ASSUME NEW end \in {"junk", "no"}, Audit!Extend(buffer, end), Audit!Written
        PROVE  Audit!AuditInv'
    <2> DEFINE n == Len(buffer)
    <2>0. SubSeq(buffer, 1, n) = buffer /\ n \in 0..Len(buffer)
      BY <1>2, SubSeqFull, LenProperties
    <2>1. /\ file' = file \o SubSeq(buffer, 1, n)
          /\ spoiled' = spoiled \cup Audit!Spoils(SubSeq(buffer, 1, n))
          /\ torn' = end
      BY <1>4, <2>0 DEF Audit!Extend
    <2> HIDE DEF n
    <2>2. /\ file' \in Seq(Audit!Line)
          /\ spoiled' \subseteq Audit!Event
          /\ Audit!NumbersRise' /\ Audit!ChainContinues' /\ Audit!AckedOnDisk'
          /\ Audit!CutsExplain'
      <3>1. buffer' \in {SubSeq(buffer, n + 1, Len(buffer)), << >>}
        BY <1>0
      <3> QED
        BY <1>0, <1>1, <1>2, <1>4, <2>0, <2>1, <3>1, StoppedWriteInv
    <2>3. /\ offset' \in 0..Audit!End' /\ disturbed' \subseteq Verifiers
          /\ Audit!VerifiersProgress'
      BY <1>0, <1>1, <1>4, <2>2, WrittenShared
    <2>5. Audit!TypeOK'
      BY <1>0, <1>1, <2>1, <2>2, <2>3, EmptySeq DEF Audit!TypeOK, Audit!Garbled
    <2> QED
      BY <2>2, <2>3, <2>5
  <1> QED
    BY <1>3, <1>4 DEF Audit!AppendCut

LEMMA AppendFailsInv ==
  ASSUME Audit!AuditInv, Audit!AppendFails \/ Audit!AppendDropped
  PROVE  Audit!AuditInv'
  BY FailedWriteInv DEF Audit!AppendFails, Audit!AppendDropped

-----------------------------------------------------------------------------
(* The audit log: closing, dying and opening again.                         *)

LEMMA CloseInv ==
  ASSUME Audit!AuditInv, Audit!Close
  PROVE  Audit!AuditInv'
  <1> USE DEF Audit!AuditInv
  <1>0. /\ log = "open" /\ \A v \in Verifiers : vpc[v] = "idle"
        /\ restarts < MaxRestarts /\ restarts' = restarts + 1
        /\ log' = "closed" /\ buffer' = << >>
        /\ UNCHANGED <<sequence, previous, events, acked, failures, kills, vpc,
                       expected, chain, held, verdict>>
    BY DEF Audit!Close, Audit!verifyVars
  <1>1. /\ file \in Seq(Audit!Line) /\ buffer \in Seq(Audit!Line)
        /\ Len(file) \in Nat /\ Len(buffer) \in Nat /\ events \in Nat
        /\ << >> \in Seq(Audit!Line) /\ DOMAIN file = 1..Len(file)
    BY LenProperties, EmptySeq DEF Audit!TypeOK
  <1>2. /\ restarts' \in 0..MaxRestarts /\ kills' \in 0..restarts'
        /\ Audit!Cuts' = Audit!Cuts
    BY <1>0, AuditFacts DEF Audit!TypeOK, Audit!Cuts
  <1>3. CASE /\ ~Audit!HasBuffered
             /\ UNCHANGED <<file, torn, spoiled, Audit!sharedVars>>
    <2>1. buffer = << >> /\ torn \notin {"line", "part"} /\ UNCHANGED buffer
      BY <1>0, <1>3 DEF Audit!HasBuffered, Audit!TypeOK
    <2>2. /\ Audit!NumbersRise' /\ Audit!ChainContinues' /\ Audit!AckedOnDisk'
          /\ Audit!CutsExplain'
      BY <1>0, <1>2, <1>3, <2>1
         DEF Audit!NumbersRise, Audit!ChainContinues, Audit!AckedOnDisk,
             Audit!CutsExplain, Audit!Lost, Audit!Rising, Audit!Intact,
             Audit!Follows
    <2>3. offset' \in 0..Audit!End' /\ Audit!VerifiersProgress'
      BY <1>0, <1>3 DEF Audit!TypeOK, Audit!End, Audit!HalfLine,
         Audit!sharedVars, Audit!VerifiersProgress
    <2>4. Audit!TypeOK'
      BY <1>0, <1>2, <1>3, <2>1, <2>3
         DEF Audit!TypeOK, Audit!Garbled, Audit!sharedVars
    <2> QED
      BY <2>2, <2>3, <2>4
  <1>4. CASE Audit!HasBuffered /\ Audit!Extend(buffer, "no") /\ Audit!Written
    <2>0. /\ file' = file \o buffer /\ torn' = "no"
          /\ spoiled' = spoiled \cup Audit!Spoils(buffer)
      BY <1>4 DEF Audit!Extend
    <2>1. /\ file' \in Seq(Audit!Line) /\ Len(file') = Len(file) + Len(buffer)
          /\ file' \o buffer' = file' /\ Len(buffer') = 0
      BY <1>0, <1>1, <2>0, ConcatProperties, ConcatEmptySeq, EmptySeq
    <2>2. /\ offset' \in 0..Audit!End' /\ disturbed' \subseteq Verifiers
          /\ Audit!VerifiersProgress'
      BY <1>0, <1>4, <2>1, WrittenShared
    <2>3. Audit!NumbersRise'
      <3>1. Audit!Rising(file \o buffer, sequence)'
        BY <1>0, <2>0, <2>1 DEF Audit!NumbersRise, Audit!Rising
      <3> QED
        BY <1>0, <1>1, <2>1, <3>1 DEF Audit!NumbersRise
    <2>4. Audit!ChainContinues'
      BY <1>0, <1>2, <1>4
         DEF Audit!ChainContinues, Audit!HasBuffered
    <2>5. Audit!AckedOnDisk'
      BY <1>0, <1>1, <2>0, AckKept DEF Audit!AckedOnDisk
    <2>6. Audit!Spoils(buffer) \cap acked = {} /\ Audit!Spoils(buffer) \subseteq 1..events
      <3>1. ASSUME NEW e \in Audit!Spoils(buffer)
            PROVE  e \notin acked /\ e \in 1..events
        <4>1. \/ \E i \in DOMAIN buffer : e = buffer[i].hash
              \/ torn = "bare" /\ e = file[Len(file)].hash
          BY <3>1 DEF Audit!Spoils
        <4>2. CASE \E i \in DOMAIN buffer : e = buffer[i].hash
          <5>1. PICK i \in DOMAIN buffer : e = buffer[i].hash
            BY <4>2
          <5>2. buffer[i] \in Audit!Line
            BY <1>1, LenProperties, ElementOfSeq
          <5>3. e \in 1..MaxEvents /\ e <= events /\ e \notin acked
            BY <5>1, <5>2 DEF Audit!Line, Audit!Event, Audit!CutsExplain
          <5> QED
            BY <1>1, <5>3, AuditFacts
        <4>3. CASE torn = "bare" /\ e = file[Len(file)].hash
          <5>1. file # << >> /\ e \notin acked
            BY <4>3 DEF Audit!CutsExplain
          <5>2. Len(file) \in DOMAIN file
            BY <1>1, <5>1, EmptySeq
          <5>3. file[Len(file)] \in Audit!Line /\ file[Len(file)].hash <= events
            BY <1>1, <5>2, ElementOfSeq DEF Audit!CutsExplain
          <5>4. e \in 1..MaxEvents /\ e <= events
            BY <4>3, <5>3 DEF Audit!Line, Audit!Event
          <5> QED
            BY <1>1, <5>1, <5>4, AuditFacts
        <4> QED
          BY <4>1, <4>2, <4>3
      <3> QED
        BY <3>1
    <2>7. Audit!CutsExplain'
      <3>1. \A i \in DOMAIN file' : file'[i].hash <= events'
        <4>1. \A i \in DOMAIN buffer : buffer[i].hash <= events
          BY DEF Audit!CutsExplain
        <4>2. events <= events
          BY <1>1
        <4> QED
          BY <1>0, <1>1, <2>0, <4>1, <4>2, HashesKnown
      <3>2. /\ Audit!Cardinality(Audit!Lost) \in Nat /\ Audit!Cardinality(Audit!Lost') \in Nat
            /\ Audit!Cardinality(Audit!Lost') <= Audit!Cardinality(Audit!Lost)
        <4>1. events + 1 \notin acked'
          BY <1>0, <1>1, AckedKnown
        <4> QED
          BY <1>0, <2>0, <2>6, <4>1, LostGrows
      <3>3. Audit!Cardinality(Audit!Lost') + 0 <= Audit!Cuts'
        <4>1. Audit!Cuts \in Nat
          BY DEF Audit!Cuts, Audit!TypeOK
        <4>2. Audit!Cardinality(Audit!Lost) <= Audit!Cuts
          BY <3>2, <4>1 DEF Audit!CutsExplain
        <4> QED
          BY <1>2, <3>2, <4>1, <4>2
      <3>4. spoiled' \subseteq 1..events'
        BY <1>0, <2>0, <2>6 DEF Audit!CutsExplain
      <3> QED
        BY <1>0, <2>0, <3>1, <3>3, <3>4, EmptySeq DEF Audit!CutsExplain
    <2>8. Audit!TypeOK'
      <3>1. spoiled' \subseteq Audit!Event
        <4>1. 1..events \subseteq Audit!Event
          BY <1>1, AuditFacts DEF Audit!Event, Audit!TypeOK
        <4> QED
          BY <2>0, <2>6, <4>1 DEF Audit!TypeOK
      <3> QED
        BY <1>0, <1>1, <1>2, <2>0, <2>1, <2>2, <3>1 DEF Audit!TypeOK, Audit!Garbled
    <2> QED
      BY <2>2, <2>3, <2>4, <2>5, <2>7, <2>8
  <1> QED
    BY <1>3, <1>4 DEF Audit!Close

\* What dies with the process.
LEMMA DiesShared ==
  ASSUME Audit!AuditInv, Audit!Dies, file' \in Seq(Audit!Line)
  PROVE  /\ restarts' = restarts + 1 /\ restarts' \in 0..MaxRestarts
         /\ offset' \in 0..Audit!End' /\ disturbed' = {}
         /\ vpc' \in [Verifiers -> {"idle", "read"}]
         /\ expected' \in [Verifiers -> 0..MaxEvents]
         /\ chain' \in [Verifiers -> 0..MaxEvents]
         /\ held' \in [Verifiers -> 0..Audit!Garbled]
         /\ verdict' \in [Verifiers -> {"none", "ok", "error"}]
         /\ Audit!VerifiersProgress'
         /\ log' = "closed" /\ buffer' = << >>
  <1>1. /\ restarts' = restarts + 1 /\ restarts' \in 0..MaxRestarts
        /\ 0 \in 0..MaxEvents /\ 0 \in 0..Audit!Garbled
    BY AuditFacts DEF Audit!Dies, Audit!AuditInv, Audit!TypeOK, Audit!Garbled
  <1>2. Len(file') \in Nat
    BY LenProperties
  <1>3. Audit!End' \in Nat
    BY <1>2 DEF Audit!End, Audit!HalfLine
  <1> QED
    BY <1>1, <1>3 DEF Audit!Dies, Audit!VerifiersProgress

LEMMA CrashInv ==
  ASSUME Audit!AuditInv, Audit!Crash
  PROVE  Audit!AuditInv'
  <1> USE DEF Audit!AuditInv
  <1>0. /\ torn' = Audit!Rest(torn) /\ Audit!Dies
        /\ UNCHANGED <<file, spoiled, sequence, previous, events, acked, failures,
                       kills>>
    BY DEF Audit!Crash
  <1>1. /\ file \in Seq(Audit!Line) /\ buffer \in Seq(Audit!Line)
        /\ Len(file) \in Nat /\ Len(buffer) \in Nat /\ sequence \in Nat
        /\ << >> \in Seq(Audit!Line)
    BY LenProperties, EmptySeq DEF Audit!TypeOK
  <1>2. /\ restarts' = restarts + 1 /\ restarts' \in 0..MaxRestarts
        /\ offset' \in 0..Audit!End' /\ disturbed' = {}
        /\ vpc' \in [Verifiers -> {"idle", "read"}]
        /\ expected' \in [Verifiers -> 0..MaxEvents]
        /\ chain' \in [Verifiers -> 0..MaxEvents]
        /\ held' \in [Verifiers -> 0..Audit!Garbled]
        /\ verdict' \in [Verifiers -> {"none", "ok", "error"}]
        /\ Audit!VerifiersProgress'
        /\ log' = "closed" /\ buffer' = << >>
    BY <1>0, <1>1, DiesShared
  <1>3. file' \o buffer' = file /\ Len(buffer') = 0 /\ DOMAIN buffer' = {}
    BY <1>0, <1>1, <1>2, ConcatEmptySeq, EmptySeq
  <1>4. Audit!NumbersRise'
    <2>1. Audit!Rising(file, sequence)
      BY <1>1, RisingPrefix DEF Audit!NumbersRise
    <2>2. Audit!Rising(file \o buffer, sequence)'
      BY <1>0, <1>3, <2>1 DEF Audit!Rising
    <2>3. /\ events \in Nat /\ Len(file) + Len(buffer) <= events
          /\ sequence <= events
      BY DEF Audit!TypeOK, Audit!NumbersRise
    <2>4. Len(file') + Len(buffer') <= events'
      BY <1>0, <1>1, <1>3, <2>3
    <2> QED
      BY <1>0, <1>2, <2>2, <2>3, <2>4 DEF Audit!NumbersRise
  <1>5. /\ torn' \in {"no", "bare", "junk"}
        /\ torn' = "no" <=> torn = "no"
        /\ torn' = "bare" => torn \in {"line", "bare"}
    BY <1>0 DEF Audit!Rest, Audit!TypeOK
  <1>6. Audit!ChainContinues'
    BY <1>0, <1>2, <1>5
       DEF Audit!ChainContinues, Audit!Cuts, Audit!Intact, Audit!Follows
  <1>7. Audit!AckedOnDisk'
    BY <1>0 DEF Audit!AckedOnDisk
  <1>8. Audit!CutsExplain'
    BY <1>0, <1>3, <1>5 DEF Audit!CutsExplain, Audit!Lost, Audit!Cuts
  <1>9. Audit!TypeOK'
    <2>1. kills' \in 0..restarts'
      BY <1>0, <1>2 DEF Audit!TypeOK
    <2> QED
      BY <1>0, <1>1, <1>2, <1>5, <2>1 DEF Audit!TypeOK, Audit!Garbled
  <1> QED
    BY <1>2, <1>4, <1>6, <1>7, <1>8, <1>9

LEMMA CrashInAppendInv ==
  ASSUME Audit!AuditInv, Audit!CrashInAppend
  PROVE  Audit!AuditInv'
  <1> USE DEF Audit!AuditInv
  <1> DEFINE l == Audit!Pending
  <1>0. /\ Audit!Append_ /\ Audit!Dies /\ kills' = kills + 1
        /\ UNCHANGED <<previous, acked, failures>>
    BY DEF Audit!CrashInAppend
  <1>1. PICK n \in 0..Len(l), end \in {"no", "part", "line"} :
          /\ Audit!StopsAfter(l, n, end)
          /\ Audit!Extend(SubSeq(l, 1, n),
                          IF n = 0 /\ ~Audit!Sound THEN "junk"
                          ELSE Audit!Rest(end))
    BY DEF Audit!CrashInAppend
  <1>2. /\ l \in Seq(Audit!Line) /\ Unacked(l) /\ Len(l) <= Len(buffer) + 1
        /\ Audit!Rising(file \o l, sequence + 1)
    BY <1>0, LinesToWrite
  <1>3. /\ events' \in 0..MaxEvents /\ sequence' \in 0..MaxEvents
    BY <1>0, EventNumbers
  <1> HIDE DEF l
  <1>4. /\ file' = file \o SubSeq(l, 1, n)
        /\ spoiled' = spoiled \cup Audit!Spoils(SubSeq(l, 1, n))
        /\ torn' \in {"no", "bare", "junk"}
        /\ torn' \in {"line", "bare"} => n > 0
    BY <1>1 DEF Audit!Extend, Audit!StopsAfter, Audit!Rest
  <1>5. Audit!Cuts' = Audit!Cuts + 1 /\ buffer' = << >> /\ log' = "closed"
    BY <1>0 DEF Audit!Cuts, Audit!Dies, Audit!TypeOK
  <1>6. /\ file' \in Seq(Audit!Line) /\ buffer' \in Seq(Audit!Line)
        /\ spoiled' \subseteq Audit!Event
        /\ Audit!NumbersRise' /\ Audit!ChainContinues' /\ Audit!AckedOnDisk'
        /\ Audit!CutsExplain'
    <2>1. buffer' \in {SubSeq(l, n + 1, Len(l)), << >>}
      BY <1>5
    <2> QED
      BY <1>0, <1>2, <1>4, <1>5, <2>1, StoppedWriteInv
  <1>7. /\ restarts' = restarts + 1 /\ restarts' \in 0..MaxRestarts
        /\ offset' \in 0..Audit!End' /\ disturbed' = {}
        /\ vpc' \in [Verifiers -> {"idle", "read"}]
        /\ expected' \in [Verifiers -> 0..MaxEvents]
        /\ chain' \in [Verifiers -> 0..MaxEvents]
        /\ held' \in [Verifiers -> 0..Audit!Garbled]
        /\ verdict' \in [Verifiers -> {"none", "ok", "error"}]
        /\ Audit!VerifiersProgress'
    BY <1>0, <1>6, DiesShared
  <1>8. Audit!TypeOK'
    <2>1. kills' \in 0..restarts'
      BY <1>0, <1>7 DEF Audit!TypeOK
    <2> QED
      BY <1>0, <1>3, <1>4, <1>5, <1>6, <1>7, <2>1 DEF Audit!TypeOK, Audit!Garbled
  <1> QED
    BY <1>6, <1>7, <1>8

\* open: the scan finds the number and the hash that continue the file.
LEMMA OpenInv ==
  ASSUME Audit!AuditInv, Audit!Open
  PROVE  Audit!AuditInv'
  <1> USE DEF Audit!AuditInv
  <1>0. /\ log = "closed" /\ buffer = << >>
        /\ \A v \in Verifiers : vpc[v] # "read"
        /\ UNCHANGED <<file, torn, spoiled, buffer, events, acked, failures,
                       restarts, kills, vpc, expected, chain, held, verdict,
                       disturbed>>
    BY DEF Audit!Open, Audit!NumbersRise, Audit!VerifiersProgress,
           Audit!callVars, Audit!verifyVars
  <1>1. /\ file \in Seq(Audit!Line) /\ Len(file) \in Nat /\ sequence \in Nat
        /\ file \o buffer = file /\ Audit!Rising(file, sequence)
    BY <1>0, LenProperties, ConcatEmptySeq DEF Audit!TypeOK, Audit!NumbersRise
  <1>2. /\ Audit!VerifiersProgress' /\ Audit!AckedOnDisk' /\ Audit!CutsExplain'
        /\ Audit!End' = Audit!End /\ torn \in {"no", "bare", "junk"}
    BY <1>0 DEF Audit!VerifiersProgress, Audit!AckedOnDisk, Audit!End,
       Audit!HalfLine, Audit!CutsExplain, Audit!Lost, Audit!Cuts, Audit!TypeOK
  <1>3. CASE log' = "unreadable" /\ UNCHANGED <<sequence, previous, offset>>
    <2>1. Audit!TypeOK'
      BY <1>0, <1>2, <1>3 DEF Audit!TypeOK, Audit!Garbled
    <2>2. Audit!NumbersRise' /\ Audit!ChainContinues'
      BY <1>0, <1>3 DEF Audit!NumbersRise, Audit!ChainContinues, Audit!Rising,
                        Audit!Intact, Audit!Follows, Audit!Cuts
    <2> QED
      BY <1>2, <2>1, <2>2
  <1>4. CASE /\ log' = "open" /\ offset' = Audit!End
             /\ sequence' = Audit!NextSequence(file)
             /\ previous' = Audit!PreviousHash(file)
    <2>1. /\ sequence' \in Nat /\ sequence' <= sequence
          /\ previous' \in 0..MaxEvents
          /\ Audit!Rising(file, sequence')
      <3>1. CASE file = << >>
        <4>1. sequence' = 0 /\ previous' = 0 /\ DOMAIN file = {}
          BY <1>4, <3>1, EmptySeq DEF Audit!NextSequence, Audit!PreviousHash
        <4> QED
          BY <1>1, <4>1, AuditFacts DEF Audit!Rising
      <3>2. CASE file # << >>
        <4>1. /\ sequence' \in Nat /\ sequence' <= sequence
              /\ file[Len(file)] \in Audit!Line
              /\ previous' = file[Len(file)].hash
              /\ Audit!Rising(file, sequence')
          BY <1>1, <1>4, <3>2, NewestIsLast
        <4> QED
          BY <4>1, AuditFacts DEF Audit!Line, Audit!Event
      <3> QED
        BY <3>1, <3>2
    <2>2. Audit!TypeOK'
      <3>1. sequence' \in 0..MaxEvents
        BY <1>1, <2>1, AuditFacts DEF Audit!TypeOK
      <3>2. Audit!End \in Nat
        BY <1>1 DEF Audit!End
      <3>3. offset' \in 0..Audit!End'
        BY <1>2, <1>4, <3>2
      <3> QED
        BY <1>0, <1>4, <2>1, <3>1, <3>3 DEF Audit!TypeOK, Audit!Garbled
    <2>3. Audit!NumbersRise'
      <3>1. Audit!Rising(file \o buffer, sequence)'
        BY <1>0, <1>1, <2>1 DEF Audit!Rising
      <3>2. events \in Nat /\ sequence <= events
            /\ Len(file) + Len(buffer) <= events
        BY DEF Audit!TypeOK, Audit!NumbersRise
      <3>3. sequence' <= events
        BY <1>1, <2>1, <3>2
      <3> QED
        BY <1>0, <1>4, <3>1, <3>2, <3>3 DEF Audit!NumbersRise
    <2>4. Audit!ChainContinues'
      <3> SUFFICES ASSUME Audit!Cuts = 0
                   PROVE  /\ sequence' = Len(file)
                          /\ previous' = IF file = << >> THEN 0
                                         ELSE file[Len(file)].hash
        BY <1>0, <1>4
           DEF Audit!ChainContinues, Audit!Intact, Audit!Follows, Audit!Cuts
      <3>1. Audit!Intact(file)
        BY DEF Audit!ChainContinues
      <3>2. CASE file = << >>
        BY <1>4, <3>2, EmptySeq DEF Audit!NextSequence, Audit!PreviousHash
      <3>3. CASE file # << >>
        <4>1. /\ Len(file) \in DOMAIN file
              /\ sequence' = file[Len(file)].seq + 1
              /\ previous' = file[Len(file)].hash
          BY <1>1, <1>4, <3>3, NewestIsLast
        <4>2. file[Len(file)].seq = Len(file) - 1
          BY <3>1, <4>1 DEF Audit!Intact, Audit!Follows
        <4> QED
          BY <1>1, <3>3, <4>1, <4>2
      <3> QED
        BY <3>2, <3>3
    <2> QED
      BY <1>2, <2>2, <2>3, <2>4
  <1> QED
    BY <1>3, <1>4 DEF Audit!Open

-----------------------------------------------------------------------------
(* The audit log: verification.                                             *)

LEMMA Halves ==
  ASSUME NEW o \in Nat
  PROVE  /\ o \div 2 \in Nat /\ o % 2 \in {0, 1}
         /\ o % 2 = 0 => /\ o = 2 * (o \div 2)
                         /\ (o + 1) \div 2 = o \div 2 /\ (o + 1) % 2 = 1
         /\ o % 2 = 1 => /\ o = 2 * (o \div 2) + 1
                         /\ (o + 1) \div 2 = o \div 2 + 1 /\ (o + 1) % 2 = 0
  BY SMT

\* Where the offset is, within a line or between two.
LEMMA OffsetFacts ==
  ASSUME Audit!AuditInv, offset < Audit!End
  PROVE  /\ offset \in Nat /\ Audit!End \in Nat /\ Len(file) \in Nat
         /\ offset \div 2 \in Nat /\ offset \div 2 + 1 \in 0..Audit!Garbled
         /\ offset + 1 \in 0..Audit!End
         /\ offset % 2 = 1 =>
              /\ offset \div 2 + 1 \in DOMAIN file
              /\ file[offset \div 2 + 1] \in Audit!Line
              /\ file[offset \div 2 + 1].seq + 1 \in 0..MaxEvents
  <1>1. /\ file \in Seq(Audit!Line) /\ buffer \in Seq(Audit!Line)
        /\ Len(file) \in Nat /\ DOMAIN file = 1..Len(file)
        /\ Len(buffer) \in Nat /\ sequence \in 0..MaxEvents
        /\ events \in 0..MaxEvents /\ Len(file) + Len(buffer) <= events
        /\ Audit!Rising(file \o buffer, sequence)
    BY LenProperties DEF Audit!AuditInv, Audit!TypeOK, Audit!NumbersRise
  <1>2. Audit!End \in Nat /\ Audit!End <= 2 * Len(file) + 1
    BY <1>1 DEF Audit!End
  <1>3. offset \in Nat
    BY <1>2 DEF Audit!AuditInv, Audit!TypeOK
  <1> DEFINE n == offset \div 2
  <1>4. /\ n \in Nat /\ offset % 2 \in {0, 1}
        /\ offset % 2 = 0 => offset = 2 * n
        /\ offset % 2 = 1 => offset = 2 * n + 1
    BY <1>3, Halves
  <1> HIDE DEF n
  <1>5. n <= Len(file) /\ (offset % 2 = 1 => n + 1 <= Len(file))
    BY <1>1, <1>2, <1>3, <1>4
  <1>6. n + 1 \in 0..Audit!Garbled
    BY <1>1, <1>4, <1>5, AuditFacts DEF Audit!Garbled
  <1>7. ASSUME offset % 2 = 1
        PROVE  /\ n + 1 \in DOMAIN file
               /\ file[n + 1] \in Audit!Line
               /\ file[n + 1].seq + 1 \in 0..MaxEvents
    <2>1. n + 1 \in DOMAIN file
      BY <1>1, <1>4, <1>5, <1>7
    <2>2. file[n + 1] \in Audit!Line
      BY <1>1, <2>1, ElementOfSeq
    <2>3. file[n + 1].seq < sequence
      BY <1>1, <2>1, RisingPrefix DEF Audit!Rising
    <2>4. file[n + 1].seq \in 0..MaxEvents
      BY <2>2 DEF Audit!Line
    <2> QED
      BY <1>1, <2>1, <2>2, <2>3, <2>4, AuditFacts
  <1>8. offset + 1 \in 0..Audit!End
    BY <1>2, <1>3
  <1> QED
    BY <1>1, <1>2, <1>3, <1>4, <1>6, <1>7, <1>8 DEF n

\* A call of verify changes nothing of the writer's.
LEMMA WriterKept ==
  ASSUME Audit!AuditInv, UNCHANGED <<Audit!writerVars, Audit!callVars>>
  PROVE  /\ Audit!NumbersRise' /\ Audit!ChainContinues' /\ Audit!AckedOnDisk'
         /\ Audit!CutsExplain' /\ Audit!End' = Audit!End
         /\ UNCHANGED <<file, torn, spoiled, buffer, sequence, previous, log,
                        events, acked, failures, restarts, kills>>
  BY DEF Audit!AuditInv, Audit!NumbersRise, Audit!ChainContinues,
         Audit!AckedOnDisk, Audit!End, Audit!writerVars, Audit!callVars,
         Audit!Rising, Audit!Intact, Audit!Follows, Audit!CutsExplain,
         Audit!Cuts, Audit!Lost, Audit!HalfLine

LEMMA VerifyStartInv ==
  ASSUME Audit!AuditInv, NEW v \in Verifiers, Audit!VerifyStart(v)
  PROVE  Audit!AuditInv'
  <1> USE DEF Audit!AuditInv
  <1>0. /\ log = "open" /\ vpc[v] = "idle" /\ offset' = 0
        /\ vpc' = [vpc EXCEPT ![v] = "read"]
        /\ expected' = [expected EXCEPT ![v] = 0]
        /\ chain' = [chain EXCEPT ![v] = 0]
        /\ held' = [held EXCEPT ![v] = 0]
        /\ verdict' = [verdict EXCEPT ![v] = "none"]
        /\ disturbed' = Audit!Disturbed(v) \cup (disturbed \ {v})
    BY DEF Audit!VerifyStart, Audit!Begin
  <1>1. /\ Audit!NumbersRise' /\ Audit!ChainContinues' /\ Audit!AckedOnDisk'
        /\ Audit!CutsExplain' /\ Audit!End' = Audit!End
        /\ UNCHANGED <<file, torn, spoiled, buffer, sequence, previous, log,
                       events, acked, failures, restarts, kills>>
    BY WriterKept DEF Audit!VerifyStart
  <1>2. Audit!End \in Nat /\ 0 \in 0..MaxEvents /\ 0 \in 0..Audit!Garbled
    BY LenProperties, AuditFacts DEF Audit!End, Audit!TypeOK, Audit!Garbled
  <1>3. Audit!TypeOK'
    BY <1>0, <1>1, <1>2 DEF Audit!TypeOK, Audit!Disturbed, Audit!Garbled
  <1>4. ASSUME NEW u \in Verifiers, vpc'[u] = "read"
        PROVE  u \in disturbed' \/ Audit!Progress(u)'
    <2>1. CASE u = v
      <3>1. expected'[v] = 0 /\ held'[v] = 0 /\ chain'[v] = 0
        BY <1>0 DEF Audit!TypeOK
      <3> QED
        BY <1>0, <2>1, <3>1, Halves DEF Audit!Progress
    <2>2. CASE u # v
      BY <1>0, <1>4, <2>2 DEF Audit!Disturbed, Audit!TypeOK
    <2> QED
      BY <2>1, <2>2
  <1>5. Audit!VerifiersProgress'
    BY <1>0, <1>1, <1>4 DEF Audit!VerifiersProgress
  <1> QED
    BY <1>1, <1>3, <1>5

LEMMA VerifyReadHalfInv ==
  ASSUME Audit!AuditInv, NEW v \in Verifiers, Audit!VerifyReadHalf(v)
  PROVE  Audit!AuditInv'
  <1> USE DEF Audit!AuditInv
  <1> DEFINE n == offset \div 2
  <1>0. /\ vpc[v] = "read" /\ offset < Audit!End /\ offset % 2 = 0
        /\ held' = [held EXCEPT ![v] = IF @ = 0 THEN n + 1 ELSE Audit!Garbled]
        /\ offset' = offset + 1
        /\ disturbed' = disturbed \cup Audit!Disturbed(v)
        /\ UNCHANGED <<vpc, expected, chain, verdict>>
    BY DEF Audit!VerifyReadHalf
  <1>1. /\ Audit!NumbersRise' /\ Audit!ChainContinues' /\ Audit!AckedOnDisk'
        /\ Audit!CutsExplain' /\ Audit!End' = Audit!End
        /\ UNCHANGED <<file, torn, spoiled, buffer, sequence, previous, log,
                       events, acked, failures, restarts, kills>>
    BY WriterKept DEF Audit!VerifyReadHalf
  <1>2. /\ offset \in Nat /\ n + 1 \in 0..Audit!Garbled /\ n \in Nat
        /\ offset + 1 \in 0..Audit!End
        /\ (offset + 1) \div 2 = n /\ (offset + 1) % 2 = 1
    BY <1>0, OffsetFacts, Halves
  <1> HIDE DEF n
  <1>3. Audit!TypeOK'
    <2>1. Audit!Garbled \in 0..Audit!Garbled
      BY AuditFacts DEF Audit!Garbled
    <2>2. held' \in [Verifiers -> 0..Audit!Garbled]
      BY <1>0, <1>2, <2>1 DEF Audit!TypeOK
    <2> QED
      BY <1>0, <1>1, <1>2, <2>2 DEF Audit!TypeOK, Audit!Disturbed, Audit!Garbled
  <1>4. ASSUME NEW u \in Verifiers, vpc'[u] = "read"
        PROVE  u \in disturbed' \/ Audit!Progress(u)'
    <2>1. CASE u = v /\ v \notin disturbed
      <3>1. Audit!Progress(v)
        BY <1>0, <2>1 DEF Audit!VerifiersProgress
      <3>2. /\ expected[v] = n /\ held[v] = 0
            /\ chain[v] = IF n = 0 THEN 0 ELSE file[n].hash
            /\ \A i \in 1..n : Audit!Follows(file, i)
        BY <1>0, <3>1 DEF Audit!Progress, n
      <3>3. held'[v] = n + 1
        BY <1>0, <3>2 DEF Audit!TypeOK
      <3> QED
        BY <1>0, <1>1, <1>2, <2>1, <3>2, <3>3 DEF Audit!Progress, Audit!Follows
    <2>2. CASE u # v \/ v \in disturbed
      BY <1>0, <1>4, <2>2 DEF Audit!Disturbed, Audit!TypeOK
    <2> QED
      BY <2>1, <2>2
  <1>5. Audit!VerifiersProgress'
    BY <1>0, <1>1, <1>4 DEF Audit!VerifiersProgress
  <1> QED
    BY <1>1, <1>3, <1>5

LEMMA VerifyReadLineInv ==
  ASSUME Audit!AuditInv, NEW v \in Verifiers, Audit!VerifyReadLine(v)
  PROVE  Audit!AuditInv'
  <1> USE DEF Audit!AuditInv
  <1> DEFINE n == offset \div 2
  <1>0. /\ vpc[v] = "read" /\ offset < Audit!End /\ offset % 2 = 1
        /\ offset' = offset + 1
        /\ disturbed' = disturbed \cup Audit!Disturbed(v)
    BY DEF Audit!VerifyReadLine
  <1>1. /\ Audit!NumbersRise' /\ Audit!ChainContinues' /\ Audit!AckedOnDisk'
        /\ Audit!CutsExplain' /\ Audit!End' = Audit!End
        /\ UNCHANGED <<file, torn, spoiled, buffer, sequence, previous, log,
                       events, acked, failures, restarts, kills>>
    BY WriterKept DEF Audit!VerifyReadLine
  <1>2. /\ offset \in Nat /\ n \in Nat /\ n + 1 \in DOMAIN file
        /\ file[n + 1] \in Audit!Line /\ file[n + 1].seq + 1 \in 0..MaxEvents
        /\ offset + 1 \in 0..Audit!End
        /\ (offset + 1) \div 2 = n + 1 /\ (offset + 1) % 2 = 0
    BY <1>0, OffsetFacts, Halves
  <1>3. \/ /\ held[v] = n + 1 /\ Audit!Expected(v, file[n + 1])
           /\ held' = [held EXCEPT ![v] = 0]
           /\ expected' = [expected EXCEPT ![v] = @ + 1]
           /\ chain' = [chain EXCEPT ![v] = file[n + 1].hash]
           /\ UNCHANGED <<vpc, verdict>>
        \/ Audit!Answer(v, "error")
    BY DEF Audit!VerifyReadLine
  <1>4. \A u \in Verifiers \ {v} : vpc[u] = "read" => u \in disturbed'
    BY <1>0 DEF Audit!Disturbed
  <1>5. disturbed' \subseteq Verifiers /\ log = "open"
    BY <1>0 DEF Audit!TypeOK, Audit!Disturbed, Audit!VerifiersProgress
  <1> HIDE DEF n
  <1>6. CASE /\ held[v] = n + 1 /\ Audit!Expected(v, file[n + 1])
             /\ held' = [held EXCEPT ![v] = 0]
             /\ expected' = [expected EXCEPT ![v] = @ + 1]
             /\ chain' = [chain EXCEPT ![v] = file[n + 1].hash]
             /\ UNCHANGED <<vpc, verdict>>
    <2>1. Audit!TypeOK'
      <3>1. /\ expected[v] + 1 \in 0..MaxEvents
            /\ file[n + 1].hash \in 0..MaxEvents
            /\ 0 \in 0..Audit!Garbled
        BY <1>2, <1>6, AuditFacts
           DEF Audit!Expected, Audit!Line, Audit!Event, Audit!Garbled
      <3>2. /\ held' \in [Verifiers -> 0..Audit!Garbled]
            /\ expected' \in [Verifiers -> 0..MaxEvents]
            /\ chain' \in [Verifiers -> 0..MaxEvents]
        BY <1>6, <3>1 DEF Audit!TypeOK
      <3> QED
        BY <1>0, <1>1, <1>2, <1>5, <1>6, <3>2 DEF Audit!TypeOK, Audit!Garbled
    <2>2. ASSUME v \notin disturbed' PROVE Audit!Progress(v)'
      <3>1. Audit!Progress(v)
        BY <1>0, <2>2 DEF Audit!VerifiersProgress
      <3>2. /\ expected[v] = n
            /\ chain[v] = IF n = 0 THEN 0 ELSE file[n].hash
            /\ \A i \in 1..n : Audit!Follows(file, i)
        BY <3>1 DEF Audit!Progress, n
      <3>3. Audit!Follows(file, n + 1)
        BY <1>2, <1>6, <3>2 DEF Audit!Expected, Audit!Follows
      <3>4. \A i \in 1..(n + 1) : Audit!Follows(file, i)
        BY <1>2, <3>2, <3>3
      <3>5. /\ expected'[v] = n + 1 /\ held'[v] = 0
            /\ chain'[v] = file[n + 1].hash
        BY <1>6, <3>2 DEF Audit!TypeOK
      <3> QED
        BY <1>0, <1>1, <1>2, <3>4, <3>5 DEF Audit!Progress, Audit!Follows
    <2>3. Audit!VerifiersProgress'
      BY <1>1, <1>4, <1>5, <1>6, <2>2 DEF Audit!VerifiersProgress
    <2> QED
      BY <1>1, <2>1, <2>3
  <1>7. CASE Audit!Answer(v, "error")
    <2>1. /\ vpc' = [vpc EXCEPT ![v] = "idle"]
          /\ verdict' = [verdict EXCEPT ![v] = "error"]
          /\ UNCHANGED <<expected, chain, held>>
      BY <1>7 DEF Audit!Answer
    <2>2. Audit!TypeOK'
      BY <1>0, <1>1, <1>2, <1>5, <2>1 DEF Audit!TypeOK, Audit!Garbled
    <2>3. \A u \in Verifiers : vpc'[u] = "read" => u # v /\ vpc[u] = "read"
      BY <2>1 DEF Audit!TypeOK
    <2>4. Audit!VerifiersProgress'
      BY <1>1, <1>4, <1>5, <2>3 DEF Audit!VerifiersProgress
    <2> QED
      BY <1>1, <2>2, <2>4
  <1> QED
    BY <1>3, <1>6, <1>7

LEMMA VerifyEndInv ==
  ASSUME Audit!AuditInv, NEW v \in Verifiers, Audit!VerifyEnd(v)
  PROVE  Audit!AuditInv'
  <1> USE DEF Audit!AuditInv
  <1> DEFINE a == IF held[v] = 0 THEN "ok" ELSE "error"
  <1>0. /\ vpc' = [vpc EXCEPT ![v] = "idle"]
        /\ verdict' = [verdict EXCEPT ![v] = a]
        /\ UNCHANGED <<expected, chain, held, offset, disturbed>>
    BY DEF Audit!VerifyEnd, Audit!Answer, Audit!sharedVars
  <1>1. /\ Audit!NumbersRise' /\ Audit!ChainContinues' /\ Audit!AckedOnDisk'
        /\ Audit!CutsExplain' /\ Audit!End' = Audit!End
        /\ UNCHANGED <<file, torn, spoiled, buffer, sequence, previous, log,
                       events, acked, failures, restarts, kills>>
    BY WriterKept DEF Audit!VerifyEnd
  <1>2. a \in {"ok", "error"}
    OBVIOUS
  <1> HIDE DEF a
  <1>3. Audit!TypeOK'
    BY <1>0, <1>1, <1>2 DEF Audit!TypeOK, Audit!Garbled
  <1>4. \A u \in Verifiers : vpc'[u] = "read" => vpc[u] = "read"
    BY <1>0 DEF Audit!TypeOK
  <1>5. Audit!VerifiersProgress'
    BY <1>0, <1>1, <1>4 DEF Audit!VerifiersProgress, Audit!Progress, Audit!Follows
  <1> QED
    BY <1>1, <1>3, <1>5

LEMMA EvenHalf ==
  ASSUME NEW o \in Nat, NEW m \in Nat, o = 2 * m
  PROVE  o % 2 = 0 /\ o \div 2 = m
  BY SMT

LEMMA AuditStep ==
  Audit!AuditInv /\ [Audit!Next]_(Audit!vars) => Audit!AuditInv'
  <1> SUFFICES ASSUME Audit!AuditInv, [Audit!Next]_(Audit!vars)
               PROVE  Audit!AuditInv'
    OBVIOUS
  <1>1. CASE UNCHANGED Audit!vars
    <2>1. UNCHANGED <<Audit!writerVars, Audit!callVars, vpc, expected, chain,
                      held, verdict, offset, disturbed>>
      BY <1>1 DEF Audit!vars, Audit!verifyVars, Audit!sharedVars
    <2>2. /\ Audit!NumbersRise' /\ Audit!ChainContinues' /\ Audit!AckedOnDisk'
          /\ Audit!CutsExplain' /\ Audit!End' = Audit!End
          /\ UNCHANGED <<file, torn, spoiled, buffer, sequence, previous, log,
                         events, acked, failures, restarts, kills>>
      BY <2>1, WriterKept
    <2>3. Audit!TypeOK' /\ Audit!VerifiersProgress'
      BY <2>1, <2>2 DEF Audit!AuditInv, Audit!TypeOK, Audit!Garbled,
         Audit!VerifiersProgress, Audit!Progress, Audit!Follows
    <2> QED
      BY <2>2, <2>3 DEF Audit!AuditInv
  <1>2. CASE Audit!Next
    BY <1>2, AppendOkInv, AppendFailsInv, AppendCutInv, CloseInv, CrashInv,
       CrashInAppendInv, OpenInv, VerifyStartInv, VerifyReadHalfInv, VerifyReadLineInv,
       VerifyEndInv DEF Audit!Next
  <1> QED
    BY <1>1, <1>2

LEMMA AuditAlways ==
  Spec => []Audit!AuditInv
  <1>1. Init => Audit!AuditInv
    BY AuditInit DEF Init
  <1>2. Audit!AuditInv /\ [Next]_vars => Audit!AuditInv'
    BY StepOfEach, AuditStep
  <1> QED
    BY <1>1, <1>2, PTL DEF Spec

\* Whatever writes fail and wherever the process dies, between appends or in the
\* middle of one, an acknowledged event is on disk, at most one of them for every
\* such cut can no longer be read, the numbers rise along the file, and a broken
\* chain shows a cut.
THEOREM LogKeptInv == Spec => []LogKept
  <1>1. Audit!AuditInv => LogKept
    <2> SUFFICES ASSUME Audit!AuditInv PROVE LogKept
      OBVIOUS
    <2>1. /\ file \in Seq(Audit!Line) /\ buffer \in Seq(Audit!Line)
          /\ sequence \in Nat /\ Audit!Cuts \in Nat
          /\ Audit!Rising(file \o buffer, sequence)
      BY DEF Audit!AuditInv, Audit!TypeOK, Audit!NumbersRise, Audit!Cuts
    <2>2. Audit!Rising(file, sequence)
      BY <2>1, RisingPrefix
    <2>3. Audit!SequencesRise
      BY <2>2 DEF Audit!SequencesRise, Audit!Rising
    <2>4. Audit!Intact(file) \/ Audit!Cuts > 0
      BY <2>1 DEF Audit!AuditInv, Audit!ChainContinues
    <2>5. Audit!LossIsBounded
      <3>1. Audit!Cardinality(Audit!Lost) \in Nat
        <4>1. Audit!Lost \subseteq 1..MaxEvents
          BY DEF Audit!Lost, Audit!AuditInv, Audit!TypeOK, Audit!Event
        <4>2. IsFiniteSet(1..MaxEvents)
          BY AuditFacts, FS_Interval
        <4>3. IsFiniteSet(Audit!Lost)
          BY <4>1, <4>2, FS_Subset
        <4> QED
          BY <4>3, FS_CardinalityType, AuditCounts
      <3> QED
        BY <2>1, <3>1 DEF Audit!LossIsBounded, Audit!AuditInv, Audit!CutsExplain
    <2> QED
      BY <2>3, <2>4, <2>5 DEF LogKept, Audit!LogKept, Audit!AuditInv
  <1> QED
    BY <1>1, AuditAlways, PTL

\* A verification whose offset no append and no other verification has moved
\* answers exactly what is true of the file.
THEOREM VerdictStep == Spec => UndisturbedVerdict
  <1> DEFINE Told(v) ==
        vpc[v] = "read" /\ vpc'[v] = "idle" /\ v \notin disturbed /\ log' = log
          => (verdict'[v] = "ok" <=> Audit!Intact(file) /\ ~Audit!HalfLine)
  <1>1. Audit!AuditInv /\ [Next]_vars => [\A v \in Verifiers : Told(v)]_(Audit!vars)
    <2> SUFFICES ASSUME Audit!AuditInv, Audit!Next, NEW v \in Verifiers,
                        vpc[v] = "read", vpc'[v] = "idle", v \notin disturbed,
                        log' = log
                 PROVE  verdict'[v] = "ok" <=> Audit!Intact(file) /\ ~Audit!HalfLine
      BY StepOfEach
    <2> DEFINE n == offset \div 2
    <2>0. /\ vpc \in [Verifiers -> {"idle", "read"}]
          /\ verdict \in [Verifiers -> {"none", "ok", "error"}]
          /\ file \in Seq(Audit!Line) /\ Len(file) \in Nat
          /\ DOMAIN file = 1..Len(file)
          /\ Audit!End \in Nat /\ offset \in 0..Audit!End /\ log = "open"
      BY LenProperties DEF Audit!AuditInv, Audit!TypeOK, Audit!End,
                           Audit!VerifiersProgress
    <2>1. /\ Audit!Progress(v) /\ offset \in Nat
          /\ expected[v] = n
          /\ held[v] = IF offset % 2 = 0 THEN 0 ELSE n + 1
          /\ chain[v] = IF n = 0 THEN 0 ELSE file[n].hash
          /\ \A i \in 1..n : Audit!Follows(file, i)
      BY <2>0 DEF Audit!AuditInv, Audit!VerifiersProgress, Audit!Progress
    <2>2. CASE Audit!VerifyReadLine(v)
      <3>1. /\ offset % 2 = 1 /\ offset < Audit!End
            /\ held[v] # n + 1 \/ ~Audit!Expected(v, file[n + 1])
            /\ Audit!Answer(v, "error")
        BY <2>0, <2>2 DEF Audit!VerifyReadLine
      <3>2. n + 1 \in DOMAIN file /\ n \in Nat
        BY <3>1, OffsetFacts
      <3>3. ~Audit!Expected(v, file[n + 1])
        BY <2>1, <3>1
      <3> HIDE DEF n
      <3>4. ~Audit!Follows(file, n + 1)
        BY <2>1, <3>2, <3>3 DEF Audit!Expected, Audit!Follows
      <3>5. ~Audit!Intact(file)
        BY <3>2, <3>4 DEF Audit!Intact
      <3>6. verdict'[v] = "error"
        BY <2>0, <3>1 DEF Audit!Answer
      <3> QED
        BY <3>5, <3>6
    <2>3. CASE Audit!VerifyEnd(v)
      <3>1. /\ offset >= Audit!End
            /\ Audit!Answer(v, IF held[v] = 0 THEN "ok" ELSE "error")
        BY <2>3 DEF Audit!VerifyEnd
      <3>2. offset = Audit!End
        BY <2>0, <2>1, <3>1
      <3>3. verdict'[v] = IF held[v] = 0 THEN "ok" ELSE "error"
        BY <2>0, <3>1 DEF Audit!Answer
      <3>4. CASE Audit!HalfLine
        <4>1. offset = 2 * Len(file) + 1
          BY <3>2, <3>4 DEF Audit!End
        <4>2. offset % 2 # 0 /\ n \in Nat
          BY <2>0, <2>1, <4>1, Halves
        <4> QED
          BY <2>1, <3>3, <3>4, <4>2
      <3>5. CASE ~Audit!HalfLine
        <4>1. offset = 2 * Len(file)
          BY <2>0, <3>2, <3>5 DEF Audit!End
        <4>2. offset % 2 = 0 /\ n = Len(file)
          BY <2>0, <2>1, <4>1, EvenHalf
        <4>3. Audit!Intact(file)
          BY <2>0, <2>1, <4>2 DEF Audit!Intact
        <4> QED
          BY <2>1, <3>3, <3>5, <4>2, <4>3
      <3> QED
        BY <3>4, <3>5
    <2>4. CASE \E u \in Verifiers : \/ Audit!VerifyStart(u)
                                    \/ Audit!VerifyReadHalf(u)
      BY <2>0, <2>4 DEF Audit!VerifyStart, Audit!Begin, Audit!VerifyReadHalf
    <2>5. CASE \E u \in Verifiers \ {v} : Audit!VerifyReadLine(u) \/ Audit!VerifyEnd(u)
      BY <2>0, <2>5 DEF Audit!VerifyReadLine, Audit!VerifyEnd, Audit!Answer
    <2>6. CASE \/ Audit!AppendOk \/ Audit!AppendFails \/ Audit!AppendDropped
               \/ Audit!AppendCut \/ Audit!Close \/ Audit!Open
      BY <2>0, <2>6 DEF Audit!AppendOk, Audit!AppendFails, Audit!AppendDropped,
         Audit!AppendCut, Audit!Close, Audit!Open, Audit!verifyVars
    <2>7. CASE Audit!Crash \/ Audit!CrashInAppend
      BY <2>0, <2>7 DEF Audit!Crash, Audit!CrashInAppend, Audit!Dies
    <2> QED
      BY <2>2, <2>3, <2>4, <2>5, <2>6, <2>7 DEF Audit!Next
  <1> QED
    BY <1>1, AuditAlways, PTL DEF Spec, UndisturbedVerdict, Audit!UndisturbedVerdict
=============================================================================
