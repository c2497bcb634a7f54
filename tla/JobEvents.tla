------------------------------ MODULE JobEvents ------------------------------
(***************************************************************************)
(* The event stream of one job: JobQueue::emit and JobQueue::subscribe     *)
(* (rust/crates/jasusi-service/src/queue.rs) with the loop that feeds a    *)
(* StreamJobEvents call (rust/crates/jasusi-core/src/rpc/server.rs).       *)
(*                                                                         *)
(* An event is persisted, then sent to the one broadcast channel the job   *)
(* has in `channels`.  Every subscription puts a channel of its own in     *)
(* that place and then replays the stored rows into it.  A broadcast       *)
(* channel keeps the last Capacity events: a receiver further behind gets  *)
(* Lagged.  The loop hands each event to the response through a channel    *)
(* of Outbox messages and waits when that is full.                         *)
(***************************************************************************)
EXTENDS Naturals, Sequences, SequencesExt

CONSTANTS
    EventIds,     \* the events of the job
    Subscribers,  \* calls of subscribe
    NoSubscriber,
    Capacity,     \* of a broadcast channel (256 in the code)
    Outbox,       \* of the channel to the response (64 in the code)
    MaxFaults     \* bound: database errors

EventsAssumption ==
    /\ NoSubscriber \notin Subscribers
    /\ Capacity \in Nat \ {0} /\ Outbox \in Nat \ {0}
    /\ MaxFaults \in Nat

VARIABLES
    rows,      \* job_events of the job, oldest first
    tried,     \* events whose insert was attempted
    sent,      \* events whose send is done
    channel,   \* the subscription whose sender is in `channels`
    spc,       \* where a subscription is
    fromStart, \* its argument
    fed,       \* everything ever sent to its channel
    seen,      \* how much of it the receiver consumed
    got,       \* what the loop took from it for the caller
    unread,    \* how many of these the client has not read; of Outbox + 1 the
               \* last one is in the loop's hands, waiting for room
    faults

emitVars == <<rows, tried, sent>>
subVars  == <<channel, spc, fromStart, fed, seen, got, unread>>
vars     == <<emitVars, subVars, faults>>

TypeOK ==
    /\ rows \in Seq(EventIds)
    /\ tried \subseteq EventIds /\ sent \subseteq EventIds
    /\ channel \in Subscribers \cup {NoSubscriber}
    /\ spc \in [Subscribers -> {"idle", "replay", "stream", "ended", "gone",
                            "error"}]
    /\ fromStart \in [Subscribers -> BOOLEAN]
    /\ fed \in [Subscribers -> Seq(EventIds)]
    /\ seen \in [Subscribers -> Nat]
    /\ got \in [Subscribers -> Seq(EventIds)]
    /\ unread \in [Subscribers -> 0..Outbox + 1]
    /\ \A s \in Subscribers : seen[s] = Len(got[s])
    /\ faults \in 0..MaxFaults

Init ==
    /\ rows = << >> /\ tried = {} /\ sent = {}
    /\ channel = NoSubscriber
    /\ spc = [s \in Subscribers |-> "idle"]
    /\ fromStart = [s \in Subscribers |-> FALSE]
    /\ fed = [s \in Subscribers |-> << >>]
    /\ seen = [s \in Subscribers |-> 0]
    /\ got = [s \in Subscribers |-> << >>]
    /\ unread = [s \in Subscribers |-> 0]
    /\ faults = 0

-----------------------------------------------------------------------------
\* emit, first half: an error of the insert is ignored.
Persist(e) ==
    /\ e \notin tried
    /\ tried' = tried \cup {e}
    /\ \/ rows' = Append(rows, e) /\ UNCHANGED faults
       \/ faults < MaxFaults /\ faults' = faults + 1 /\ UNCHANGED rows
    /\ UNCHANGED <<sent, subVars>>

Feed(s, events) == fed' = [fed EXCEPT ![s] = @ \o events]

Send_Unordered(e) ==                                          \* mutated
    /\ e \notin sent
    /\ sent' = sent \cup {e}
    /\ IF channel = NoSubscriber THEN UNCHANGED fed ELSE Feed(channel, <<e>>)
    /\ UNCHANGED <<rows, tried, channel, spc, fromStart, seen, got,
                   unread, faults>>

\* emit, second half: the sender is looked up and used under the map's lock.
Send(e) ==
    /\ e \in tried \ sent
    /\ sent' = sent \cup {e}
    /\ IF channel = NoSubscriber THEN UNCHANGED fed ELSE Feed(channel, <<e>>)
    /\ UNCHANGED <<rows, tried, channel, spc, fromStart, seen, got,
                   unread, faults>>

-----------------------------------------------------------------------------
\* subscribe: the new sender takes the place of an earlier subscription's.
Subscribe(s, from) ==
    /\ spc[s] = "idle"
    /\ channel' = s
    /\ fromStart' = [fromStart EXCEPT ![s] = from]
    /\ spc' = [spc EXCEPT ![s] = IF from THEN "replay" ELSE "stream"]
    /\ UNCHANGED <<emitVars, fed, seen, got, unread, faults>>

\* subscribe: the rows are replayed under the connection's lock.  An error
\* fails the call after its sender has taken the place.
Replay(s) ==
    /\ spc[s] = "replay"
    /\ \/ /\ Feed(s, rows)
          /\ spc' = [spc EXCEPT ![s] = "stream"]
          /\ UNCHANGED faults
       \/ /\ faults < MaxFaults /\ faults' = faults + 1
          /\ spc' = [spc EXCEPT ![s] = "error"]
          /\ UNCHANGED fed
    /\ UNCHANGED <<emitVars, channel, fromStart, seen, got, unread>>

Lagged(s) == Len(fed[s]) - seen[s] > Capacity

\* The loop waits in `tx.send(..).await`: the client leaves its messages unread.
Blocked(s) == unread[s] > Outbox

Passed(s) == unread' = [unread EXCEPT ![s] = @ + 1]

Receive_SkipsLost(s) ==                                       \* mutated
    /\ spc[s] = "stream" /\ ~Blocked(s) /\ seen[s] < Len(fed[s])
    /\ Passed(s)
    /\ seen' = [seen EXCEPT ![s] =
                  IF Lagged(s) THEN Len(fed[s]) - Capacity + 1 ELSE @ + 1]
    /\ got' = [got EXCEPT ![s] = Append(@, fed[s][seen'[s]])]
    /\ UNCHANGED <<emitVars, channel, spc, fromStart, fed, faults>>

\* `while let Ok(event) = events.recv().await`: one event is passed on, or
\* held until there is room for it.
Receive(s) ==
    /\ spc[s] = "stream" /\ ~Blocked(s)
    /\ seen[s] < Len(fed[s]) /\ ~Lagged(s)
    /\ Passed(s)
    /\ seen' = [seen EXCEPT ![s] = @ + 1]
    /\ got' = [got EXCEPT ![s] = Append(@, fed[s][seen[s] + 1])]
    /\ UNCHANGED <<emitVars, channel, spc, fromStart, fed, faults>>

\* The client reads a message of its response; nothing makes it do so.
ClientRead(s) ==
    /\ spc[s] \in {"stream", "ended"} /\ unread[s] > 0
    /\ unread' = [unread EXCEPT ![s] = @ - 1]
    /\ UNCHANGED <<emitVars, channel, spc, fromStart, fed, seen, got, faults>>

StreamEnd_OnLagged(s) ==                                      \* mutated
    /\ spc[s] = "stream" /\ ~Blocked(s) /\ Lagged(s)
    /\ spc' = [spc EXCEPT ![s] = "ended"]
    /\ UNCHANGED <<emitVars, channel, fromStart, fed, seen, got, unread,
                   faults>>

\* The loop ends on Lagged, and on Closed once a later subscription dropped
\* the sender and the channel is empty.
StreamEnd(s) ==
    /\ spc[s] = "stream" /\ ~Blocked(s)
    /\ Lagged(s) \/ (channel # s /\ seen[s] = Len(fed[s]))
    /\ spc' = [spc EXCEPT ![s] = "ended"]
    /\ UNCHANGED <<emitVars, channel, fromStart, fed, seen, got, unread,
                   faults>>

\* The caller disconnects: the loop fails to pass an event on, the one it has
\* been holding or its next, and ends.  The sender stays in `channels`.
Disconnect(s) ==
    /\ spc[s] = "stream"
    /\ Blocked(s) \/ (seen[s] < Len(fed[s]) /\ ~Lagged(s))
    /\ spc' = [spc EXCEPT ![s] = "gone"]
    /\ UNCHANGED <<emitVars, channel, fromStart, fed, seen, got, unread,
                   faults>>

Next ==
    \/ \E e \in EventIds : Persist(e) \/ Send(e)
    \/ \E s \in Subscribers :
        \/ \E from \in BOOLEAN : Subscribe(s, from)
        \/ Replay(s) \/ Receive(s) \/ StreamEnd(s)
        \/ ClientRead(s) \/ Disconnect(s)

Spec == Init /\ [][Next]_vars

\* Tokio runs the emitting tasks and the loop of every stream.  A client owes
\* nothing: it may leave its response unread, and its loop waiting, for ever.
Fairness ==
    /\ \A e \in EventIds : WF_vars(Persist(e)) /\ WF_vars(Send(e))
    /\ \A s \in Subscribers : WF_vars(Replay(s) \/ Receive(s) \/ StreamEnd(s))

-----------------------------------------------------------------------------
\* The subscription in place has been sent every stored event whose emission
\* is over: inserting the sender before the replay, and persisting before the
\* send, leaves no gap between history and future.
NoGap ==
    \A s \in Subscribers :
        channel = s /\ fromStart[s] /\ spc[s] = "stream"
            => \A e \in sent : Contains(rows, e) => Contains(fed[s], e)

\* A caller never receives a stream with a hole: what it got is a prefix of
\* what was sent to its channel, because the loop stops on Lagged.
NoSilentHole == \A s \in Subscribers : IsPrefix(got[s], fed[s])

\* So what a subscriber has is a whole beginning of what was stored and sent.
StreamGapless == NoGap /\ NoSilentHole

\* Why it holds: an event is sent only after its insert was attempted.
StreamInv == TypeOK /\ sent \subseteq tried /\ StreamGapless

\* A stream that was displaced by a later subscription does not hang, unless
\* its client leaves the loop waiting for room for ever.
DisplacedStreamEnds ==
    \A s \in Subscribers :
        []<>~Blocked(s) =>
            ((spc[s] = "stream" /\ channel # s)
                ~> spc[s] \in {"ended", "gone"})
=============================================================================
