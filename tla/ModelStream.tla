------------------------------- MODULE ModelStream -------------------------------
(***************************************************************************)
(* One request to the model and what the turn loop gets of it: the retries *)
(* of the clients in rust/crates/api/src/providers, the stream of an       *)
(* answer, which may break off anywhere, the events that the clients of    *)
(* the terminal program (main.rs) and of agents (tools/src/lib.rs) collect *)
(* from it, and the second request, not streamed, that follows a stream    *)
(* without content.  An answer is a sequence of blocks, a block comes in   *)
(* Parts parts; part <<r, i, n>> is the n-th of block i of response r.  An *)
(* Anthropic server sends block after block and says where each ends; an   *)
(* OpenAI one mixes the calls of tools, and the client ends their blocks.  *)
(* Only the terminal program, which asks an Anthropic server, shows texts. *)
(***************************************************************************)
EXTENDS Naturals, Sequences, SequencesExt, FiniteSets

CONSTANTS
    Responses,      \* what the model may answer: sequences of kinds
    Parts,          \* of a block
    MaxRetries      \* of a request (2 in the code)

Kinds == {"text", "tool", "thinking"}

ModelStreamAssumption ==
    /\ Responses \subseteq Seq(Kinds) /\ Responses # {}
    /\ Parts \in Nat \ {0} /\ MaxRetries \in Nat

VARIABLES
    provider,   \* anthropic or openai
    stage,      \* where the request is
    attempts,   \* of the request under way
    response,   \* the response that is streamed
    arrived,    \* parts of each of its blocks that have arrived
    ended,      \* blocks whose end was told
    pending,    \* pending_tools: the input gathered, by slot
    events,     \* AssistantEvents: [kind, input] of texts and tool uses
    stop,       \* whether MessageStop is among them
    printed,    \* history: the parts of text that the user has seen
    unshown     \* MarkdownStreamState: those that wait for the end of a paragraph

streamVars == <<provider, stage, attempts, response, arrived, ended, pending,
                events, stop, printed, unshown>>

Nothing == [i \in {} |-> << >>]

Init ==
    /\ provider \in {"anthropic", "openai"} /\ stage = "ask"
    /\ attempts = 0 /\ response = << >> /\ arrived = << >>
    /\ ended = {} /\ pending = Nothing /\ events = << >>
    /\ stop = FALSE /\ printed = {} /\ unshown = {}

Blocks == DOMAIN response
Piece(i) == <<1, i, arrived[i] + 1>>
Full(r, i) == [n \in 1..Parts |-> <<r, i, n>>]

-----------------------------------------------------------------------------
\* send_with_retry: a retryable failure is tried again, another one is final.
Retry ==
    /\ stage \in {"ask", "askWhole"}
    /\ attempts' = attempts + 1
    /\ stage' \in {"failed"} \cup (IF attempts < MaxRetries THEN {stage} ELSE {})
    /\ UNCHANGED <<provider, response, arrived, ended, pending, events, stop,
                   printed, unshown>>

\* stream_message: the server begins to answer.
Open ==
    /\ stage = "ask"
    /\ stage' = "stream" /\ attempts' = 0
    /\ response' \in {r \in Responses : provider = "openai" =>
                                        "thinking" \notin ToSet(r)}
    /\ arrived' = [i \in DOMAIN response' |-> 0]
    /\ UNCHANGED <<provider, ended, pending, events, stop, printed, unshown>>

-----------------------------------------------------------------------------
\* The input gathered so far, with one more part: the block's start clears it.
Gathered(i) ==
    [k \in DOMAIN pending \cup {i} |->
        IF k # i THEN pending[k]
        ELSE IF arrived[i] = 0 THEN <<Piece(i)>>
        ELSE Append(pending[i], Piece(i))]

\* Of two parts, the first comes first; of a text, the parts that may be shown.
Before(p, q) == p[2] < q[2] \/ (p[2] = q[2] /\ p[3] < q[3])
Beginnings(S) == {b \in SUBSET S : \A p \in b, q \in S \ b : Before(p, q)}

\* MarkdownStreamState::push: the text up to its last blank line or closed fence,
\* which may be anywhere, is printed, and the rest waits.
Push(piece) ==
    \E ready \in Beginnings(unshown \cup {piece}) :
        /\ printed' = printed \cup ready
        /\ unshown' = (unshown \cup {piece}) \ ready

\* MarkdownStreamState::flush, of which the agents' client has none.
Flush_Drops == unshown' = {} /\ UNCHANGED printed             \* mutated
Flush == unshown' = {} /\ printed' = printed \cup unshown

\* ContentBlockStart and ContentBlockDelta: a text is an event at once, and is
\* pushed; a tool's input is gathered; thinking is skipped.
Delta(i) ==
    /\ arrived[i] < Parts
    /\ arrived' = [arrived EXCEPT ![i] = @ + 1]
    /\ events' = IF response[i] = "text"
                   THEN Append(events, [kind |-> "text", input |-> <<Piece(i)>>])
                   ELSE events
    /\ IF response[i] = "text" /\ provider = "anthropic"
         THEN Push(Piece(i)) ELSE UNCHANGED <<printed, unshown>>
    /\ pending' = IF response[i] = "tool" THEN Gathered(i) ELSE pending

\* The sequence of the numbers in S, in order: the only element of this set.
InOrder(S) ==
    {order \in [1..Cardinality(S) -> S] :
        /\ \A m, n \in DOMAIN order : m < n => order[m] < order[n]
        /\ \A i \in S : \E n \in DOMAIN order : order[n] = i}

\* ContentBlockStop of blocks, in order: what was gathered of each is an event.
BlockStop(blocks) ==
    /\ \E order \in InOrder(blocks \cap DOMAIN pending) :
         events' = events \o [n \in DOMAIN order |->
                         [kind |-> "tool", input |-> pending[order[n]]]]
    /\ pending' = Restrict(pending, DOMAIN pending \ blocks)

-----------------------------------------------------------------------------
\* The frames of an Anthropic stream: of one block after another, and the
\* message's end.
Current(i) == i \notin ended /\ \A k \in 1..(i - 1) : k \in ended
Frame(i) ==
    /\ stage = "stream" /\ provider = "anthropic" /\ Current(i)
    /\ \/ Delta(i) /\ UNCHANGED ended
       \/ /\ arrived[i] = Parts /\ ended' = ended \cup {i}
          /\ BlockStop({i}) /\ Flush /\ UNCHANGED arrived
    /\ UNCHANGED <<provider, stage, attempts, response, stop>>
MessageStop ==
    /\ stage = "stream" /\ provider = "anthropic" /\ ended = Blocks /\ ~stop
    /\ stop' = TRUE /\ Flush
    /\ UNCHANGED <<provider, stage, attempts, response, arrived, ended,
                   pending, events>>

\* ingest_chunk: parts of any block; if finish_reason is "tool_calls", as not
\* every server says, it ends the calls.
Chunk(i) ==
    /\ stage = "stream" /\ provider = "openai"
    /\ Delta(i)
    /\ UNCHANGED <<provider, stage, attempts, response, ended, stop>>
FinishReason ==
    /\ stage = "stream" /\ provider = "openai" /\ ended # Blocks
    /\ \A i \in Blocks : arrived[i] = Parts
    /\ ended' = Blocks /\ BlockStop(Blocks)
    /\ UNCHANGED <<provider, stage, attempts, response, arrived, stop,
                   printed, unshown>>

\* The events end: without content the request is made again, not streamed; a
\* message that was ended has to have content; content is taken as ended.
Conclude_OnlyIfStopped(told) ==                                \* mutated
    /\ stop' = told
    /\ stage' = IF ~told THEN "askWhole"
                ELSE IF events' = << >> THEN "failed" ELSE "answered"
Conclude(told) ==
    /\ stop' = (told \/ events' # << >>)
    /\ stage' = IF events' # << >> THEN "answered"
                ELSE IF told THEN "failed" ELSE "askWhole"

\* next_event: the connection is closed, wherever the stream is, and nothing is
\* flushed.  Calls that an OpenAI stream has begun are ended, and the message,
\* if it has begun.
EndOfStream ==
    /\ stage = "stream"
    /\ \/ /\ provider = "anthropic"
          /\ UNCHANGED <<events, pending>>
          /\ Conclude(stop)
       \/ /\ provider = "openai"
          /\ BlockStop(Blocks)
          /\ \E begun \in BOOLEAN :
                /\ (\E i \in Blocks : arrived[i] > 0) => begun
                /\ Conclude(begun)
    /\ UNCHANGED <<provider, attempts, response, arrived, ended, printed, unshown>>

\* The connection breaks, a frame cut in the middle is no JSON, or the text
\* cannot be printed.
Breaks ==
    /\ stage = "stream" /\ stage' = "failed"
    /\ UNCHANGED <<provider, attempts, response, arrived, ended, pending,
                   events, stop, printed, unshown>>

\* send_message and response_to_events: the blocks of one whole response, which
\* need not be the one whose stream was empty.
Whole ==
    /\ stage = "askWhole"
    /\ \E r \in Responses :
        \E said \in InOrder({i \in DOMAIN r : r[i] # "thinking"}) :
            /\ events' = [n \in DOMAIN said |->
                            [kind |-> r[said[n]], input |-> Full(2, said[n])]]
            /\ printed' = printed \cup UNION {ToSet(Full(2, i)) :
                 i \in {k \in DOMAIN r : r[k] = "text" /\ provider = "anthropic"}}
            /\ response' = r /\ ended' = DOMAIN r
            /\ arrived' = [i \in DOMAIN r |-> Parts]
            /\ stage' = IF said = << >> THEN "failed" ELSE "answered"
    /\ stop' = TRUE
    /\ UNCHANGED <<provider, attempts, pending, unshown>>

Next ==
    \/ Retry \/ Open \/ MessageStop \/ FinishReason \/ EndOfStream \/ Breaks \/ Whole
    \/ \E i \in Blocks : Frame(i) \/ Chunk(i)

Spec == Init /\ [][Next]_streamVars
-----------------------------------------------------------------------------
\* Of a tool's input at most the end is missing, and not even that where the
\* server tells the end of a block; a beginning of a JSON object is none, so
\* that every tool refuses it.
TrueTo(r, e) ==
    \E i \in Blocks :
        /\ response[i] = e.kind
        /\ IF e.kind = "text" THEN ToSet(e.input) \subseteq ToSet(Full(r, i))
           ELSE /\ IsPrefix(e.input, Full(r, i))
                /\ provider = "anthropic" => e.input = Full(r, i)

Received(i) == arrived[i] = Parts /\ (provider = "anthropic" => i \in ended)
Answered == UNION {ToSet(events[n].input) : n \in DOMAIN events}

TextAnswered == {p \in Answered : response[p[2]] = "text"}

\* The answer that the turn loop goes on with, and stores, is of one response,
\* however the stream ended and whatever was asked again: it has every block
\* that was received, no part twice, and of every tool its own input.  The user
\* of the terminal program has seen nothing else, and all of its text but the
\* end of a block inside which the stream was closed, which is stored unseen.
AnswerHonest ==
    stage = "answered" =>
        /\ \E r \in {1, 2} :
            /\ \A n \in DOMAIN events : TrueTo(r, events[n])
            /\ \A i \in Blocks : response[i] # "thinking" /\ Received(i)
                    => ToSet(Full(r, i)) \subseteq Answered
        /\ \A m, n \in DOMAIN events :
              m # n => ToSet(events[m].input) \cap ToSet(events[n].input) = {}
        /\ printed \subseteq TextAnswered
        /\ provider = "anthropic" =>
             \A p \in TextAnswered \ printed :
                p[2] \notin ended /\ \A q \in printed : Before(q, p)

-----------------------------------------------------------------------------
\* Why it holds: what is kept of response 1 while it is streamed.
TextBlocks == {i \in Blocks : response[i] = "text"}
ToolBlocks == {i \in Blocks : response[i] = "tool"}
Seen(i) == {<<1, i, k>> : k \in 1..arrived[i]}

StreamTypes ==
    /\ provider \in {"anthropic", "openai"}
    /\ stage \in {"ask", "askWhole", "stream", "answered", "failed"}
    /\ attempts \in Nat /\ response \in Seq(Kinds)
    /\ arrived \in [Blocks -> 0..Parts] /\ ended \subseteq Blocks
    /\ stop \in BOOLEAN
    /\ events \in Seq([kind : Kinds, input : Seq({1, 2} \X Nat \X Nat)])

\* Every event is one part of a text, or the parts of a tool's input; ...
EventTrue(e) ==
    \E i \in Blocks :
        /\ e.kind = response[i]
        /\ \/ response[i] = "text" /\ \E k \in 1..arrived[i] : e.input = <<<<1, i, k>>>>
           \/ response[i] = "tool" /\ i \in ended
              /\ e.input = [k \in 1..arrived[i] |-> <<1, i, k>>]

\* ... none is there twice and none is missing, ...
EventsWhole ==
    /\ \A n \in DOMAIN events : EventTrue(events[n])
    /\ \A m, n \in DOMAIN events :
         m # n => ToSet(events[m].input) \cap ToSet(events[n].input) = {}
    /\ \A i \in TextBlocks : Seen(i) \subseteq Answered
    /\ \A i \in ToolBlocks \cap ended : Seen(i) \subseteq Answered

\* ... the parts of the blocks that have not ended are gathered, in order, ...
GatheredSoFar ==
    /\ DOMAIN pending = {i \in ToolBlocks \ ended : arrived[i] > 0}
    /\ \A i \in DOMAIN pending : pending[i] = [n \in 1..arrived[i] |-> <<1, i, n>>]
    /\ \A i \in ended : arrived[i] = Parts

\* ... every part of a text that has arrived is shown, or waits to be, ...
ShownSoFar ==
    printed \cup unshown =
        IF provider = "anthropic" THEN UNION {Seen(i) : i \in TextBlocks} ELSE {}

\* ... and those that wait are of the block that has not ended, the last one.
WaitingSoFar ==
    provider = "anthropic" =>
        /\ \A i, k \in Blocks : arrived[i] > 0 /\ k < i => k \in ended
        /\ \A p \in unshown : p[2] \notin ended /\ \A q \in printed : Before(q, p)

StreamInv ==
    /\ StreamTypes
    /\ stage \in {"ask", "askWhole"} => events = << >> /\ printed = {} /\ unshown = {}
    /\ stage = "ask" => response = << >> /\ ended = {} /\ pending = Nothing
    /\ stage = "stream" => EventsWhole /\ GatheredSoFar /\ ShownSoFar /\ WaitingSoFar
    /\ AnswerHonest
=============================================================================
