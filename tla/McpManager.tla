------------------------------ MODULE McpManager ------------------------------
(***************************************************************************)
(* McpServerManager of rust/crates/runtime/src/mcp_stdio.rs with the child *)
(* processes it talks JSON-RPC to over their stdin and stdout.             *)
(*                                                                         *)
(* The manager is used by one thread at a time, and works on one request   *)
(* at a time.  What it competes with are the processes: each may answer,   *)
(* late or never, write something else, or exit, at any time.              *)
(* Every answer carries the id of its request; CleanPipe is why the model  *)
(* needs no ids: what a process has not read or written for the request in *)
(* hand is never left from an earlier one.  "junk" stands for every line   *)
(* that is refused: unparsable, of another version, or with another id.    *)
(***************************************************************************)
EXTENDS Naturals, Sequences, SequencesExt, FiniteSets

CONSTANTS
    Order,      \* the configured stdio servers, in the order of their names
    Tools,      \* raw tool names
    QNames,     \* qualified tool names
    Qualified,  \* mcp_tool_name: per server and tool, maybe not injective
    NoRoute,    \* not a route
    MaxPages,   \* bound: further pages a server sends for one listing
    MaxJunk,    \* bound: unread junk of a process
    MaxFaults   \* bound: resets that fail to kill the process

Servers == ToSet(Order)
Routes == Servers \X Tools

ASSUME McpAssumption ==
    /\ Order \in Seq(Servers) /\ Order # << >>
    /\ \A i, j \in DOMAIN Order : Order[i] = Order[j] => i = j
    /\ Qualified \in [Routes -> QNames]
    /\ NoRoute \notin Routes
    /\ MaxPages \in Nat /\ MaxJunk \in Nat /\ MaxFaults \in Nat

VARIABLES
    proc,       \* ManagedMcpServer.process: none, alive, or dead
    init,       \* ManagedMcpServer.initialized
    inbox,      \* requests written to the process, which it has not read
    outbox,     \* what it has written, and the manager has not read
    routes,     \* tool_index
    op, todo,   \* the operation, and the servers it has still to work on
    phase,      \* of its attempt: check and spawn, send, wait for the answer
    tries, initTries,  \* retries of the attempt, and of its initialize
    page, found,       \* further pages asked for, tools listed so far
    greeted,    \* history: servers whose live process accepted an initialize
    reported,   \* history: tools of each server's last finished discovery
    spawned, called,  \* history: processes and tool calls, for this server
    orphans,    \* history: live processes the manager has lost
    faults

procVars == <<proc, init, inbox, outbox, greeted>>
opVars   == <<op, todo, phase, tries, initTries, page, found, spawned, called>>
toolVars == <<routes, reported>>
lossVars == <<orphans, faults>>
vars == <<procVars, opVars, toolVars, lossVars>>

Operations == {"discover", "best_effort", "call", "list", "read", "shutdown"}
Replies == {"result", "rpc_error", "empty"}

TypeOK ==
    /\ proc \in [Servers -> {"none", "alive", "dead"}]
    /\ init \in [Servers -> BOOLEAN]
    /\ inbox \in [Servers -> Seq({"initialize", "request"})]
    /\ outbox \in [Servers -> Seq(Replies \cup {"junk"})]
    /\ routes \in [QNames -> Routes \cup {NoRoute}]
    /\ op \in Operations \cup {"idle"}
    /\ todo \in Seq(Servers) /\ (todo = << >> <=> op = "idle")
    /\ phase \in {"check", "send", "wait"}
    /\ tries \in 0..1 /\ initTries \in 0..1
    /\ page \in 0..MaxPages /\ found \subseteq Tools
    /\ greeted \subseteq Servers
    /\ reported \in [Servers -> SUBSET Tools]
    /\ spawned \in Nat /\ called \in Nat /\ orphans \in Nat
    /\ faults \in 0..MaxFaults

Init ==
    /\ proc = [s \in Servers |-> "none"]
    /\ init = [s \in Servers |-> FALSE]
    /\ inbox = [s \in Servers |-> << >>]
    /\ outbox = [s \in Servers |-> << >>]
    /\ routes = [q \in QNames |-> NoRoute]
    /\ op = "idle" /\ todo = << >> /\ phase = "check"
    /\ tries = 0 /\ initTries = 0 /\ page = 0 /\ found = {}
    /\ greeted = {} /\ reported = [s \in Servers |-> {}]
    /\ spawned = 0 /\ called = 0 /\ orphans = 0 /\ faults = 0

-----------------------------------------------------------------------------
\* The operation o works on the servers in `list`, afresh on the first.
WorkOn(o, list) ==
    /\ op' = o /\ todo' = list /\ phase' = "check"
    /\ tries' = 0 /\ initTries' = 0 /\ page' = 0 /\ found' = {}
    /\ spawned' = 0 /\ called' = 0

Return == WorkOn("idle", << >>)

NextServer ==
    \/ Len(todo) > 1 /\ WorkOn(op, Tail(todo))
    \/ Len(todo) = 1 /\ Return

\* The caller starts an operation; an unknown tool is answered at once.
Start(o, list) ==
    /\ op = "idle"
    /\ WorkOn(o, list)
    /\ UNCHANGED <<procVars, toolVars, lossVars>>

CallTool(q) ==
    \/ routes[q] # NoRoute /\ Start("call", <<routes[q][1]>>)
    \/ /\ op = "idle" /\ routes[q] = NoRoute
       /\ Return
       /\ UNCHANGED <<procVars, toolVars, lossVars>>

-----------------------------------------------------------------------------
\* A process whose handle is dropped goes on running: kill_on_drop is not set.
Lost(s) == IF proc[s] = "alive" THEN 1 ELSE 0

\* The process of s is replaced, in `state`, by one with empty pipes or none.
Replace(s, state) ==
    /\ proc' = [proc EXCEPT ![s] = state]
    /\ init' = [init EXCEPT ![s] = FALSE]
    /\ inbox' = [inbox EXCEPT ![s] = << >>]
    /\ outbox' = [outbox EXCEPT ![s] = << >>]
    /\ greeted' = greeted \ {s}

\* reset_server: the process is taken and killed; an error of that is ignored.
Reset(s) ==
    /\ Replace(s, "none")
    /\ \/ UNCHANGED lossVars
       \/ /\ proc[s] = "alive" /\ faults < MaxFaults
          /\ faults' = faults + 1 /\ orphans' = orphans + Lost(s)

Retryable(e) == e \in {"transport", "timeout"}
ShouldReset_NotTimeout(e) == e \in {"transport", "invalid"}    \* mutated
ShouldReset(e) == e \in {"transport", "timeout", "invalid"}

ResetIfNeeded(s, e) ==
    \/ ShouldReset(e) /\ Reset(s)
    \/ ~ShouldReset(e) /\ UNCHANGED <<procVars, lossVars>>

Routed(s) == {q \in QNames : routes[q] # NoRoute /\ routes[q][1] = s}

ClearRoutes_Kept(s) == routes                                  \* mutated
\* clear_routes_for_server.
ClearRoutes(s) == [q \in QNames |-> IF q \in Routed(s) THEN NoRoute ELSE routes[q]]
\* The table with the routes of the tools in T; of two of one qualified name,
\* the one listed last is kept: either.
AddRoutes(table, s, T) ==
    LET new(q) == {r \in {s} \X T : Qualified[r] = q}
    IN  {f \in [QNames -> Routes \cup {NoRoute}] :
            \A q \in QNames : f[q] \in IF new(q) = {} THEN {table[q]} ELSE new(q)}

\* The error is passed on.  Only a best-effort discovery goes on with the next
\* server; it forgets the routes of this one.
GiveUp(s) ==
    \/ /\ op = "best_effort"
       /\ routes' = ClearRoutes(s)
       /\ reported' = [reported EXCEPT ![s] = {}]
       /\ NextServer
    \/ op # "best_effort" /\ Return /\ UNCHANGED toolVars

InitializeAgain(s, e) == ~init[s] /\ Retryable(e) /\ initTries = 0

MayRetry_AnyOperation(e) == Retryable(e) /\ tries = 0          \* mutated
\* Discovery, list_resources and read_resource are tried twice; call_tool once.
MayRetry(e) == op # "call" /\ Retryable(e) /\ tries = 0

\* The whole attempt is made again, from its first page.
TryAgain(s) ==
    /\ Reset(s)
    /\ phase' = "check" /\ initTries' = 0 /\ page' = 0 /\ found' = {}
    /\ tries' = tries + 1
    /\ UNCHANGED <<op, todo, spawned, called, toolVars>>

\* An error of the request in hand, or of the initialize before it.
Fail(s, e) ==
    \/ /\ InitializeAgain(s, e)
       /\ Reset(s)
       /\ phase' = "check" /\ initTries' = 1
       /\ UNCHANGED <<op, todo, tries, page, found, spawned, called,
                      toolVars>>
    \/ ~InitializeAgain(s, e) /\ MayRetry(e) /\ TryAgain(s)
    \/ /\ ~InitializeAgain(s, e) /\ ~MayRetry(e)
       /\ ResetIfNeeded(s, e)
       /\ GiveUp(s)

-----------------------------------------------------------------------------
\* The server the operation works on.
Here(s, ph) ==
    /\ op \notin {"idle", "shutdown"}
    /\ s = Head(todo) /\ phase = ph

NeedsSpawn_Uninitialized(s) == proc[s] = "dead" \/ ~init[s]    \* mutated
NeedsSpawn(s) == proc[s] # "alive"

\* ensure_server_ready: an exited process is reaped, a missing one spawned.
Check(s) ==
    /\ Here(s, "check")
    /\ \/ /\ ~NeedsSpawn(s)
          /\ phase' = "send"
          /\ UNCHANGED <<procVars, op, todo, tries, initTries, page, found,
                         spawned, called, toolVars, lossVars>>
       \/ /\ NeedsSpawn(s)
          /\ Replace(s, "alive")
          /\ orphans' = orphans + Lost(s)
          /\ phase' = "send" /\ spawned' = spawned + 1
          /\ UNCHANGED <<op, todo, tries, initTries, page, found,
                         called, toolVars, faults>>
       \/ /\ NeedsSpawn(s)         \* the command cannot be run
          /\ Replace(s, "none") /\ UNCHANGED lossVars
          /\ GiveUp(s)

\* The request is written: an initialize unless the server has accepted one.
Send(s) ==
    /\ Here(s, "send")
    /\ \/ /\ proc[s] = "alive"
          /\ inbox' = [inbox EXCEPT ![s] =
                          Append(@, IF init[s] THEN "request" ELSE "initialize")]
          /\ phase' = "wait"
          /\ called' = called + IF op = "call" /\ init[s] THEN 1 ELSE 0
          /\ UNCHANGED <<proc, init, outbox, greeted, op, todo, tries,
                         initTries, page, found, spawned, toolVars,
                         lossVars>>
       \/ proc[s] = "dead" /\ Fail(s, "transport")

AcceptInitialize_AnyAnswer(s, reply) ==                        \* mutated
    /\ init' = [init EXCEPT ![s] = TRUE]
    /\ phase' = "send"
    /\ UNCHANGED <<op, todo, tries, initTries, page, found, spawned,
                   called, toolVars, lossVars>>

AcceptInitialize(s, reply) ==
    /\ reply = "result"
    /\ init' = [init EXCEPT ![s] = TRUE]
    /\ phase' = "send"
    /\ UNCHANGED <<op, todo, tries, initTries, page, found, spawned,
                   called, toolVars, lossVars>>

\* tools/list and resources/list are asked again while there is a cursor.
NextPage(tools) ==
    /\ op \in {"discover", "best_effort", "list"} /\ page < MaxPages
    /\ page' = page + 1 /\ found' = found \cup tools
    /\ phase' = "send"
    /\ UNCHANGED <<op, todo, tries, initTries, spawned, called,
                   toolVars, lossVars>>

\* The last page, or the one of a server.
Complete(s, tools) ==
    /\ \/ /\ op \in {"discover", "best_effort"}
          /\ routes' \in AddRoutes(ClearRoutes(s), s, found \cup tools)
          /\ reported' = [reported EXCEPT ![s] = found \cup tools]
       \/ op \notin {"discover", "best_effort"} /\ UNCHANGED toolVars
    /\ NextServer
    /\ UNCHANGED lossVars

Consume(s) ==
    /\ outbox' = [outbox EXCEPT ![s] = Tail(@)]
    /\ UNCHANGED <<proc, inbox, greeted>>

\* What is read is accepted.  call_tool passes any answer on as it is.
Accept(s) ==
    /\ Here(s, "wait") /\ outbox[s] # << >> /\ Head(outbox[s]) # "junk"
    /\ \/ ~init[s] /\ AcceptInitialize(s, Head(outbox[s]))
       \/ /\ init[s] /\ (Head(outbox[s]) = "result" \/ op = "call")
          /\ \E tools \in SUBSET Tools :
                /\ op \in {"discover", "best_effort"} \/ tools = {}
                /\ NextPage(tools) \/ Complete(s, tools)
          /\ UNCHANGED init
    /\ Consume(s)

\* What is read is refused, as an answer or as a result.
Refuse(s) ==
    /\ Here(s, "wait") /\ outbox[s] # << >>
    /\ LET reply == Head(outbox[s]) IN
          \/ reply = "junk" /\ Fail(s, "invalid")
          \/ reply = "empty" /\ ~(init[s] /\ op = "call") /\ Fail(s, "invalid")
          \/ /\ reply = "rpc_error" /\ ~(init[s] /\ op = "call")
             /\ Consume(s) /\ UNCHANGED <<init, lossVars>>
             /\ GiveUp(s)

\* The process closed its stdout.
EndOfFile(s) ==
    /\ Here(s, "wait") /\ outbox[s] = << >> /\ proc[s] = "dead"
    /\ Fail(s, "transport")

Timeout_NotInitialize(s) ==                                    \* mutated
    Here(s, "wait") /\ init[s] /\ Fail(s, "timeout")
Timeout(s) == Here(s, "wait") /\ Fail(s, "timeout")

\* shutdown kills every process; the first that cannot be ends the call.
ShutdownServer(s) ==
    /\ op = "shutdown" /\ s = Head(todo)
    /\ \/ /\ Replace(s, "none")
          /\ NextServer
       \/ proc[s] = "alive" /\ Return /\ UNCHANGED procVars
    /\ UNCHANGED <<toolVars, lossVars>>

-----------------------------------------------------------------------------
\* A process reads a request and answers it.
Serve(s) ==
    /\ proc[s] = "alive" /\ inbox[s] # << >>
    /\ inbox' = [inbox EXCEPT ![s] = Tail(@)]
    /\ \E reply \in Replies :
          /\ outbox' = [outbox EXCEPT ![s] = Append(@, reply)]
          /\ greeted' = IF Head(inbox[s]) = "initialize" /\ reply = "result"
                        THEN greeted \cup {s} ELSE greeted
    /\ UNCHANGED <<proc, init, opVars, toolVars, lossVars>>

Lines(s, kinds) == {i \in DOMAIN outbox[s] : outbox[s][i] \in kinds}

Junk(s) ==
    /\ proc[s] = "alive" /\ Cardinality(Lines(s, {"junk"})) < MaxJunk
    /\ outbox' = [outbox EXCEPT ![s] = Append(@, "junk")]
    /\ UNCHANGED <<proc, init, inbox, greeted, opVars, toolVars, lossVars>>

Exit(s) ==
    /\ proc[s] = "alive"
    /\ proc' = [proc EXCEPT ![s] = "dead"]
    /\ inbox' = [inbox EXCEPT ![s] = << >>]
    /\ greeted' = greeted \ {s}
    /\ UNCHANGED <<init, outbox, opVars, toolVars, lossVars>>

ManagerStep ==
    \E s \in Servers :
        \/ Check(s) \/ Send(s) \/ Accept(s) \/ Refuse(s) \/ EndOfFile(s)
        \/ Timeout(s) \/ ShutdownServer(s)

Next ==
    \/ \E o \in {"discover", "best_effort", "shutdown"} : Start(o, Order)
    \/ \E o \in {"list", "read"}, s \in Servers : Start(o, <<s>>)
    \/ \E q \in QNames : CallTool(q)
    \/ ManagerStep
    \/ \E s \in Servers : Serve(s) \/ Junk(s) \/ Exit(s)

Spec == Init /\ [][Next]_vars

\* The runtime runs the operation, and its timers expire.  Nothing is assumed
\* of the processes.
FairSpec == Spec /\ WF_vars(ManagerStep)
-----------------------------------------------------------------------------
\* A process that is kept has nothing left of an earlier request, so a late
\* answer is never taken for the answer to a later request, nor makes that
\* request fail: whatever ended the earlier one, its process was replaced.
Unsettled(s) == Len(inbox[s]) + Cardinality(Lines(s, Replies))
CleanPipe ==
    \A s \in Servers : Unsettled(s) <= IF Here(s, "wait") THEN 1 ELSE 0

\* Why it holds: a request in hand is either unread or has its one answer.
OneInHand(s) ==
    \/ Len(inbox[s]) = 1 /\ Lines(s, Replies) = {}
    \/ Len(inbox[s]) = 0 /\ \A i, j \in Lines(s, Replies) : i = j
PipesSettled ==
    \A s \in Servers :
        IF Here(s, "wait") THEN OneInHand(s)
        ELSE Len(inbox[s]) = 0 /\ Lines(s, Replies) = {}

\* No process is sent a request before it has accepted an initialize, although
\* it may be another one than the manager initialized.
HandshakeFirst ==
    [][\A s \in Servers :
          Len(inbox'[s]) > Len(inbox[s]) /\ Last(inbox'[s]) = "request"
              => s \in greeted]_vars

\* Why: a live process was initialized only by its own answer to an initialize.
Handshaken ==
    \A s \in Servers :
        /\ init[s] /\ proc[s] = "alive" => s \in greeted
        /\ ~init[s] /\ proc[s] = "alive" /\ Lines(s, {"result"}) # {}
              => s \in greeted
        /\ ~init[s] /\ Len(inbox[s]) > 0 => Head(inbox[s]) = "initialize"

\* A tool is never called twice for one call, whatever is retried around it,
\* and the retries of an operation and of the initialize inside it multiply to
\* at most four processes for one server.
RetriesBounded ==
    /\ op = "call" => called <= 1
    /\ spawned <= IF op = "call" THEN 2 ELSE 4

\* Why: an attempt spawns once, between its check and its end; and the tool has
\* been called only if the one answer that ends the operation is awaited.
TriesCounted ==
    /\ spawned <= 2 * tries + initTries + IF phase = "check" THEN 0 ELSE 1
    /\ op = "call" => /\ tries = 0
                      /\ \/ called = 0
                         \/ called = 1 /\ phase = "wait" /\ init[Head(todo)]

\* No live process is lost, but for one that cannot be killed.
ProcessesReaped == orphans <= faults

\* Every route leads to a tool that its server listed the last time it was
\* discovered; a server that failed in a best-effort discovery has no routes.
RoutesCurrent ==
    \A q \in QNames : routes[q] # NoRoute =>
        /\ routes[q][2] \in reported[routes[q][1]]
        /\ Qualified[routes[q]] = q

ManagerInv ==
    /\ TypeOK /\ PipesSettled /\ Handshaken /\ TriesCounted
    /\ ProcessesReaped /\ RoutesCurrent

\* Every operation ends, whatever the processes do, if a server does not send
\* cursors for ever.
OperationsEnd == op # "idle" ~> op = "idle"
=============================================================================
