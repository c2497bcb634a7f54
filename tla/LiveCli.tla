-------------------------------- MODULE LiveCli --------------------------------
(***************************************************************************)
(* The interactive program of rust/crates/jasusi-core/src/main.rs: LiveCli *)
(* and the runtimes it builds.  Building a runtime starts the MCP servers  *)
(* and runs the init commands of the plugins, in order; giving one up      *)
(* stops the servers and runs the shutdown commands, in reverse.  A turn,  *)
(* and every command that changes the session, the model, the permissions  *)
(* or the plugins, builds a second runtime beside the one that is held,    *)
(* and puts it in its place.  An error of any command ends the program,    *)
(* which gives up what it has; a kill does not.  A session is its number   *)
(* and how many messages it has (the messages themselves, and what a       *)
(* failed append leaves, are in Conversation).                             *)
(***************************************************************************)
EXTENDS Naturals

CONSTANTS
    NPlugins,       \* enabled plugins, in the order of their ids
    MaxSessions,    \* bound: sessions that are begun
    MaxMessages,    \* bound: messages of a session
    MaxStarts       \* bound: starts of the program

LiveCliAssumption ==
    /\ NPlugins \in Nat \ {0} /\ MaxSessions \in Nat \ {0}
    /\ MaxMessages \in Nat /\ MaxStarts \in Nat \ {0}

Plugins == 1..NPlugins
Ids == 1..MaxSessions

\* A session in memory, and what a file holds: whose messages, and how many.
Nobody == [of |-> 0, n |-> 0]

Never == [p \in Plugins |-> 0]

\* A BuiltRuntime: its session and the path that this appends to, plugins_active
\* and mcp_active; and what was done to it: how often each plugin was shut down,
\* how often a shutdown of it failed, and how often the servers were told to stop.
NoRuntime ==
    [session |-> Nobody, path |-> 0, active |-> FALSE, mcp |-> FALSE,
     shut |-> Never, erred |-> Never, stops |-> 0]

Built(session, path) ==
    [NoRuntime EXCEPT !.session = session, !.path = path, !.active = TRUE, !.mcp = TRUE]

VARIABLES
    pc,         \* where the program is
    held,       \* self.runtime
    fresh,      \* the runtime a turn or a command has built
    handle,     \* self.session: the file that persist_session writes
    goal,       \* what handle is to be once fresh is held
    files,      \* the session files
    begun,      \* sessions begun
    said,       \* history: how many messages each session has
    gone,       \* history: the runtimes that the last step has dropped
    starts

cliVars == <<pc, held, fresh, handle, goal, files, begun, said, gone, starts>>

Init ==
    /\ pc = "down" /\ held = NoRuntime /\ fresh = NoRuntime
    /\ handle = 0 /\ goal = 0
    /\ files = [s \in Ids |-> Nobody] /\ begun = 0
    /\ said = [s \in Ids |-> 0]
    /\ gone = {} /\ starts = 0

-----------------------------------------------------------------------------
\* build_runtime: the plugins are listed, the servers started, the plugins
\* initialised; a failure on the way leaves what was started as it is.
Build(session, path, next) ==
    \/ fresh' = Built(session, path) /\ pc' = next
    \/ pc' = "closing" /\ UNCHANGED fresh

\* shutdown_plugins of r: in reverse order, up to the first that fails (k).
ShutPlugins(r) ==
    IF ~r.active THEN {r}
    ELSE {[r EXCEPT !.shut = [p \in Plugins |-> r.shut[p] + 1], !.active = FALSE]}
         \cup {[r EXCEPT !.shut = [p \in Plugins |-> r.shut[p] + IF p > k THEN 1 ELSE 0],
                         !.erred[k] = @ + 1] : k \in Plugins}

\* shutdown_mcp: the manager's shutdown may fail.
StopServers(r) ==
    IF ~r.mcp THEN {r} ELSE {[r EXCEPT !.stops = @ + 1, !.mcp = on] : on \in BOOLEAN}

Drop_OnlyServers(r) == StopServers(r)                          \* mutated

\* Drop: both, whose errors are ignored.
Drop(r) == UNION {ShutPlugins(s) : s \in StopServers(r)}

-----------------------------------------------------------------------------
\* LiveCli::new.  The session has a new number, and a handle of its own.
Start ==
    /\ pc = "down" /\ starts < MaxStarts /\ begun < MaxSessions
    /\ starts' = starts + 1 /\ begun' = begun + 1
    /\ handle' = begun' /\ goal' = begun'
    /\ Build([of |-> begun', n |-> 0], begun', "started")
    /\ UNCHANGED <<held, files, said>>

Started ==
    /\ pc = "started" /\ pc' = "save"
    /\ held' = fresh /\ fresh' = NoRuntime
    /\ UNCHANGED <<handle, goal, files, begun, said, starts>>

\* prepare_turn_runtime: a runtime for a copy of the session.
BeginTurn ==
    /\ pc = "prompt" /\ held.session.n < MaxMessages
    /\ goal' = handle
    /\ Build(held.session, held.path, "turn")
    /\ UNCHANGED <<held, handle, files, begun, said, starts>>

\* push_message of the copy: a line is appended to the file it persists to.
Say ==
    LET s == fresh.session
    IN  /\ pc = "turn" /\ s.n < MaxMessages
        /\ fresh' = [fresh EXCEPT !.session.n = @ + 1]
        /\ files' = [files EXCEPT ![fresh.path] =
                        IF @ = s THEN [s EXCEPT !.n = @ + 1] ELSE [of |-> 0, n |-> @.n + 1]]
        /\ said' = [said EXCEPT ![s.of] = s.n + 1]
        /\ UNCHANGED <<pc, held, handle, goal, begun, starts>>

EndTurn ==
    /\ pc = "turn" /\ pc' = "swap"
    /\ UNCHANGED <<held, fresh, handle, goal, files, begun, said, starts>>

\* The turn fails: its plugins are shut down before the error ends the program.
TurnFails ==
    /\ pc = "turn" /\ pc' = "closing"
    /\ fresh' \in ShutPlugins(fresh)
    /\ UNCHANGED <<held, handle, goal, files, begun, said, starts>>

\* /model, /permissions and the reload after /plugin keep the session; /compact
\* removes some of its messages.
Rebuild ==
    /\ pc = "prompt"
    /\ goal' = handle
    /\ \E n \in 0..held.session.n :
         Build([held.session EXCEPT !.n = n], held.path, "swap")
    /\ UNCHANGED <<held, handle, files, begun, said, starts>>

\* clear_session: the handle is changed before the runtime is built.
Clear ==
    /\ pc = "prompt" /\ begun < MaxSessions
    /\ begun' = begun + 1
    /\ handle' = begun' /\ goal' = begun'
    /\ Build([of |-> begun', n |-> 0], begun', "swap")
    /\ UNCHANGED <<held, files, said, starts>>

Fork_SharesPath ==                                             \* mutated
    /\ pc = "prompt" /\ begun < MaxSessions
    /\ begun' = begun + 1 /\ goal' = begun'
    /\ files' = [files EXCEPT ![begun'] = [held.session EXCEPT !.of = begun']]
    /\ said' = [said EXCEPT ![begun'] = held.session.n]
    /\ Build([held.session EXCEPT !.of = begun'], held.path, "swap")
    /\ UNCHANGED <<held, handle, starts>>

\* /session fork: the copy has a number and a file of its own, and is saved.
Fork ==
    /\ pc = "prompt" /\ begun < MaxSessions
    /\ begun' = begun + 1 /\ goal' = begun'
    /\ files' = [files EXCEPT ![begun'] = [held.session EXCEPT !.of = begun']]
    /\ said' = [said EXCEPT ![begun'] = held.session.n]
    /\ Build([held.session EXCEPT !.of = begun'], begun', "swap")
    /\ UNCHANGED <<held, handle, starts>>

\* /resume and /session switch load a session from its file.
Switch(s) ==
    /\ pc = "prompt" /\ files[s] # Nobody
    /\ goal' = s
    /\ Build(files[s], s, "swap")
    /\ UNCHANGED <<held, handle, files, begun, said, starts>>

\* replace_runtime, and the assignment of self.session after it.  The old
\* runtime is dropped when its plugins have been shut down.
Swap ==
    /\ pc = "swap"
    /\ \E old \in ShutPlugins(held) :
         IF old.active
           THEN /\ held' = old /\ gone' = {} /\ pc' = "closing"
                /\ UNCHANGED <<fresh, handle>>
           ELSE /\ held' = fresh /\ fresh' = NoRuntime
                /\ \E last \in Drop(old) : gone' = {last}
                /\ handle' = goal /\ pc' = "save"
    /\ UNCHANGED <<goal, files, begun, said, starts>>

Save(next) ==
    /\ files' = [files EXCEPT ![handle] = held.session]
    /\ said' = [said EXCEPT ![held.session.of] = held.session.n]
    /\ pc' = next
    /\ UNCHANGED <<held, fresh, handle, goal, begun, starts>>

\* persist_session, after every command that has replaced the runtime ...
Persist == pc = "save" /\ Save("prompt")

\* ... and before the program ends by itself.
Exit == pc = "prompt" /\ Save("closing")

\* A command that fails before it has done anything, a turn whose output cannot
\* be written, or a save that fails.
Fails ==
    /\ pc \in {"prompt", "turn", "save"} /\ pc' = "closing"
    /\ UNCHANGED <<held, fresh, handle, goal, files, begun, said, starts>>

\* What a command has built is dropped first, then what the program held.
Close ==
    /\ pc = "closing" /\ pc' = "down"
    /\ \E new \in Drop(fresh), old \in Drop(held) : gone' = {new, old} \ {NoRuntime}
    /\ held' = NoRuntime /\ fresh' = NoRuntime
    /\ UNCHANGED <<handle, goal, files, begun, said, starts>>

Killed ==
    /\ pc # "down" /\ pc' = "down"
    /\ held' = NoRuntime /\ fresh' = NoRuntime
    /\ UNCHANGED <<handle, goal, files, begun, said, starts>>

Next ==
    \/ /\ \/ Start \/ Started
          \/ BeginTurn \/ Say \/ EndTurn \/ TurnFails
          \/ Rebuild \/ Clear \/ Fork
          \/ \E s \in Ids : Switch(s)
          \/ Persist \/ Exit \/ Fails \/ Killed
       /\ gone' = {}
    \/ Swap \/ Close

Spec == Init /\ [][Next]_cliVars

-----------------------------------------------------------------------------
(***************************************************************************)
(* A runtime that is dropped, at a swap or as the program ends by itself,  *)
(* whatever errors led there, leaves nothing behind: its servers were told *)
(* to stop exactly once, and each plugin was shut down exactly once, but   *)
(* for failed shutdowns.  A plugin that was not shut down is one whose own *)
(* shutdown failed, or that of a plugin which is shut down before it; one  *)
(* that was shut down again is one after which another had failed.  (What  *)
(* a failed build started, and a killed program, are never dropped.)       *)
(***************************************************************************)
ShutOnce(r) ==
    \A p \in Plugins :
        /\ r.shut[p] = 0 => \E q \in Plugins : q >= p /\ r.erred[q] > 0
        /\ r.shut[p] > 1 => \E q \in Plugins : q < p /\ r.erred[q] > 0

RuntimesClosed == \A r \in gone : r.stops = 1 /\ ShutOnce(r)

(***************************************************************************)
(* A session's file holds that session's messages, all that it has, and    *)
(* none of another's, whatever turns, forks, switches, failures and kills  *)
(* have come between; and at the prompt the held session is the one of the *)
(* handle, and is on disk.                                                 *)
(***************************************************************************)
SessionFileOwned ==
    /\ \A s \in Ids : files[s] # Nobody => files[s] = [of |-> s, n |-> said[s]]
    /\ pc = "prompt" => /\ held.path = handle
                        /\ files[handle] = held.session

-----------------------------------------------------------------------------
\* Why the two hold in every step.  Types:
Session == [of : 0..MaxSessions, n : Nat]
Counts == [Plugins -> Nat]
Runtime == [session : Session, path : 0..MaxSessions, active : BOOLEAN, mcp : BOOLEAN,
            shut : Counts, erred : Counts, stops : Nat]
Stages == {"down", "started", "prompt", "turn", "swap", "save", "closing"}

CliTypes ==
    /\ pc \in Stages /\ held \in Runtime /\ fresh \in Runtime
    /\ handle \in 0..MaxSessions /\ goal \in 0..MaxSessions
    /\ files \in [Ids -> Session] /\ begun \in 0..MaxSessions
    /\ said \in [Ids -> Nat] /\ starts \in Nat

\* A plugin that was shut down by a shutdown that is not done is one after which
\* another failed.
Retried(r) ==
    \A p \in Plugins : r.shut[p] > 0 => \E q \in Plugins : q < p /\ r.erred[q] > 0

\* The servers of a runtime run until it is dropped.
Sound(r) ==
    \/ r = NoRuntime
    \/ r.mcp /\ r.stops = 0 /\ (IF r.active THEN Retried(r) ELSE ShutOnce(r))

\* A runtime's session is the one its path is of, which is that of number s.
RunsAs(r, s) == s \in Ids /\ r.path = s /\ r.session.of = s

\* Each file there is holds the session of its number, whole ...
FilesOwned == \A s \in Ids : files[s] # Nobody => files[s] = [of |-> s, n |-> said[s]]

\* ... and what the program is about to do with the files it holds is right.
AboutTo ==
    /\ pc = "started" => RunsAs(fresh, handle)
    /\ pc \in {"prompt", "save"} => RunsAs(held, handle)
    /\ pc = "prompt" => files[handle] = held.session
    /\ pc = "turn" => RunsAs(fresh, goal) /\ files[goal] = fresh.session
    /\ pc = "swap" => RunsAs(fresh, goal)
    /\ pc \in {"turn", "swap"} => held # NoRuntime

CliInv ==
    /\ CliTypes /\ Sound(held) /\ Sound(fresh) /\ RuntimesClosed
    /\ FilesOwned /\ AboutTo
=============================================================================
