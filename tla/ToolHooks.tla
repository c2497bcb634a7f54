------------------------------ MODULE ToolHooks ------------------------------
(***************************************************************************)
(* One tool call after another in a turn of                                *)
(* rust/crates/runtime/src/conversation.rs: the hooks of hooks.rs before   *)
(* it, the policy of permissions.rs, the user's prompt, the tool, and the  *)
(* hooks after it.                                                         *)
(*                                                                         *)
(* A hook is a process of its own: it is fed its payload, watched until it *)
(* exits, and its output is read until its pipes close, which a descendant *)
(* may put off.  Ctrl-C may come at any point of it and sets a flag that   *)
(* lasts for the turn.  A tool's input is a member of a small set; a hook  *)
(* says whether the call may go on, and may decide on the permission and   *)
(* replace the input.                                                      *)
(***************************************************************************)
EXTENDS Naturals, Sequences

CONSTANTS
    Inputs,      \* inputs of the tool
    Settings,    \* settings the session may have, of those in SettingType
    NoInput,     \* a hook that leaves the input alone
    MaxCalls     \* bound: tool calls in a turn

Overrides == {"none", "allow", "deny", "ask"}

\* Hooks of each event, the inputs each kind of rule matches, what is left of
\* the modes (the tool's requirement is met, may be asked for, or is refused),
\* and whether there is a prompter.
SettingType ==
    [pre : Nat, post : Nat, failure : Nat,
     deny : SUBSET Inputs, ask : SUBSET Inputs, allow : SUBSET Inputs,
     mode : {"met", "asks", "refused"}, prompter : BOOLEAN]

ToolHooksAssumption ==
    /\ Settings \subseteq SettingType
    /\ NoInput \notin Inputs
    /\ MaxCalls \in Nat

VARIABLES
    setting,     \* of the session; << >> before it starts
    aborted,     \* HookAbortSignal
    stage,       \* where the call is
    at,          \* the hook that is running
    child,       \* its process, as the runner sees it
    held,        \* whether a descendant keeps the hook's pipes open
    says,        \* what the hook says when it has exited
    given,       \* the input the model asked for
    merged,      \* override and updated input of the hooks so far
    verdict,     \* flags of the HookRunResult
    ran,         \* how the tool ended
    calls,
    votes,       \* history: what each hook of this call said
    approved,    \* history: inputs of this call the user has approved
    after        \* history: tools run since Ctrl-C

hookVars == <<setting, aborted, stage, at, child, held, says, given, merged,
              verdict, ran, calls, votes, approved, after>>

\* What a hook that does not allow the call says besides is not used.
Says ==
    {s \in [outcome : {"allow", "deny", "failed"}, override : Overrides,
            updated : Inputs \cup {NoInput}] :
        s.outcome = "allow" \/ (s.override = "none" /\ s.updated = NoInput)}
Nothing == [override |-> "none", updated |-> NoInput]
Silent == [outcome |-> "failed", override |-> "none", updated |-> NoInput]

Init ==
    /\ setting = << >> /\ aborted = FALSE
    /\ stage = "idle" /\ at = 0 /\ child = "none" /\ held = FALSE
    /\ says = Silent /\ given = NoInput /\ merged = Nothing
    /\ verdict = "clear" /\ ran = "no" /\ calls = 0
    /\ votes = << >> /\ approved = {} /\ after = 0

-----------------------------------------------------------------------------
Started == setting # << >>

\* Hooks of the event that the stage runs: PreToolUse, or PostToolUse of a
\* tool that succeeded, or PostToolUseFailure of one that did not.
Hooks ==
    CASE stage = "pre" -> setting.pre
      [] stage = "post" /\ ran = "ok" -> setting.post
      [] OTHER -> setting.failure

Effective == IF merged.updated = NoInput THEN given ELSE merged.updated

BeginSession(s) ==
    /\ ~Started /\ setting' = s
    /\ UNCHANGED <<aborted, stage, at, child, held, says, given, merged,
                   verdict, ran, calls, votes, approved, after>>

\* HookAbortMonitor: Ctrl-C.
Interrupt ==
    /\ Started /\ ~aborted /\ aborted' = TRUE
    /\ UNCHANGED <<setting, stage, at, child, held, says, given, merged,
                   verdict, ran, calls, votes, approved, after>>

BeginCall(i) ==
    /\ Started /\ stage = "idle" /\ calls < MaxCalls
    /\ calls' = calls + 1 /\ given' = i
    /\ stage' = "pre"
    /\ UNCHANGED <<setting, aborted, at, child, held, says, merged, verdict,
                   ran, votes, approved, after>>

\* The hooks of an event are over: the policy is next, or the answer.
Leave == stage' = IF stage = "pre" THEN "judge" ELSE "answer"

\* run_commands: without hooks the event allows, even after Ctrl-C.
BeginHooks ==
    /\ stage \in {"pre", "post"} /\ at = 0
    /\ CASE Hooks = 0 -> Leave /\ UNCHANGED <<at, verdict, votes>>
         [] Hooks > 0 /\ aborted ->
               Leave /\ verdict' = "cancelled" /\ UNCHANGED <<at, votes>>
         [] OTHER -> at' = 1 /\ UNCHANGED <<stage, verdict, votes>>
    /\ UNCHANGED <<setting, aborted, child, held, says, given, merged, ran,
                   calls, approved, after>>

Spawn ==
    /\ at > 0 /\ child = "none"
    /\ child' = "writing" /\ held' \in BOOLEAN
    /\ UNCHANGED <<setting, aborted, stage, at, says, given, merged, verdict,
                   ran, calls, votes, approved, after>>

\* The payload fits the pipe, or the hook reads it.
Fed ==
    /\ child = "writing" /\ child' = "running"
    /\ UNCHANGED <<setting, aborted, stage, at, held, says, given, merged,
                   verdict, ran, calls, votes, approved, after>>

\* The hook exits by itself: 0 allows unless its output denies, 2 denies, any
\* other code and a signal fail.
HookExits(s) ==
    /\ child = "running"
    /\ child' = "exited" /\ says' = s
    /\ UNCHANGED <<setting, aborted, stage, at, held, given, merged, verdict,
                   ran, calls, votes, approved, after>>

Poll_ExitFirst ==                                              \* mutated
    /\ child = "exited" /\ child' = IF aborted THEN "killed" ELSE "reaped"
    /\ UNCHANGED <<setting, aborted, stage, at, held, says, given, merged,
                   verdict, ran, calls, votes, approved, after>>

\* A look at the hook, every 20 ms: the flag comes first.
Poll ==
    /\ \/ aborted /\ child \in {"running", "exited"} /\ child' = "killed"
       \/ ~aborted /\ child = "exited" /\ child' = "reaped"
    /\ UNCHANGED <<setting, aborted, stage, at, held, says, given, merged,
                   verdict, ran, calls, votes, approved, after>>

PipesClose ==
    /\ child \in {"killed", "reaped"} /\ held /\ held' = FALSE
    /\ UNCHANGED <<setting, aborted, stage, at, child, says, given, merged,
                   verdict, ran, calls, votes, approved, after>>

Merge_FirstWins(s) ==                                          \* mutated
    [override |-> IF merged.override = "none" THEN s.override ELSE merged.override,
     updated |-> IF merged.updated = NoInput THEN s.updated ELSE merged.updated]

\* merge_parsed_hook_output: what a later hook says replaces what an earlier
\* one said.
Merge(s) ==
    [override |-> IF s.override = "none" THEN merged.override ELSE s.override,
     updated |-> IF s.updated = NoInput THEN merged.updated ELSE s.updated]

\* The outcome of one hook; the first that does not allow ends the event.
Conclude(outcome, s) ==
    /\ child' = "none" /\ held' = FALSE /\ says' = Silent
    /\ votes' = Append(votes, [event |-> stage, said |-> s])
    /\ merged' = IF stage = "pre" /\ outcome # "cancelled" THEN Merge(s) ELSE merged
    /\ IF outcome = "allow" /\ at < Hooks
         THEN at' = at + 1 /\ UNCHANGED <<stage, verdict>>
         ELSE /\ at' = 0 /\ Leave
              /\ verdict' = IF outcome = "allow" THEN "clear" ELSE outcome
    /\ UNCHANGED <<setting, aborted, given, ran, calls, approved, after>>

\* The hook cannot be started or fed; its process, if any, is left to itself.
HookFails == child = "writing" /\ Conclude("failed", Silent)

Collect_Optimist ==                                            \* mutated
    /\ child \in {"killed", "reaped"} /\ ~held
    /\ Conclude(IF says.outcome = "failed" THEN "allow" ELSE says.outcome, says)

\* wait_with_output: its pipes have closed.
Collect ==
    /\ child \in {"killed", "reaped"} /\ ~held
    /\ IF child = "killed" THEN Conclude("cancelled", Silent)
                           ELSE Conclude(says.outcome, says)

-----------------------------------------------------------------------------
\* authorize_with_context: "allow", "deny", or "prompt" (prompt_or_deny).
Decision(s, i, override) ==
    CASE i \in s.deny -> "deny"
      [] i \notin s.deny /\ override = "deny" -> "deny"
      [] i \notin s.deny /\ override = "ask" -> "prompt"
      [] i \notin s.deny /\ override \in {"none", "allow"} ->
            CASE i \in s.ask -> "prompt"
              [] i \notin s.ask /\ (i \in s.allow \/ s.mode = "met") -> "allow"
              [] OTHER -> IF s.mode = "asks" THEN "prompt" ELSE "deny"

Judge_Given ==                                                 \* mutated
    /\ stage = "judge"
    /\ LET d == IF verdict = "clear"
                  THEN Decision(setting, given, merged.override) ELSE "deny"
       IN  stage' = CASE d = "allow" -> "run"
                      [] d = "prompt" /\ setting.prompter -> "prompt"
                      [] OTHER -> "answer"
    /\ UNCHANGED <<setting, aborted, at, child, held, says, given, merged,
                   verdict, ran, calls, votes, approved, after>>

\* A hook that did not allow the call denies it; else the policy judges the
\* input that will be run.
Judge ==
    /\ stage = "judge"
    /\ LET d == IF verdict = "clear"
                  THEN Decision(setting, Effective, merged.override) ELSE "deny"
       IN  stage' = CASE d = "allow" -> "run"
                      [] d = "prompt" /\ setting.prompter -> "prompt"
                      [] OTHER -> "answer"
    /\ UNCHANGED <<setting, aborted, at, child, held, says, given, merged,
                   verdict, ran, calls, votes, approved, after>>

\* CliPermissionPrompter: anything but a yes denies.
Prompt ==
    /\ stage = "prompt"
    /\ \/ stage' = "run" /\ approved' = approved \cup {Effective}
       \/ stage' = "answer" /\ UNCHANGED approved
    /\ UNCHANGED <<setting, aborted, at, child, held, says, given, merged,
                   verdict, ran, calls, votes, after>>

\* ToolExecutor::execute, on the effective input.
Run ==
    /\ stage = "run"
    /\ ran' \in {"ok", "error"} /\ stage' = "post"
    /\ after' = IF aborted THEN after + 1 ELSE after
    /\ UNCHANGED <<setting, aborted, at, child, held, says, given, merged,
                   verdict, calls, votes, approved>>

IsError_ToolsOnly == ran # "ok"                                \* mutated

\* is_error of the tool's result.
IsError == ran # "ok" \/ verdict # "clear"

Answer_NewSignal ==                                            \* mutated
    /\ stage = "answer" /\ stage' = "idle"
    /\ given' = NoInput /\ merged' = Nothing /\ verdict' = "clear" /\ ran' = "no"
    /\ votes' = << >> /\ approved' = {} /\ aborted' = FALSE
    /\ UNCHANGED <<setting, at, child, held, says, calls, after>>

\* The result is pushed and the next tool of the answer is next; after the
\* turn, the monitor is stopped and the next turn has a flag of its own.
Answer ==
    /\ stage = "answer" /\ stage' = "idle"
    /\ given' = NoInput /\ merged' = Nothing /\ verdict' = "clear" /\ ran' = "no"
    /\ votes' = << >> /\ approved' = {}
    /\ UNCHANGED <<setting, aborted, at, child, held, says, calls, after>>

Next ==
    \/ \E s \in Settings : BeginSession(s)
    \/ \E i \in Inputs : BeginCall(i)
    \/ \E s \in Says : HookExits(s)
    \/ Interrupt \/ BeginHooks \/ Spawn \/ Fed \/ Poll \/ PipesClose
    \/ HookFails \/ Collect \/ Judge \/ Prompt \/ Run \/ Answer

\* The runner goes on by itself; a hook owes nothing, nor does the user.
Fairness == WF_hookVars(Spawn \/ Poll \/ Collect \/ BeginHooks)

Spec == Init /\ [][Next]_hookVars /\ Fairness
-----------------------------------------------------------------------------
Votes(event) == {n \in DOMAIN votes : votes[n].event = event}

\* The last thing any hook before the tool said of a matter, unless none did.
LastSaid(field, none) ==
    LET some == {n \in Votes("pre") : votes[n].said[field] # none}
    IN  IF some = {} THEN none
        ELSE votes[CHOOSE n \in some : \A m \in some : m <= n].said[field]

\* A tool runs only when every hook before it has allowed the call, on the
\* input the last hook asked for, which no deny rule matches; and where the
\* last permission decision or an ask rule wants the user, or nothing grants
\* the input, the user has approved this very input.  The policy is asked only
\* once all the hooks are done, so that none of them can replace what it judged.
ClearedBeforeExecuted ==
    stage = "run" \/ ran # "no" =>
        LET i == IF LastSaid("updated", NoInput) = NoInput
                   THEN given ELSE LastSaid("updated", NoInput)
            override == LastSaid("override", "none")
        IN  /\ Effective = i
            /\ Votes("pre") = 1..setting.pre
            /\ \A n \in Votes("pre") : votes[n].said.outcome = "allow"
            /\ i \notin setting.deny /\ override # "deny"
            /\ i \in setting.ask \/ override = "ask"
                  \/ (i \notin setting.allow /\ setting.mode # "met") => i \in approved

\* A result that is no error means that the tool ran and succeeded, and that
\* every hook after it ran to its end and allowed it: what was refused, failed,
\* objected to, could not be started or was cut off by Ctrl-C is an error.
ResultHonest ==
    stage = "answer" /\ ~IsError =>
        /\ ran = "ok"
        /\ Votes("post") = (setting.pre + 1)..(setting.pre + setting.post)
        /\ \A n \in Votes("post") : votes[n].said.outcome = "allow"

OneAfterInterrupt == Started /\ setting.pre > 0 => after <= 1

\* After Ctrl-C at most the tool that was already cleared is still run, if
\* tools have hooks: the flag outlives the call it came in.  And Ctrl-C ends a
\* hook, whether or not it would ever exit, unless it neither reads its payload
\* nor exits, or a descendant keeps its pipes open.
InterruptEnds ==
    /\ []OneAfterInterrupt
    /\ aborted /\ at > 0 ~> at = 0 \/ child = "writing" \/ held
-----------------------------------------------------------------------------
(* Why ClearedBeforeExecuted and ResultHonest hold: what the hooks have said *)
(* is what the call remembers of it.                                         *)

CallTypes ==
    /\ setting \in Settings \cup {<< >>} /\ (~Started => stage = "idle")
    /\ stage \in {"idle", "pre", "judge", "prompt", "run", "post", "answer"}
    /\ at \in Nat
    /\ says \in Says /\ merged.override \in Overrides
    /\ votes \in Seq([event : {"pre", "post"}, said : Says])

\* A tool has run only after its run stage, and hooks run only in theirs, while
\* none has objected.
Staged ==
    /\ ran # "no" => stage \in {"post", "answer"}
    /\ stage = "post" => ran \in {"ok", "error"}
    /\ stage \in {"pre", "prompt", "run", "post"} => verdict = "clear"
    /\ at > 0 => stage \in {"pre", "post"} /\ at <= Hooks
    /\ child # "none" => at > 0
    /\ stage = "idle" => votes = << >> /\ merged = Nothing /\ verdict = "clear"

\* The hooks that have had their say in a call that none has stopped.
Spoken ==
    CASE stage = "idle" -> 0
      [] stage = "pre" -> IF at = 0 THEN 0 ELSE at - 1
      [] stage = "post" -> setting.pre + (IF at = 0 THEN 0 ELSE at - 1)
      [] stage = "answer" /\ ran = "ok" -> setting.pre + setting.post
      [] OTHER -> setting.pre

VotesKept ==
    /\ \A n \in DOMAIN votes : votes[n].event = IF n <= setting.pre THEN "pre" ELSE "post"
    /\ verdict = "clear" => \A n \in DOMAIN votes : votes[n].said.outcome = "allow"
    /\ verdict = "clear" /\ ran # "error" => Len(votes) = Spoken
    /\ ran # "no" =>
          /\ Len(votes) >= setting.pre
          /\ \A n \in 1..setting.pre : votes[n].said.outcome = "allow"

\* `merged` holds what the last hook before the tool that said anything said.
Heard(field, none) ==
    LET some == {n \in Votes("pre") : votes[n].said[field] # none}
    IN  \/ some = {} /\ merged[field] = none
        \/ \E n \in some : /\ \A m \in some : m <= n
                           /\ votes[n].said[field] = merged[field]

\* The input that will be run is the one that was judged.
Judged ==
    LET override == merged.override
    IN  stage \in {"prompt", "run"} \/ ran # "no" =>
            /\ Effective \notin setting.deny /\ override # "deny"
            /\ \/ stage = "prompt"
               \/ Effective \in approved
               \/ /\ Effective \notin setting.ask /\ override # "ask"
                  /\ Effective \in setting.allow \/ setting.mode = "met"

HookInv ==
    /\ CallTypes /\ Staged
    /\ Started => VotesKept
    /\ Heard("override", "none") /\ Heard("updated", NoInput)
    /\ Judged

\* Why OneAfterInterrupt holds: no call comes past its hooks after Ctrl-C.
AfterInv ==
    /\ ~Started => after = 0
    /\ Started /\ setting.pre > 0 =>
          \/ after = 0
          \/ /\ after = 1 /\ aborted
             /\ \/ stage \in {"idle", "post", "answer"}
                \/ stage = "pre" /\ at = 0
                \/ stage = "judge" /\ verdict # "clear"
=============================================================================
