------------------------------- MODULE AgentTools -------------------------------
(***************************************************************************)
(* The tools of an agent side by side: the loop that asks hooks, policy    *)
(* and user before it runs one (ToolHooks), and four kinds of tools that   *)
(* keep something from call to call: the worker registry, plan mode,       *)
(* agents in threads of their own, and patches (functions of the runtime   *)
(* library that no tool calls yet).  They share no state, so that          *)
(* interleaving them shows nothing that each does not show alone: a        *)
(* behaviour is one of one `family`.                                       *)
(***************************************************************************)
CONSTANTS
    Inputs, Settings, NoInput, MaxCalls,                    \* ToolHooks
    Prompts, NoPrompt, MaxAttempts,                         \* WorkerBoot
    Sessions, Modes, Others,                                \* PlanMode
    MaxFaults,                                              \* AgentJobs
    Calls, Processes, ProcessOf, NoFile, MaxFiles           \* TransactionalPatch

VARIABLES
    family,     \* bound: the part that this behaviour exercises
    setting, aborted, stage, at, child, held, says, given, merged, verdict,
    ran, calls, votes, approved, after,
    worker, strays,
    settings, state, step, tool, document, own, claimed, behind, spoiled,
    jobStep, turn, status, output, manifest, faults,
    target, staged, text, phase, open, base, shared

Hooks   == INSTANCE ToolHooks
Workers == INSTANCE WorkerBoot
Plan    == INSTANCE PlanMode
Jobs    == INSTANCE AgentJobs WITH step <- jobStep
Patches == INSTANCE TransactionalPatch

ASSUME AgentToolsAssumption ==
    /\ Hooks!ToolHooksAssumption /\ Workers!WorkerBootAssumption
    /\ Plan!PlanModeAssumption /\ Jobs!AgentJobsAssumption
    /\ Patches!TransactionalPatchAssumption

hookVars   == <<setting, aborted, stage, at, child, held, says, given, merged,
                verdict, ran, calls, votes, approved, after>>
workerVars == <<worker, strays>>
planVars   == <<settings, state, step, tool, document, own, claimed, behind, spoiled>>
agentVars  == <<jobStep, turn, status, output, manifest, faults>>
patchVars  == <<target, staged, text, phase, open, base, shared>>

vars == <<family, hookVars, workerVars, planVars, agentVars, patchVars>>

Init ==
    /\ family \in {"hooks", "workers", "plan", "jobs", "patches"}
    /\ Hooks!Init /\ Workers!Init /\ Plan!Init /\ Jobs!Init /\ Patches!Init

OnlyHooks   == Hooks!Next   /\ UNCHANGED <<workerVars, planVars, agentVars, patchVars>>
OnlyWorkers == Workers!Next /\ UNCHANGED <<hookVars, planVars, agentVars, patchVars>>
OnlyPlan    == Plan!Next    /\ UNCHANGED <<hookVars, workerVars, agentVars, patchVars>>
OnlyJobs    == Jobs!Next    /\ UNCHANGED <<hookVars, workerVars, planVars, patchVars>>
OnlyPatches == Patches!Next /\ UNCHANGED <<hookVars, workerVars, planVars, agentVars>>

Next ==
    /\ UNCHANGED family
    /\ \/ family = "hooks"   /\ OnlyHooks
       \/ family = "workers" /\ OnlyWorkers
       \/ family = "plan"    /\ OnlyPlan
       \/ family = "jobs"    /\ OnlyJobs
       \/ family = "patches" /\ OnlyPatches

Spec == Init /\ [][Next]_vars /\ (family = "hooks" => Hooks!Fairness)

-----------------------------------------------------------------------------
\* Hooks, policy and user clear exactly what is executed.
ClearedBeforeExecuted == Hooks!ClearedBeforeExecuted

\* A result that is no error means that the tool and all its hooks went well.
ResultHonest == Hooks!ResultHonest

\* Ctrl-C ends a hook that never exits, and lets at most one tool run.
InterruptEnds == Hooks!InterruptEnds

\* No prompt is in flight, or to be replayed, twice.
PromptAccounted == Workers!PromptAccounted

\* Plan mode gives every setting of the user back.
UserSettingsKept == Plan!UserSettingsKept

\* An agent's manifest and output agree on how it ended.
AgentRecordTrue == Jobs!AgentRecordTrue

\* A patched file changes from one whole text to another.
PatchIsAtomic == Patches!PatchIsAtomic
-----------------------------------------------------------------------------
\* What each part keeps, of which the properties are consequences.
AgentToolsInv ==
    /\ Hooks!HookInv /\ Hooks!AfterInv /\ Workers!WorkerInv /\ Plan!PlanInv
    /\ Jobs!JobInv /\ Patches!PatchInv
=============================================================================
