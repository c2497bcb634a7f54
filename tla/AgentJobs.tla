------------------------------- MODULE AgentJobs -------------------------------
(***************************************************************************)
(* A sub-agent of the Agent tool (rust/crates/tools/src/lib.rs): its       *)
(* output file and its manifest are written, a thread runs one turn of a   *)
(* conversation, and what came of it is appended to the output and put in  *)
(* the manifest.  Any write may fail, which leaves a part of it or none,   *)
(* the turn may fail or panic, and the program may end and take the thread *)
(* with it.  Agents have files of their own, so one stands for all.        *)
(***************************************************************************)
EXTENDS Naturals, Sequences

CONSTANT MaxFaults     \* bound: operations that fail

AgentJobsAssumption == MaxFaults \in Nat

VARIABLES
    step,       \* where the tool, and then the thread, is
    turn,       \* how the turn ended
    status,     \* the status that is being recorded
    output,     \* sections of the output file, "part" for a piece of one
    manifest,   \* status in the manifest, "torn" for a piece of it
    faults

agentVars == <<step, turn, status, output, manifest, faults>>

Settled == {"completed", "failed"}

Init ==
    /\ step = "create" /\ turn = "none" /\ status = "none"
    /\ output = << >> /\ manifest = "absent" /\ faults = 0

Fault == faults < MaxFaults /\ faults' = faults + 1

-----------------------------------------------------------------------------
\* execute_agent: the task is written, and a failure of it is the tool's error.
WriteTask ==
    /\ step = "create"
    /\ \/ output' = <<"task">> /\ step' = "register" /\ UNCHANGED faults
       \/ output' \in {<< >>, <<"part">>} /\ step' = "refused" /\ Fault
    /\ UNCHANGED <<turn, status, manifest>>

Register ==
    /\ step = "register"
    /\ \/ manifest' = "running" /\ step' = "spawn" /\ UNCHANGED faults
       \/ manifest' \in {"absent", "torn"} /\ step' = "refused" /\ Fault
    /\ UNCHANGED <<turn, status, output>>

\* A thread that cannot be started is recorded as a failure.
Spawn ==
    /\ step = "spawn"
    /\ \/ step' = "turn" /\ UNCHANGED <<status, faults>>
       \/ step' = "append" /\ status' = "failed" /\ Fault
    /\ UNCHANGED <<turn, output, manifest>>

\* run_agent_job: the turn, whose error or panic the thread records.
Turn(result) ==
    /\ step = "turn" /\ step' = "append"
    /\ turn' = result
    /\ status' = IF result = "ok" THEN "completed" ELSE "failed"
    /\ UNCHANGED <<output, manifest, faults>>

PersistFails_Ignored ==                                        \* mutated
    step' = "over" /\ UNCHANGED status

\* An error while "completed" is recorded is recorded as a failure of the
\* agent; an error while "failed" is recorded is ignored.
PersistFails ==
    IF status = "completed" THEN step' = "append" /\ status' = "failed"
                            ELSE step' = "over" /\ UNCHANGED status

\* persist_agent_terminal_state: first a section of the output,
AppendSection ==
    /\ step = "append"
    /\ \/ /\ output' = Append(output, status) /\ step' = "manifest"
          /\ UNCHANGED <<status, faults>>
       \/ /\ output' \in {output, Append(output, "part")}
          /\ PersistFails /\ Fault
    /\ UNCHANGED <<turn, manifest>>

\* and then the manifest, from the one that the tool wrote.
RewriteManifest ==
    /\ step = "manifest"
    /\ \/ manifest' = status /\ step' = "over" /\ UNCHANGED <<status, faults>>
       \/ manifest' \in {manifest, "torn"} /\ PersistFails /\ Fault
    /\ UNCHANGED <<turn, output>>

\* The program does not wait for its agents.
ProgramEnds ==
    /\ step \notin {"over", "refused", "gone"} /\ step' = "gone"
    /\ \/ UNCHANGED <<output, manifest>>
       \/ step = "append" /\ output' = Append(output, "part") /\ UNCHANGED manifest
       \/ step = "manifest" /\ manifest' = "torn" /\ UNCHANGED output
    /\ UNCHANGED <<turn, status, faults>>

Next ==
    \/ WriteTask \/ Register \/ Spawn \/ AppendSection \/ RewriteManifest
    \/ \E result \in {"ok", "error", "panic"} : Turn(result)
    \/ ProgramEnds

Spec == Init /\ [][Next]_agentVars
-----------------------------------------------------------------------------
\* The last whole section of the output.
LastWhole(section) ==
    \E n \in DOMAIN output :
        output[n] = section /\ \A m \in DOMAIN output : m > n => output[m] = "part"

\* The manifest and the last whole section of the output agree on how the
\* agent ended, and "completed" is never said of a turn that failed.  An agent
\* whose thread is over is settled, unless its program ended or recording its
\* failure failed: recording a success may fail once.
AgentRecordTrue ==
    /\ manifest \in Settled => LastWhole(manifest)
    /\ manifest = "completed" => turn = "ok"
    /\ step = "over" /\ manifest \notin Settled =>
          faults >= (IF turn = "ok" THEN 2 ELSE 1)
-----------------------------------------------------------------------------
(* Why AgentRecordTrue holds, by where the tool or its thread is.            *)
JobInv ==
    /\ output \in Seq(Settled \cup {"task", "part"}) /\ faults \in Nat
    /\ step \in {"create", "register", "spawn"} => status = "none" /\ turn = "none"
    /\ step \in {"create", "register", "spawn", "turn"} => manifest \notin Settled
    /\ status = "completed" => turn = "ok"
    /\ step \in {"append", "manifest"} => status \in Settled /\ manifest \notin Settled
    /\ step \in {"append", "manifest"} /\ turn = "ok" /\ status = "failed" => faults >= 1
    /\ step = "manifest" => LastWhole(status)
    /\ manifest \in Settled => LastWhole(manifest) /\ (manifest = "completed" => turn = "ok")
    /\ step = "over" /\ manifest \notin Settled =>
          faults >= (IF turn = "ok" THEN 2 ELSE 1)
=============================================================================
