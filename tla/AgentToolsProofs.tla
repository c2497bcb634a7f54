---------------------------- MODULE AgentToolsProofs ----------------------------
(***************************************************************************)
(* What the tools of an agent promise, for every value of the constants.   *)
(* Each part has an invariant of its own, and the steps of the others      *)
(* leave its variables alone (NextParts).                                  *)
(***************************************************************************)
EXTENDS AgentTools, Naturals, Sequences, SequenceTheorems, TLAPS

LEMMA NextParts ==
  ASSUME [Next]_vars
  PROVE  /\ Hooks!Next \/ UNCHANGED hookVars
         /\ Workers!Next \/ UNCHANGED workerVars
         /\ Plan!Next \/ UNCHANGED planVars
         /\ Jobs!Next \/ UNCHANGED agentVars
         /\ Patches!Next \/ UNCHANGED patchVars
  BY DEF Next, OnlyHooks, OnlyWorkers, OnlyPlan, OnlyJobs, OnlyPatches, vars

-----------------------------------------------------------------------------
(* The worker registry.                                                      *)

LEMMA WorkersInit == Init => Workers!WorkerInv
  BY DEF Init, Workers!Init, Workers!WorkerInv, Workers!Exists, Workers!PromptAccounted

LEMMA WorkersNext ==
  ASSUME AgentToolsAssumption, Workers!WorkerInv, [Next]_vars
  PROVE  Workers!WorkerInv'
  <1> USE DEF Workers!Exists
  <1>1. CASE UNCHANGED workerVars
    BY <1>1 DEF workerVars, Workers!WorkerInv, Workers!PromptAccounted
  <1> DEFINE Good(w, n) ==
        /\ w \in Workers!Worker /\ n \in Nat
        /\ w.prompt_in_flight =>
              w.status \in {"running", "trust_required", "spawning"}
        /\ w.replay_prompt # NoPrompt =>
              ~w.prompt_in_flight /\ w.replay_prompt = w.last_prompt
        /\ n + (IF w.prompt_in_flight THEN 1 ELSE 0) <= w.prompt_delivery_attempts
  <1>2. /\ Workers!Exists => Good(worker, strays)
        /\ Good(worker', strays') => Workers!WorkerInv'
        /\ strays \in Nat
        /\ MaxAttempts \in Nat
    BY DEF Workers!WorkerInv, Workers!PromptAccounted, AgentToolsAssumption,
           Workers!WorkerBootAssumption
  <1>3. CASE Workers!Next
    <2>1. ASSUME NEW auto \in BOOLEAN, NEW recover \in BOOLEAN, Workers!Create(auto, recover)
          PROVE  Good(worker', strays')
      BY <1>2, <2>1 DEF Workers!Create, Workers!Worker
    <2>2. ASSUME NEW s \in Workers!Screen, Workers!Observe(s)
          PROVE  Good(worker', strays')
      <3>1. Workers!Exists /\ Good(worker, strays)
        BY <1>2, <2>2 DEF Workers!Observe
      <3>2. Good(Workers!Gate(worker, s), strays)
        BY <3>1 DEF Workers!Gate, Workers!Worker
      <3>3. ASSUME NEW w, Good(w, strays), Workers!Stray(w, s)
            PROVE  Good(Workers!Recover(w), strays + 1)
        <4> DEFINE r == Workers!Recover(w)
        <4>1. r \in Workers!Worker
          BY <3>3 DEF Workers!Recover, Workers!Worker
        <4>2. /\ ~r.prompt_in_flight /\ w.prompt_in_flight
              /\ r.prompt_delivery_attempts = w.prompt_delivery_attempts
              /\ r.last_prompt = w.last_prompt
              /\ r.replay_prompt \in {w.last_prompt, w.replay_prompt}
          BY <3>3 DEF Workers!Stray, Workers!Recover, Workers!Worker
        <4>3. w.prompt_delivery_attempts \in Nat /\ strays + 1 \in Nat
          BY <3>3 DEF Workers!Worker
        <4> HIDE DEF r
        <4>4. strays + 1 <= r.prompt_delivery_attempts
          BY <3>3, <4>2, <4>3
        <4> QED
          BY <3>3, <4>1, <4>2, <4>3, <4>4 DEF r
      <3>4. ASSUME NEW w, Good(w, strays)
            PROVE  Good(Workers!SeeRunning(w, s), strays)
        <4> DEFINE r == Workers!SeeRunning(w, s)
        <4>1. r \in Workers!Worker
          BY <3>4 DEF Workers!SeeRunning, Workers!SeeReady, Workers!Worker
        <4>2. \/ r = w
              \/ /\ ~r.prompt_in_flight
                 /\ r.prompt_delivery_attempts = w.prompt_delivery_attempts
                 /\ r.last_prompt = w.last_prompt
                 /\ r.replay_prompt = w.replay_prompt
          BY <3>4 DEF Workers!SeeRunning, Workers!SeeReady, Workers!Worker
        <4>3. w.prompt_delivery_attempts \in Nat /\ strays <= w.prompt_delivery_attempts
          BY <3>4, <1>2 DEF Workers!Worker
        <4> HIDE DEF r
        <4> QED
          BY <3>4, <4>1, <4>2, <4>3 DEF r
      <3>5. ASSUME NEW w, Good(w, strays)
            PROVE  Good(Workers!SeeReady(w, s), strays)
        <4> DEFINE r == Workers!SeeReady(w, s)
        <4>1. r \in Workers!Worker
          BY <3>5 DEF Workers!SeeRunning, Workers!SeeReady, Workers!Worker
        <4>2. \/ r = w
              \/ /\ ~r.prompt_in_flight
                 /\ r.prompt_delivery_attempts = w.prompt_delivery_attempts
                 /\ r.last_prompt = w.last_prompt
                 /\ r.replay_prompt = w.replay_prompt
          BY <3>5 DEF Workers!SeeRunning, Workers!SeeReady, Workers!Worker
        <4>3. w.prompt_delivery_attempts \in Nat /\ strays <= w.prompt_delivery_attempts
          BY <3>5, <1>2 DEF Workers!Worker
        <4> HIDE DEF r
        <4> QED
          BY <3>5, <4>1, <4>2, <4>3 DEF r
      <3> DEFINE gated == Workers!Gate(worker, s)
                 blocked == Workers!AtTrustGate(worker, s) /\ ~worker.trust_auto_resolve
      <3> HIDE DEF Good
      <3>6. CASE blocked
        <4>1. worker' = gated /\ strays' = strays
          BY <2>2, <3>6 DEF Workers!Observe
        <4> QED
          BY <3>2, <4>1
      <3>7. CASE ~blocked /\ Workers!Stray(gated, s)
        <4>1. worker' = Workers!Recover(gated) /\ strays' = strays + 1
          BY <2>2, <3>7 DEF Workers!Observe
        <4> QED
          BY <3>2, <3>3, <3>7, <4>1
      <3>8. CASE ~blocked /\ ~Workers!Stray(gated, s)
        <4>1. /\ worker' = Workers!SeeReady(Workers!SeeRunning(gated, s), s)
              /\ strays' = strays
          BY <2>2, <3>8 DEF Workers!Observe
        <4> QED
          BY <3>2, <3>4, <3>5, <4>1
      <3> QED
        BY <3>6, <3>7, <3>8
    <2>3. ASSUME NEW p \in Prompts \cup {NoPrompt}, Workers!SendPrompt(p)
          PROVE  Good(worker', strays')
      <3>1. Good(worker, strays)
        BY <1>2, <2>3 DEF Workers!SendPrompt
      <3>2. PICK next \in Prompts :
              /\ worker.status = "ready_for_prompt"
              /\ worker.prompt_delivery_attempts < MaxAttempts
              /\ worker' = [worker EXCEPT !.prompt_delivery_attempts = @ + 1,
                                !.prompt_in_flight = TRUE, !.last_prompt = next,
                                !.replay_prompt = NoPrompt,
                                !.last_error = "none", !.status = "running"]
              /\ strays' = strays
        BY <2>3, <3>1 DEF Workers!SendPrompt, Workers!Worker
      <3>3. /\ worker.prompt_delivery_attempts \in 0..MaxAttempts
            /\ worker.prompt_delivery_attempts + 1 \in 0..MaxAttempts
            /\ ~worker.prompt_in_flight
        BY <1>2, <3>1, <3>2 DEF Workers!Worker
      <3>4. worker' \in Workers!Worker
        BY <3>1, <3>2, <3>3 DEF Workers!Worker
      <3>5. /\ worker'.prompt_in_flight = TRUE /\ worker'.status = "running"
            /\ worker'.replay_prompt = NoPrompt
            /\ worker'.prompt_delivery_attempts = worker.prompt_delivery_attempts + 1
        BY <3>1, <3>2 DEF Workers!Worker
      <3> QED
        BY <1>2, <3>1, <3>2, <3>3, <3>4, <3>5
    <2>4. ASSUME NEW failure \in BOOLEAN, Workers!ObserveCompletion(failure)
          PROVE  Good(worker', strays')
      <3>1. Good(worker, strays) /\ strays' = strays
        BY <1>2, <2>4 DEF Workers!ObserveCompletion
      <3>2. worker' \in Workers!Worker
        BY <2>4, <3>1 DEF Workers!ObserveCompletion, Workers!Worker
      <3>3. /\ ~worker'.prompt_in_flight
            /\ worker'.prompt_delivery_attempts = worker.prompt_delivery_attempts
            /\ worker'.last_prompt = worker.last_prompt
            /\ worker'.replay_prompt = worker.replay_prompt
        BY <2>4, <3>1 DEF Workers!ObserveCompletion, Workers!Worker
      <3>4. /\ worker.prompt_delivery_attempts \in Nat
            /\ strays <= worker.prompt_delivery_attempts
        BY <1>2, <3>1 DEF Workers!Worker
      <3> QED
        BY <3>1, <3>2, <3>3, <3>4
    <2>5. CASE Workers!ResolveTrust
      <3>1. Good(worker', strays')
        BY <1>2, <2>5 DEF Workers!ResolveTrust, Workers!Worker
      <3> QED
        BY <1>2, <3>1
    <2>6. CASE Workers!Restart
      <3>1. Good(worker', strays')
        <4>1. Good(worker, strays) /\ strays' = 0
          BY <1>2, <2>6 DEF Workers!Restart
        <4>2. worker' \in Workers!Worker
          <5>1. worker \in Workers!Worker /\ 0 \in 0..MaxAttempts
            BY <1>2, <4>1
          <5> HIDE DEF Good
          <5> QED
            BY <2>6, <5>1 DEF Workers!Restart, Workers!Worker
        <4>3. /\ ~worker'.prompt_in_flight /\ worker'.replay_prompt = NoPrompt
              /\ worker'.prompt_delivery_attempts = 0
          BY <2>6, <4>1 DEF Workers!Restart, Workers!Worker
        <4> QED
          BY <4>1, <4>2, <4>3
      <3> QED
        BY <1>2, <3>1
    <2>7. CASE Workers!Terminate
      <3>1. Good(worker', strays')
        <4>1. Good(worker, strays) /\ strays' = strays
          BY <1>2, <2>7 DEF Workers!Terminate
        <4>2. worker' \in Workers!Worker
          BY <2>7, <4>1 DEF Workers!Terminate, Workers!Worker
        <4>3. /\ ~worker'.prompt_in_flight
              /\ worker'.prompt_delivery_attempts = worker.prompt_delivery_attempts
              /\ worker'.last_prompt = worker.last_prompt
              /\ worker'.replay_prompt = worker.replay_prompt
          BY <2>7, <4>1 DEF Workers!Terminate, Workers!Worker
        <4>4. /\ worker.prompt_delivery_attempts \in Nat
              /\ strays <= worker.prompt_delivery_attempts
          BY <1>2, <4>1 DEF Workers!Worker
        <4> QED
          BY <4>1, <4>2, <4>3, <4>4
      <3> QED
        BY <1>2, <3>1
    <2>8. CASE Workers!ProcessEnds
      BY <2>8 DEF Workers!ProcessEnds, Workers!WorkerInv, Workers!PromptAccounted
    <2> HIDE DEF Good
    <2> QED
      BY <1>2, <1>3, <2>1, <2>2, <2>3, <2>4, <2>5, <2>6, <2>7, <2>8 DEF Workers!Next
  <1> QED
    BY <1>1, <1>3, NextParts

(* worker_boot.rs: whatever the screens show, a prompt is in flight or to be *)
(* replayed at most once.                                                    *)
THEOREM PromptsAccounted == Spec => []PromptAccounted
  <1>1. Workers!WorkerInv => PromptAccounted
    BY DEF Workers!WorkerInv, PromptAccounted
  <1> QED
    BY <1>1, WorkersInit, WorkersNext, AgentToolsAssumption, PTL DEF Spec

-----------------------------------------------------------------------------
(* Agents.                                                                   *)

LEMMA JobsInit == Init => Jobs!JobInv
  BY EmptySeq, AgentToolsAssumption
     DEF Init, Jobs!Init, Jobs!JobInv, Jobs!Settled

Section == {"completed", "failed", "task", "part"}

LEMMA Sections ==
  ASSUME output \in Seq(Section), NEW s \in Section, output' = Append(output, s)
  PROVE  output' \in Seq(Section) /\ Jobs!LastWhole(s)'
  <1>1. /\ output' \in Seq(Section) /\ Len(output') = Len(output) + 1
        /\ Len(output) \in Nat /\ output'[Len(output) + 1] = s
        /\ DOMAIN output' = 1..Len(output')
    BY AppendProperties
  <1>2. Len(output) + 1 \in DOMAIN output'
    BY <1>1
  <1>3. \A m \in DOMAIN output' : ~(m > Len(output) + 1)
    BY <1>1
  <1> QED
    BY <1>1, <1>2, <1>3 DEF Jobs!LastWhole

LEMMA JobsNext ==
  ASSUME AgentToolsAssumption, Jobs!JobInv, [Next]_vars
  PROVE  Jobs!JobInv'
  <1> USE DEF Jobs!JobInv, Jobs!Settled
  <1>1. CASE UNCHANGED agentVars
    BY <1>1 DEF agentVars, Jobs!LastWhole
  <1>2. output \in Seq(Section) /\ faults \in Nat
    BY DEF Section
  <1>3. ASSUME NEW s \in Section, output' = Append(output, s)
        PROVE  /\ output' \in Seq(Jobs!Settled \cup {"task", "part"})
               /\ Jobs!LastWhole(s)'
    BY <1>2, <1>3, Sections DEF Section
  <1>4. /\ << >> \in Seq(Section) /\ <<"task">> \in Seq(Section)
        /\ <<"part">> \in Seq(Section)
    BY DEF Section
  <1>5. Jobs!Fault => faults' \in Nat /\ faults' = faults + 1
    BY <1>2 DEF Jobs!Fault
  <1>6. CASE Jobs!WriteTask
    BY <1>4, <1>5, <1>6 DEF Jobs!WriteTask, Section
  <1>7. CASE Jobs!Register
    BY <1>5, <1>7 DEF Jobs!Register
  <1>8. CASE Jobs!Spawn
    BY <1>5, <1>8 DEF Jobs!Spawn
  <1>9. ASSUME NEW result \in {"ok", "error", "panic"}, Jobs!Turn(result)
        PROVE  Jobs!JobInv'
    BY <1>9 DEF Jobs!Turn
  <1>10. CASE Jobs!AppendSection
    <2>1. /\ jobStep = "append" /\ status \in {"completed", "failed"}
          /\ manifest \notin {"completed", "failed"} /\ manifest' = manifest
          /\ turn' = turn
      BY <1>10 DEF Jobs!AppendSection
    <2>2. CASE /\ output' = Append(output, status) /\ jobStep' = "manifest"
               /\ UNCHANGED <<status, faults>>
      BY <1>3, <2>1, <2>2 DEF Section
    <2>3. CASE /\ output' \in {output, Append(output, "part")}
               /\ Jobs!PersistFails /\ Jobs!Fault
      <3>1. output' \in Seq(Jobs!Settled \cup {"task", "part"})
        BY <1>2, <1>3, <2>3 DEF Section
      <3> QED
        BY <1>5, <2>1, <2>3, <3>1 DEF Jobs!PersistFails
    <2> QED
      BY <1>10, <2>2, <2>3 DEF Jobs!AppendSection
  <1>11. CASE Jobs!RewriteManifest
    <2>1. Jobs!LastWhole(status) /\ output' = output /\ status \in {"completed", "failed"}
      BY <1>11 DEF Jobs!RewriteManifest
    <2>2. CASE manifest' = status /\ jobStep' = "over" /\ UNCHANGED <<status, faults>>
      <3>1. Jobs!LastWhole(manifest)'
        BY <2>1, <2>2 DEF Jobs!LastWhole
      <3> QED
        BY <1>11, <2>1, <2>2, <3>1 DEF Jobs!RewriteManifest
    <2>3. CASE manifest' \in {manifest, "torn"} /\ Jobs!PersistFails /\ Jobs!Fault
      BY <1>5, <1>11, <2>1, <2>3 DEF Jobs!RewriteManifest, Jobs!PersistFails
    <2> QED
      BY <1>11, <2>2, <2>3 DEF Jobs!RewriteManifest
  <1>12. CASE Jobs!ProgramEnds
    <2>1. output' \in Seq(Jobs!Settled \cup {"task", "part"})
      BY <1>2, <1>3, <1>12 DEF Jobs!ProgramEnds, Section
    <2>2. output' = output \/ manifest' \notin {"completed", "failed"}
      BY <1>12 DEF Jobs!ProgramEnds
    <2>3. manifest' \in {manifest, "torn"} /\ jobStep' = "gone"
          /\ UNCHANGED <<turn, status, faults>>
      BY <1>12 DEF Jobs!ProgramEnds
    <2>4. manifest' \in {"completed", "failed"} => Jobs!LastWhole(manifest)'
      BY <2>2, <2>3 DEF Jobs!LastWhole
    <2> QED
      BY <2>1, <2>3, <2>4
  <1> QED
    BY <1>1, <1>6, <1>7, <1>8, <1>9, <1>10, <1>11, <1>12, NextParts DEF Jobs!Next

(* tools/lib.rs, run_agent_job: the manifest and the output of an agent      *)
(* agree on how it ended, and a success is never claimed for a failed turn.  *)
THEOREM AgentsRecorded == Spec => []AgentRecordTrue
  <1>1. Jobs!JobInv => AgentRecordTrue
    BY DEF Jobs!JobInv, AgentRecordTrue, Jobs!AgentRecordTrue, Jobs!Settled
  <1> QED
    BY <1>1, JobsInit, JobsNext, AgentToolsAssumption, PTL DEF Spec

-----------------------------------------------------------------------------
(* Patches.                                                                  *)

LEMMA PatchAssumption ==
  /\ MaxFiles \in Nat \ {0} /\ NoFile \notin Patches!Files
  /\ ProcessOf \in [Calls -> Processes]
  BY AgentToolsAssumption
     DEF AgentToolsAssumption, Patches!TransactionalPatchAssumption, Patches!Files

LEMMA PatchesInit == Init => Patches!PatchInv
  BY PatchAssumption
     DEF Init, Patches!Init, Patches!PatchInv, Patches!PatchTypes, Patches!NamesApart,
         Patches!OwnFile, Patches!OpenApart, Patches!Working, Patches!Files

LEMMA StagingNames ==
  ASSUME NEW c \in Calls PROVE Patches!StagingName(c) \in Patches!Names
  BY PatchAssumption DEF Patches!StagingName, Patches!Names

(* A call that stays on one side, patch or rollback, keeps its staging name *)
(* and its text.                                                            *)
LEMMA SameName ==
  ASSUME Patches!PatchTypes, NEW c \in Calls, base'[c] = base[c],
         \/ phase'[c] = phase[c]
         \/ phase[c] = "create" /\ phase'[c] = "write"
         \/ phase[c] = "write" /\ phase'[c] = "rename"
         \/ phase[c] = "recreate" /\ phase'[c] = "rewrite"
         \/ phase[c] = "rewrite" /\ phase'[c] = "replace"
  PROVE  /\ Patches!StagingName(c)' = Patches!StagingName(c)
         /\ Patches!NewText(c)' = Patches!NewText(c)
  BY DEF Patches!StagingName, Patches!NewText

(* The others are where they were.                                          *)
OthersRest(c) ==
    \A d \in Calls \ {c} :
        phase'[d] = phase[d] /\ open'[d] = open[d] /\ base'[d] = base[d]

LEMMA OthersKeep ==
  ASSUME Patches!PatchTypes, NEW c \in Calls, OthersRest(c),
         NEW d \in Calls \ {c}
  PROVE  /\ Patches!StagingName(d)' = Patches!StagingName(d)
         /\ Patches!NewText(d)' = Patches!NewText(d)
         /\ Patches!Working(d)' = Patches!Working(d)
         /\ phase'[d] = phase[d] /\ open'[d] = open[d]
  BY SameName DEF OthersRest, Patches!Working

LEMMA OthersOwn ==
  ASSUME Patches!PatchTypes, NEW c \in Calls, OthersRest(c),
         NEW d \in Calls \ {c}, Patches!OwnFile(d),
         Patches!Working(d) =>
            /\ staged'[Patches!StagingName(d)] = staged[Patches!StagingName(d)]
            /\ text'[open[d]] = text[open[d]]
  PROVE  Patches!OwnFile(d)'
  <1>1. /\ Patches!StagingName(d)' = Patches!StagingName(d)
        /\ Patches!NewText(d)' = Patches!NewText(d)
        /\ Patches!Working(d)' = Patches!Working(d)
        /\ phase'[d] = phase[d] /\ open'[d] = open[d]
    BY OthersKeep
  <1> QED
    BY <1>1 DEF Patches!OwnFile

LEMMA CreateKeeps ==
  ASSUME Patches!PatchInv, NEW c \in Calls, Patches!Create(c)
  PROVE  /\ Patches!PatchInv'
         /\ text'[target'] = text[target]
  <1> DEFINE n == Patches!StagingName(c)
             f == IF staged[n] = NoFile THEN CHOOSE g \in Patches!Free : TRUE
                                        ELSE staged[n]
             next == IF phase[c] = "create" THEN "write" ELSE "rewrite"
  <1>0. Patches!PatchTypes /\ Patches!NamesApart
    BY DEF Patches!PatchInv
  <1>1. n \in Patches!Names
    BY StagingNames
  <1>2. /\ staged[n] # NoFile \/ Patches!Free # {}
        /\ phase[c] \in {"create", "recreate"}
        /\ phase' = [phase EXCEPT ![c] = next]
        /\ staged' = [staged EXCEPT ![n] = f]
        /\ open' = [open EXCEPT ![c] = f]
        /\ text' = [text EXCEPT ![f] = Patches!Part]
        /\ shared' = (shared \/ \E d \in Calls \ {c} : open[d] = f)
        /\ target' = target /\ base' = base
    BY DEF Patches!Create, Patches!Goto
  <1>3. /\ f \in Patches!Files /\ f # NoFile /\ f # target
        /\ \A m \in Patches!Names \ {n} : staged[m] # f
        /\ staged[n] \in {f, NoFile}
    <2>1. CASE staged[n] = NoFile
      <3>1. f \in Patches!Free
        BY <1>2, <2>1
      <3> QED
        BY <2>1, <3>1, PatchAssumption DEF Patches!Free
    <2>2. CASE staged[n] # NoFile
      BY <1>0, <1>1, <2>2, PatchAssumption DEF Patches!PatchTypes, Patches!NamesApart
    <2> QED
      BY <2>1, <2>2
  <1> HIDE DEF f, n
  <1>4. /\ next \in {"write", "rewrite"} /\ c \in Calls
        /\ next = "write" <=> phase[c] = "create"
    BY <1>2
  <1> HIDE DEF next
  <1>5. Patches!PatchTypes'
    BY <1>0, <1>1, <1>2, <1>3, <1>4 DEF Patches!PatchTypes
  <1>6. Patches!NamesApart'
    BY <1>0, <1>1, <1>2, <1>3 DEF Patches!PatchTypes, Patches!NamesApart
  <1>7. text'[target'] = text[target]
    BY <1>0, <1>2, <1>3 DEF Patches!PatchTypes
  <1>8. OthersRest(c) /\ phase'[c] = next /\ open'[c] = f /\ base'[c] = base[c]
    BY <1>0, <1>2, <1>3, <1>4 DEF Patches!PatchTypes, OthersRest
  <1>9. ASSUME ~shared'
        PROVE  Patches!OpenApart' /\ \A d \in Calls : Patches!OwnFile(d)'
    <2>1. ~shared /\ \A d \in Calls \ {c} : open[d] # f
      BY <1>2, <1>9
    <2>2. Patches!OpenApart /\ \A d \in Calls : Patches!OwnFile(d)
      BY <2>1 DEF Patches!PatchInv
    <2>3. Patches!OpenApart'
      BY <1>8, <2>1, <2>2 DEF Patches!OpenApart, OthersRest
    <2>4. Patches!StagingName(c)' = n /\ Patches!Working(c)'
      BY <1>0, <1>2, <1>4, <1>8, SameName DEF Patches!Working, n
    <2>5. staged'[n] = f /\ text'[f] = Patches!Part
      BY <1>0, <1>1, <1>2, <1>3 DEF Patches!PatchTypes
    <2>6. ASSUME NEW d \in Calls \ {c}
          PROVE  Patches!OwnFile(d)'
      <3>1. Patches!OwnFile(d)
        BY <2>2
      <3>2. Patches!StagingName(d) \in Patches!Names /\ open[d] \in Patches!Files \cup {NoFile}
        BY <1>0, StagingNames DEF Patches!PatchTypes
      <3>3. ASSUME Patches!Working(d)
            PROVE  /\ staged'[Patches!StagingName(d)] = staged[Patches!StagingName(d)]
                   /\ text'[open[d]] = text[open[d]]
        <4>1. Patches!StagingName(d) # n /\ open[d] # f /\ open[d] \in Patches!Files
          BY <1>3, <2>1, <3>1, <3>2, <3>3 DEF Patches!OwnFile
        <4> QED
          BY <1>0, <1>2, <3>2, <4>1 DEF Patches!PatchTypes
      <3> QED
        BY <1>0, <1>8, <3>1, <3>3, OthersOwn
    <2>7. Patches!OwnFile(c)'
      BY <1>3, <1>4, <1>8, <2>4, <2>5 DEF Patches!OwnFile
    <2> QED
      BY <2>3, <2>6, <2>7
  <1> QED
    BY <1>5, <1>6, <1>7, <1>9 DEF Patches!PatchInv

LEMMA WriteKeeps ==
  ASSUME Patches!PatchInv, NEW c \in Calls, Patches!Write(c)
  PROVE  /\ Patches!PatchInv'
         /\ ~shared => text'[target'] = text[target]
  <1> DEFINE new == IF text[open[c]] = Patches!Part THEN Patches!NewText(c)
                                                     ELSE Patches!Part
             next == IF phase[c] = "write" THEN "rename" ELSE "replace"
  <1>0. Patches!PatchTypes /\ Patches!NamesApart
    BY DEF Patches!PatchInv
  <1>1. /\ phase[c] \in {"write", "rewrite"}
        /\ phase' = [phase EXCEPT ![c] = next]
        /\ text' = [text EXCEPT ![open[c]] = new]
        /\ UNCHANGED <<target, staged, open, base, shared>>
    BY <1>0 DEF Patches!Write, Patches!Goto, Patches!PatchTypes
  <1>2. new \in SUBSET (Calls \cup Patches!Part)
    BY <1>0 DEF Patches!NewText, Patches!PatchTypes
  <1>3. next \in {"rename", "replace"} /\ (next = "rename" <=> phase[c] = "write")
    BY <1>1
  <1> HIDE DEF new, next
  <1>4. Patches!PatchTypes' /\ Patches!NamesApart'
    BY <1>0, <1>1, <1>2, <1>3 DEF Patches!PatchTypes, Patches!NamesApart
  <1>5. OthersRest(c) /\ phase'[c] = next /\ open'[c] = open[c] /\ base'[c] = base[c]
    BY <1>0, <1>1 DEF Patches!PatchTypes, OthersRest
  <1>6. ASSUME ~shared
        PROVE  /\ text'[target'] = text[target]
               /\ Patches!OpenApart' /\ \A d \in Calls : Patches!OwnFile(d)'
    <2>1. Patches!OpenApart /\ \A d \in Calls : Patches!OwnFile(d)
      BY <1>6 DEF Patches!PatchInv
    <2>2. /\ open[c] # NoFile /\ staged[Patches!StagingName(c)] = open[c]
          /\ text[open[c]] = Patches!Part /\ open[c] \in Patches!Files
      BY <1>0, <1>1, <2>1 DEF Patches!OwnFile, Patches!Working, Patches!PatchTypes
    <2>3. text'[target'] = text[target]
      BY <1>0, <1>1, <2>2, StagingNames DEF Patches!PatchTypes, Patches!NamesApart
    <2>4. Patches!OpenApart'
      BY <1>1, <2>1 DEF Patches!OpenApart
    <2>5. /\ Patches!StagingName(c)' = Patches!StagingName(c)
          /\ Patches!NewText(c)' = Patches!NewText(c)
      BY <1>0, <1>1, <1>3, <1>5, SameName
    <2>6. text'[open[c]] = Patches!NewText(c)
      BY <1>0, <1>1, <2>2 DEF Patches!PatchTypes, new
    <2>7. Patches!OwnFile(c)'
      BY <1>1, <1>3, <1>5, <2>2, <2>5, <2>6 DEF Patches!OwnFile, Patches!Working
    <2>8. ASSUME NEW d \in Calls \ {c} PROVE Patches!OwnFile(d)'
      <3>1. Patches!OwnFile(d)
        BY <2>1
      <3>2. ASSUME Patches!Working(d) PROVE text'[open[d]] = text[open[d]]
        <4>1. open[d] # open[c] /\ open[d] \in Patches!Files
          BY <1>0, <2>1, <2>2, <3>1, <3>2
             DEF Patches!OpenApart, Patches!OwnFile, Patches!PatchTypes
        <4> QED
          BY <1>0, <1>1, <4>1 DEF Patches!PatchTypes
      <3> QED
        BY <1>0, <1>1, <1>5, <3>1, <3>2, OthersOwn
    <2> QED
      BY <2>3, <2>4, <2>7, <2>8
  <1> QED
    BY <1>1, <1>4, <1>6 DEF Patches!PatchInv

LEMMA RenameKeeps ==
  ASSUME Patches!PatchInv, NEW c \in Calls, Patches!Rename(c)
  PROVE  /\ Patches!PatchInv'
         /\ ~shared =>
              \/ phase'[c] = "applied" /\ phase[c] = "rename"
                 /\ text'[target'] = base[c] \cup {c}
              \/ phase'[c] = "restored" /\ phase[c] = "replace"
                 /\ text'[target'] = base[c]
  <1> DEFINE n == Patches!StagingName(c)
             next == IF staged[n] = NoFile THEN "over"
                     ELSE IF phase[c] = "rename" THEN "applied" ELSE "restored"
             new == IF staged[n] = NoFile THEN target ELSE staged[n]
  <1>0. Patches!PatchTypes /\ Patches!NamesApart /\ n \in Patches!Names
    BY StagingNames DEF Patches!PatchInv
  <1>1. /\ phase[c] \in {"rename", "replace"}
        /\ phase' = [phase EXCEPT ![c] = next]
        /\ target' = new /\ staged' = [staged EXCEPT ![n] = NoFile]
        /\ open' = [open EXCEPT ![c] = NoFile]
        /\ UNCHANGED <<text, base, shared>>
    BY <1>0 DEF Patches!Rename, Patches!Goto, Patches!PatchTypes
  <1>2. /\ next \in {"over", "applied", "restored"}
        /\ staged[n] # NoFile =>
             new = staged[n] /\ (next = IF phase[c] = "rename" THEN "applied" ELSE "restored")
        /\ new \in Patches!Files /\ (new = target \/ new = staged[n])
    BY <1>0 DEF Patches!PatchTypes
  <1>3. n = Patches!StagingName(c)
    OBVIOUS
  <1> HIDE DEF new, next, n
  <1>4. Patches!PatchTypes'
    BY <1>0, <1>1, <1>2 DEF Patches!PatchTypes
  <1>5. Patches!NamesApart'
    BY <1>0, <1>1, <1>2, PatchAssumption DEF Patches!PatchTypes, Patches!NamesApart
  <1>6. OthersRest(c) /\ phase'[c] = next /\ open'[c] = NoFile
    BY <1>0, <1>1 DEF Patches!PatchTypes, OthersRest
  <1>7. ASSUME ~shared
        PROVE  /\ \/ phase'[c] = "applied" /\ phase[c] = "rename"
                     /\ text'[target'] = base[c] \cup {c}
                  \/ phase'[c] = "restored" /\ phase[c] = "replace"
                     /\ text'[target'] = base[c]
               /\ Patches!OpenApart' /\ \A d \in Calls : Patches!OwnFile(d)'
    <2>1. Patches!OpenApart /\ \A d \in Calls : Patches!OwnFile(d)
      BY <1>7 DEF Patches!PatchInv
    <2>2. /\ open[c] # NoFile /\ staged[n] = open[c]
          /\ text[open[c]] = Patches!NewText(c)
      BY <1>1, <1>3, <2>1 DEF Patches!OwnFile, Patches!Working
    <2>3. text'[target'] = Patches!NewText(c)
      BY <1>1, <1>2, <2>2
    <2>4. Patches!NewText(c) = IF phase[c] = "rename" THEN base[c] \cup {c} ELSE base[c]
      BY <1>1 DEF Patches!NewText
    <2>5. Patches!OpenApart'
      BY <1>6, <2>1 DEF Patches!OpenApart, OthersRest
    <2>6. Patches!OwnFile(c)'
      BY <1>2, <1>6 DEF Patches!OwnFile, Patches!Working
    <2>7. ASSUME NEW d \in Calls \ {c} PROVE Patches!OwnFile(d)'
      <3>1. Patches!OwnFile(d)
        BY <2>1
      <3>2. ASSUME Patches!Working(d)
            PROVE  staged'[Patches!StagingName(d)] = staged[Patches!StagingName(d)]
        <4>1. Patches!StagingName(d) # n /\ Patches!StagingName(d) \in Patches!Names
          BY <2>1, <2>2, <3>1, <3>2, StagingNames DEF Patches!OpenApart, Patches!OwnFile
        <4> QED
          BY <1>0, <1>1, <4>1 DEF Patches!PatchTypes
      <3> QED
        BY <1>0, <1>1, <1>6, <3>1, <3>2, OthersOwn
    <2> QED
      BY <1>1, <1>2, <1>6, <2>2, <2>3, <2>4, <2>5, <2>6, <2>7
  <1> QED
    BY <1>1, <1>4, <1>5, <1>7 DEF Patches!PatchInv

(* Read, Rollback and Stop leave every file alone.                          *)
LEMMA RestKeeps ==
  ASSUME Patches!PatchInv, NEW c \in Calls,
         Patches!Read(c) \/ Patches!Rollback(c) \/ Patches!Stop(c)
  PROVE  Patches!PatchInv' /\ text'[target'] = text[target]
  <1>0. Patches!PatchTypes /\ Patches!NamesApart
    BY DEF Patches!PatchInv
  <1>1. /\ UNCHANGED <<target, staged, text, shared>>
        /\ \E next \in {"create", "over", "recreate"} : phase' = [phase EXCEPT ![c] = next]
        /\ \/ open' = [open EXCEPT ![c] = NoFile]
           \/ open' = open /\ phase[c] \in {"read", "applied"}
        /\ \/ base' = [base EXCEPT ![c] = {}]
           \/ base' = [base EXCEPT ![c] = text[target]]
           \/ base' = base
    BY DEF Patches!Read, Patches!Rollback, Patches!Stop, Patches!Goto
  <1>2. Patches!PatchTypes' /\ Patches!NamesApart'
    <2>1. /\ phase' \in [Calls -> {"read", "create", "write", "rename", "applied",
                            "recreate", "rewrite", "replace", "restored", "over"}]
          /\ open' \in [Calls -> Patches!Files \cup {NoFile}]
      BY <1>0, <1>1 DEF Patches!PatchTypes
    <2>2. base' \in [Calls -> SUBSET (Calls \cup Patches!Part)]
      BY <1>0, <1>1 DEF Patches!PatchTypes
    <2> QED
      BY <1>0, <1>1, <2>1, <2>2 DEF Patches!PatchTypes, Patches!NamesApart
  <1>3. /\ OthersRest(c) /\ phase'[c] \in {"create", "over", "recreate"}
        /\ open'[c] = NoFile \/ (open'[c] = open[c] /\ phase[c] \in {"read", "applied"})
    BY <1>0, <1>1 DEF Patches!PatchTypes, OthersRest
  <1>4. ASSUME ~shared
        PROVE  Patches!OpenApart' /\ \A d \in Calls : Patches!OwnFile(d)'
    <2>1. Patches!OpenApart /\ \A d \in Calls : Patches!OwnFile(d)
      BY <1>4 DEF Patches!PatchInv
    <2>2. open'[c] = NoFile
      BY <1>3, <2>1 DEF Patches!OwnFile, Patches!Working
    <2>3. Patches!OpenApart'
      BY <1>3, <2>1, <2>2 DEF Patches!OpenApart, OthersRest
    <2>4. Patches!OwnFile(c)'
      BY <1>3, <2>2 DEF Patches!OwnFile, Patches!Working
    <2>5. ASSUME NEW d \in Calls \ {c} PROVE Patches!OwnFile(d)'
      BY <1>0, <1>1, <1>3, <2>1, OthersOwn
    <2> QED
      BY <2>3, <2>4, <2>5
  <1> QED
    BY <1>1, <1>2, <1>4 DEF Patches!PatchInv

LEMMA PatchesNext ==
  ASSUME Patches!PatchInv, [Next]_vars
  PROVE  /\ Patches!PatchInv'
         /\ [~shared' /\ text'[target'] # text[target] =>
              \E c \in Calls :
                 \/ phase'[c] = "applied" /\ phase[c] = "rename"
                    /\ text'[target'] = base[c] \cup {c}
                 \/ phase'[c] = "restored" /\ phase[c] = "replace"
                    /\ text'[target'] = base[c]]_patchVars
  <1>1. CASE UNCHANGED patchVars
    BY <1>1
       DEF patchVars, Patches!PatchInv, Patches!PatchTypes, Patches!NamesApart,
           Patches!OwnFile, Patches!OpenApart, Patches!Working, Patches!StagingName,
           Patches!NewText
  <1>2. ASSUME NEW c \in Calls,
               \/ Patches!Read(c) \/ Patches!Create(c) \/ Patches!Write(c)
               \/ Patches!Rename(c) \/ Patches!Rollback(c) \/ Patches!Stop(c)
        PROVE  /\ Patches!PatchInv'
               /\ ~shared' /\ text'[target'] # text[target] =>
                     \/ phase'[c] = "applied" /\ phase[c] = "rename"
                        /\ text'[target'] = base[c] \cup {c}
                     \/ phase'[c] = "restored" /\ phase[c] = "replace"
                        /\ text'[target'] = base[c]
    <2>1. CASE Patches!Create(c)
      BY <2>1, CreateKeeps
    <2>2. CASE Patches!Write(c)
      BY <2>2, WriteKeeps DEF Patches!Write
    <2>3. CASE Patches!Rename(c)
      BY <2>3, RenameKeeps DEF Patches!Rename
    <2>4. CASE Patches!Read(c) \/ Patches!Rollback(c) \/ Patches!Stop(c)
      BY <2>4, RestKeeps
    <2> QED
      BY <1>2, <2>1, <2>2, <2>3, <2>4
  <1> QED
    BY <1>1, <1>2, NextParts DEF Patches!Next

(* transactional_patch.rs: the text under the target's name changes only     *)
(* when a call succeeds, and to the whole text of that call.                 *)
THEOREM PatchesAtomic == Spec => PatchIsAtomic
  <1> QED
    BY PatchesInit, PatchesNext, PTL DEF Spec, PatchIsAtomic, Patches!PatchIsAtomic,
       patchVars, Patches!patchVars

-----------------------------------------------------------------------------
(* Plan mode.                                                                *)

Steps == {"idle", "read", "state", "clear", "save", "saving", "truncate", "write"}

LEMMA PlanAssumption ==
  "none" \in Modes /\ "plan" \in Modes /\ "none" \in Others
  BY AgentToolsAssumption DEF AgentToolsAssumption, Plan!PlanModeAssumption

LEMMA ToolTypes ==
  /\ \A t \in Plan!Tools :
        /\ t.name \in {"enter", "exit", "mode", "other"}
        /\ t.name = "mode" => t.value \in Modes
        /\ t.name = "other" => t.value \in Others
  /\ Plan!NoTool \in Plan!Tools
  /\ Plan!Empty \in Plan!Setting
  /\ [Plan!Empty EXCEPT !.broken = TRUE] \in Plan!Setting
  /\ Plan!NoState.mode \in Modes
  /\ [Plan!NoState EXCEPT !.broken = TRUE].mode \in Modes
  /\ \A mode \in Modes : Plan!SavedState(mode).mode \in Modes
  BY PlanAssumption
     DEF Plan!Tools, Plan!NoTool, Plan!Empty, Plan!Setting, Plan!NoState, Plan!SavedState

LEMMA SetOne ==
  ASSUME NEW r \in Plan!Setting, NEW name \in {"mode", "other"}, NEW v,
         name = "mode" => v \in Modes, name = "other" => v \in Others
  PROVE  LET new == [r EXCEPT ![name] = v]
         IN  /\ new \in Plan!Setting
             /\ new.mode = IF name = "mode" THEN v ELSE r.mode
             /\ new.other = IF name = "other" THEN v ELSE r.other
  <1>1. CASE name = "mode"
    BY <1>1 DEF Plan!Setting
  <1>2. CASE name = "other"
    BY <1>2 DEF Plan!Setting
  <1> QED
    BY <1>1, <1>2

LEMMA PlanInit == Init => Plan!PlanInv
  <1> SUFFICES ASSUME Init PROVE Plan!PlanInv
    OBVIOUS
  <1>1. /\ settings = Plan!Empty /\ own = Plan!Empty /\ state = Plan!NoState
        /\ behind = {} /\ spoiled = FALSE /\ claimed = FALSE
        /\ \A s \in Sessions : step[s] = "idle"
    BY DEF Init, Plan!Init
  <1>2. Plan!PlanTypes
    BY ToolTypes DEF Init, Plan!Init, Plan!PlanTypes
  <1>3. Plan!Writers = {} /\ Plan!Kept
    BY <1>1 DEF Plan!Writers, Plan!Kept, Plan!ModeKept, Plan!NoState
  <1>4. \A s \in Sessions : Plan!Fresh(s)
    BY <1>1 DEF Plan!Fresh
  <1> QED
    BY <1>2, <1>3, <1>4 DEF Plan!PlanInv

(* The three states of affairs while nothing is spoiled.                    *)
Doomed == Plan!Writers \cap behind # {}
OneWriter == \E w \in Plan!Writers : Plan!Writers = {w} /\ Plan!WillKeep(w)
Steady ==
    /\ Plan!Writers = {} /\ Plan!Kept
    /\ \A s \in Sessions \ behind : Plan!Fresh(s)

LEMMA PlanParts ==
  /\ Plan!PlanInv <=> Plan!PlanTypes /\ (spoiled \/ Doomed \/ OneWriter \/ Steady)
  /\ Plan!PlanInv' <=> Plan!PlanTypes' /\ (spoiled' \/ Doomed' \/ OneWriter' \/ Steady')
  BY DEF Plan!PlanInv, Doomed, OneWriter, Steady

(* What a step of s leaves alone of the other calls.                        *)
OthersWait(s) ==
    \A t \in Sessions \ {s} :
        /\ step'[t] = step[t] /\ tool'[t] = tool[t] /\ document'[t] = document[t]

(* A step of s that changes no file.                                        *)
Quiet(s) ==
    /\ OthersWait(s) /\ step[s] # "write" /\ step'[s] # "write"
    /\ UNCHANGED <<settings, state, own, claimed, spoiled>>
    /\ behind' \in {behind, behind \ {s}}

LEMMA EndsTypes ==
  ASSUME Plan!PlanTypes, NEW s \in Sessions, Plan!Ends(s)
  PROVE  /\ step' \in [Sessions -> Steps] /\ tool' \in [Sessions -> Plan!Tools]
         /\ document' \in [Sessions -> Plan!Setting]
         /\ OthersWait(s) /\ step'[s] = "idle"
  BY ToolTypes DEF Plan!PlanTypes, Plan!Ends, Steps, OthersWait

LEMMA GoesTypes ==
  ASSUME Plan!PlanTypes, NEW s \in Sessions, NEW next \in Steps, Plan!Goes(s, next),
         \/ document' = document
         \/ \E d \in Plan!Setting : document' = [document EXCEPT ![s] = d]
  PROVE  /\ step' \in [Sessions -> Steps] /\ tool' \in [Sessions -> Plan!Tools]
         /\ document' \in [Sessions -> Plan!Setting]
         /\ OthersWait(s) /\ step'[s] = next /\ tool' = tool
  BY DEF Plan!PlanTypes, Plan!Goes, Steps, OthersWait

LEMMA ChangesTypes ==
  ASSUME Plan!PlanTypes, NEW s \in Sessions, Plan!Changes(s)
  PROVE  /\ behind' \subseteq Sessions /\ spoiled' \in BOOLEAN
         /\ \A t \in Sessions \ {s} : step[t] # "idle" => t \in behind'
         /\ spoiled \/ s \in behind => spoiled'
  BY DEF Plan!PlanTypes, Plan!Changes

LEMMA CallKeeps ==
  ASSUME Plan!PlanTypes, NEW s \in Sessions, NEW t \in Plan!Tools, Plan!Call(s, t)
  PROVE  Plan!PlanTypes' /\ Quiet(s) /\ Plan!Fresh(s)'
  <1>1. /\ Plan!PlanTypes' /\ OthersWait(s) /\ step'[s] = "read"
    BY DEF Plan!Call, Plan!PlanTypes, OthersWait
  <1> QED
    BY <1>1 DEF Plan!Call, Quiet, Plan!Fresh

LEMMA ReadSettingsKeeps ==
  ASSUME Plan!PlanTypes, NEW s \in Sessions, Plan!ReadSettings(s)
  PROVE  Plan!PlanTypes' /\ Quiet(s) /\ (s \notin behind => Plan!Fresh(s)') /\ behind' = behind
  <1>1. /\ step[s] = "read" /\ UNCHANGED <<settings, state, own, claimed, behind, spoiled>>
    BY DEF Plan!ReadSettings
  <1>2. tool[s] \in Plan!Tools /\ settings \in Plan!Setting
    BY DEF Plan!PlanTypes
  <1>3. CASE Plan!Ends(s)
    BY <1>1, <1>3, EndsTypes DEF Plan!PlanTypes, Quiet, Plan!Fresh, Steps
  <1>4. CASE /\ tool[s].name \in {"mode", "other"}
             /\ document' = [document EXCEPT ![s] =
                               [settings EXCEPT ![tool[s].name] = tool[s].value]]
             /\ Plan!Goes(s, "truncate")
    <2> DEFINE new == [settings EXCEPT ![tool[s].name] = tool[s].value]
    <2>1. /\ new \in Plan!Setting
          /\ new.mode = IF tool[s].name = "mode" THEN tool[s].value ELSE settings.mode
          /\ new.other = IF tool[s].name = "other" THEN tool[s].value ELSE settings.other
      BY <1>2, <1>4, SetOne, ToolTypes
    <2>2. document' = [document EXCEPT ![s] = new]
      BY <1>4
    <2> HIDE DEF new
    <2>3. /\ step' \in [Sessions -> Steps] /\ tool' \in [Sessions -> Plan!Tools]
          /\ document' \in [Sessions -> Plan!Setting]
          /\ OthersWait(s) /\ step'[s] = "truncate" /\ tool' = tool
      BY <1>4, <2>1, <2>2, GoesTypes DEF Steps
    <2>4. document'[s] = new
      BY <2>2 DEF Plan!PlanTypes
    <2>5. Plan!Fresh(s)'
      BY <1>1, <1>4, <2>1, <2>3, <2>4 DEF Plan!Fresh
    <2> QED
      BY <1>1, <2>3, <2>5 DEF Plan!PlanTypes, Quiet, Steps
  <1>5. CASE /\ tool[s].name \notin {"mode", "other"}
             /\ document' = [document EXCEPT ![s] = settings]
             /\ Plan!Goes(s, "state")
    <2>1. /\ step' \in [Sessions -> Steps] /\ tool' \in [Sessions -> Plan!Tools]
          /\ document' \in [Sessions -> Plan!Setting]
          /\ OthersWait(s) /\ step'[s] = "state" /\ tool' = tool
      BY <1>2, <1>5, GoesTypes DEF Steps
    <2>2. document'[s] = settings /\ tool[s].name \in {"enter", "exit"}
      BY <1>2, <1>5, ToolTypes DEF Plan!PlanTypes
    <2>3. Plan!Fresh(s)'
      BY <1>1, <2>1, <2>2 DEF Plan!Fresh
    <2> QED
      BY <1>1, <2>1, <2>3 DEF Plan!PlanTypes, Quiet, Steps
  <1> QED
    BY <1>3, <1>4, <1>5 DEF Plan!ReadSettings

LEMMA ReadStateKeeps ==
  ASSUME Plan!PlanTypes, NEW s \in Sessions, Plan!ReadState(s)
  PROVE  /\ Plan!PlanTypes' /\ Quiet(s) /\ behind' = behind
         /\ Plan!Fresh(s) /\ Plan!Kept => Plan!Fresh(s)'
  <1>1. /\ step[s] = "state" /\ UNCHANGED <<settings, state, own, claimed, behind, spoiled>>
        /\ tool[s] \in Plan!Tools /\ document[s] \in Plan!Setting /\ state.mode \in Modes
    BY DEF Plan!ReadState, Plan!PlanTypes
  <1>2. CASE Plan!Ends(s)
    BY <1>1, <1>2, EndsTypes DEF Plan!PlanTypes, Quiet, Plan!Fresh, Steps
  <1>3. CASE /\ tool[s].name = "enter" /\ ~Plan!InPlan(s) /\ document' = document
             /\ \E next \in {"clear", "save"} : Plan!Goes(s, next)
    <2>1. PICK next \in {"clear", "save"} : Plan!Goes(s, next)
      BY <1>3
    <2>2. /\ step' \in [Sessions -> Steps] /\ tool' \in [Sessions -> Plan!Tools]
          /\ document' \in [Sessions -> Plan!Setting]
          /\ OthersWait(s) /\ step'[s] = next /\ tool' = tool
      BY <1>3, <2>1, GoesTypes DEF Steps
    <2>3. Plan!Fresh(s) => Plan!Fresh(s)'
      BY <1>1, <1>3, <2>2 DEF Plan!Fresh, Plan!InPlan
    <2> QED
      BY <1>1, <2>2, <2>3 DEF Plan!PlanTypes, Quiet, Steps
  <1>4. CASE /\ tool[s].name # "enter" /\ ~Plan!InPlan(s)
             /\ document' = document /\ Plan!Goes(s, "clear")
    <2>1. /\ step' \in [Sessions -> Steps] /\ tool' \in [Sessions -> Plan!Tools]
          /\ document' \in [Sessions -> Plan!Setting]
          /\ OthersWait(s) /\ step'[s] = "clear" /\ tool' = tool
      BY <1>4, GoesTypes DEF Steps
    <2>2. Plan!Fresh(s) /\ Plan!Kept => Plan!Fresh(s)'
      BY <1>1, <1>4, <2>1 DEF Plan!Fresh, Plan!InPlan, Plan!Kept, Plan!ModeKept
    <2> QED
      BY <1>1, <2>1, <2>2 DEF Plan!PlanTypes, Quiet, Steps
  <1>5. CASE /\ tool[s].name # "enter" /\ Plan!InPlan(s) /\ state.exists
             /\ document' = [document EXCEPT ![s].mode = state.mode]
             /\ Plan!Goes(s, "truncate")
    <2> DEFINE new == [document[s] EXCEPT !.mode = state.mode]
    <2>1. /\ new \in Plan!Setting /\ new.mode = state.mode
          /\ new.other = document[s].other
      BY <1>1 DEF Plan!Setting
    <2>2. document' = [document EXCEPT ![s] = new]
      BY <1>1, <1>5 DEF Plan!PlanTypes
    <2> HIDE DEF new
    <2>3. /\ step' \in [Sessions -> Steps] /\ tool' \in [Sessions -> Plan!Tools]
          /\ document' \in [Sessions -> Plan!Setting]
          /\ OthersWait(s) /\ step'[s] = "truncate" /\ tool' = tool
      BY <1>5, <2>1, <2>2, GoesTypes DEF Steps
    <2>4. document'[s] = new
      BY <2>2 DEF Plan!PlanTypes
    <2>5. Plan!Fresh(s) => Plan!Fresh(s)'
      BY <1>1, <1>5, <2>1, <2>3, <2>4 DEF Plan!Fresh, Plan!InPlan
    <2> QED
      BY <1>1, <2>3, <2>5 DEF Plan!PlanTypes, Quiet, Steps
  <1> QED
    BY <1>2, <1>3, <1>4, <1>5 DEF Plan!ReadState, Plan!Enter, Plan!Exit

LEMMA ClearStateKeeps ==
  ASSUME Plan!PlanTypes, NEW s \in Sessions, Plan!ClearState(s)
  PROVE  /\ Plan!PlanTypes' /\ OthersWait(s) /\ Plan!Changes(s)
         /\ step[s] # "write" /\ step'[s] # "write"
         /\ Plan!Fresh(s) /\ Plan!Kept => Plan!Kept' /\ Plan!Fresh(s)'
  <1>1. /\ step[s] = "clear" /\ UNCHANGED <<settings, own, claimed>> /\ Plan!Changes(s)
        /\ state' = Plan!NoState /\ tool[s] \in Plan!Tools
    BY DEF Plan!ClearState, Plan!PlanTypes
  <1>2. /\ behind' \subseteq Sessions /\ spoiled' \in BOOLEAN /\ state'.mode \in Modes
    BY <1>1, ChangesTypes, ToolTypes
  <1>3. Plan!Fresh(s) /\ Plan!Kept => Plan!Kept'
    BY <1>1 DEF Plan!Fresh, Plan!Kept, Plan!ModeKept, Plan!NoState
  <1>4. CASE tool[s].name = "enter"
    <2>1. Plan!Goes(s, "save") /\ document' = document
      BY <1>4 DEF Plan!ClearState
    <2>2. /\ step' \in [Sessions -> Steps] /\ tool' \in [Sessions -> Plan!Tools]
          /\ document' \in [Sessions -> Plan!Setting]
          /\ OthersWait(s) /\ step'[s] = "save" /\ tool' = tool
      BY <2>1, GoesTypes DEF Steps
    <2>3. Plan!Fresh(s) => Plan!Fresh(s)'
      BY <1>1, <1>4, <2>1, <2>2 DEF Plan!Fresh
    <2> QED
      BY <1>1, <1>2, <1>3, <2>2, <2>3 DEF Plan!PlanTypes, Steps
  <1>5. CASE tool[s].name # "enter"
    <2>1. Plan!Ends(s)
      BY <1>5 DEF Plan!ClearState
    <2>2. /\ step' \in [Sessions -> Steps] /\ tool' \in [Sessions -> Plan!Tools]
          /\ document' \in [Sessions -> Plan!Setting]
          /\ OthersWait(s) /\ step'[s] = "idle"
      BY <2>1, EndsTypes
    <2> QED
      BY <1>1, <1>2, <1>3, <2>2 DEF Plan!PlanTypes, Plan!Fresh, Steps
  <1> QED
    BY <1>4, <1>5

LEMMA SaveStateKeeps ==
  ASSUME Plan!PlanTypes, NEW s \in Sessions, Plan!SaveState(s)
  PROVE  /\ Plan!PlanTypes' /\ OthersWait(s) /\ Plan!Changes(s)
         /\ step[s] # "write" /\ step'[s] # "write"
         /\ Plan!Fresh(s) /\ Plan!Kept => Plan!Kept' /\ Plan!Fresh(s)'
  <1>1. /\ step[s] \in {"save", "saving"} /\ UNCHANGED <<settings, own, claimed>>
        /\ Plan!Changes(s) /\ document[s] \in Plan!Setting
    BY DEF Plan!SaveState, Plan!PlanTypes
  <1>2. /\ behind' \subseteq Sessions /\ spoiled' \in BOOLEAN
    BY <1>1, ChangesTypes
  <1>3. Plan!Fresh(s) /\ Plan!Kept => Plan!Kept'
    BY <1>1 DEF Plan!Fresh, Plan!Kept, Plan!ModeKept, Plan!NoState
  <1>4. CASE /\ step[s] = "save" /\ state' = Plan!NoState
             /\ Plan!Goes(s, "saving") /\ document' = document
    <2>1. /\ step' \in [Sessions -> Steps] /\ tool' \in [Sessions -> Plan!Tools]
          /\ document' \in [Sessions -> Plan!Setting]
          /\ OthersWait(s) /\ step'[s] = "saving" /\ tool' = tool
      BY <1>4, GoesTypes DEF Steps
    <2>2. Plan!Fresh(s) => Plan!Fresh(s)'
      BY <1>1, <1>4, <2>1 DEF Plan!Fresh
    <2> QED
      BY <1>1, <1>2, <1>3, <1>4, <2>1, <2>2, ToolTypes DEF Plan!PlanTypes, Steps
  <1>5. CASE /\ step[s] = "saving" /\ state' = Plan!SavedState(document[s].mode)
             /\ document' = [document EXCEPT ![s].mode = "plan"]
             /\ Plan!Goes(s, "truncate")
    <2> DEFINE new == [document[s] EXCEPT !.mode = "plan"]
    <2>1. /\ new \in Plan!Setting /\ new.mode = "plan" /\ new.other = document[s].other
          /\ document[s].mode \in Modes
      BY <1>1, PlanAssumption DEF Plan!Setting
    <2>2. document' = [document EXCEPT ![s] = new]
      BY <1>1, <1>5 DEF Plan!PlanTypes
    <2> HIDE DEF new
    <2>3. /\ step' \in [Sessions -> Steps] /\ tool' \in [Sessions -> Plan!Tools]
          /\ document' \in [Sessions -> Plan!Setting]
          /\ OthersWait(s) /\ step'[s] = "truncate" /\ tool' = tool
      BY <1>5, <2>1, <2>2, GoesTypes DEF Steps
    <2>4. document'[s] = new /\ state'.mode \in Modes
      BY <1>5, <2>1, <2>2, ToolTypes DEF Plan!PlanTypes
    <2>5. Plan!Fresh(s) => Plan!Fresh(s)'
      <3>1. ASSUME Plan!Fresh(s)
            PROVE  /\ tool[s].name = "enter" /\ document[s] = settings
                   /\ settings.mode # "plan"
        BY <1>5, <3>1 DEF Plan!Fresh
      <3> QED
        BY <1>1, <1>5, <2>1, <2>3, <2>4, <3>1 DEF Plan!Fresh
    <2> QED
      BY <1>1, <1>2, <1>3, <2>3, <2>4, <2>5 DEF Plan!PlanTypes, Steps
  <1> QED
    BY <1>4, <1>5 DEF Plan!SaveState

LEMMA TruncateKeeps ==
  ASSUME Plan!PlanTypes, NEW s \in Sessions, Plan!Truncate(s)
  PROVE  /\ Plan!PlanTypes' /\ OthersWait(s) /\ Plan!Changes(s)
         /\ step[s] # "write" /\ step'[s] = "write"
         /\ Plan!Fresh(s) /\ Plan!Kept => Plan!WillKeep(s)'
  <1>1. /\ step[s] = "truncate" /\ UNCHANGED <<state, document, own, claimed>>
        /\ Plan!Changes(s) /\ Plan!Goes(s, "write") /\ settings' = Plan!Empty
    BY DEF Plan!Truncate
  <1>2. /\ step' \in [Sessions -> Steps] /\ tool' \in [Sessions -> Plan!Tools]
        /\ document' \in [Sessions -> Plan!Setting]
        /\ OthersWait(s) /\ step'[s] = "write" /\ tool' = tool
    BY <1>1, GoesTypes DEF Steps
  <1>3. /\ behind' \subseteq Sessions /\ spoiled' \in BOOLEAN /\ settings' \in Plan!Setting
    BY <1>1, ChangesTypes, ToolTypes
  <1>4. tool[s].name \in {"enter", "exit", "mode", "other"}
    BY ToolTypes DEF Plan!PlanTypes
  <1>5. ASSUME Plan!Fresh(s), Plan!Kept PROVE Plan!WillKeep(s)'
    BY <1>1, <1>2, <1>4, <1>5
       DEF Plan!Fresh, Plan!WillKeep, Plan!Kept, Plan!ModeKept, Plan!SavedState
  <1> QED
    BY <1>1, <1>2, <1>3, <1>5 DEF Plan!PlanTypes, Steps

LEMMA WriteSettingsKeeps ==
  ASSUME Plan!PlanTypes, NEW s \in Sessions, Plan!Write(s)
  PROVE  /\ Plan!PlanTypes' /\ OthersWait(s) /\ Plan!Changes(s)
         /\ step[s] = "write" /\ step'[s] # "write"
         /\ Plan!WillKeep(s) => Plan!Kept' /\ Plan!Fresh(s)'
  <1>1. /\ step[s] = "write" /\ state' = state /\ settings' = document[s]
        /\ Plan!Changes(s) /\ tool[s] \in Plan!Tools /\ own \in Plan!Setting
        /\ document[s] \in Plan!Setting
    BY DEF Plan!Write, Plan!PlanTypes
  <1>2. /\ behind' \subseteq Sessions /\ spoiled' \in BOOLEAN
    BY <1>1, ChangesTypes
  <1>3. /\ own' \in Plan!Setting
        /\ own'.mode = IF tool[s].name = "mode" THEN tool[s].value ELSE own.mode
        /\ own'.other = IF tool[s].name = "other" THEN tool[s].value ELSE own.other
    <2>1. CASE tool[s].name \in {"mode", "other"}
      <3>1. own' = [own EXCEPT ![tool[s].name] = tool[s].value]
        BY <2>1 DEF Plan!Write
      <3> DEFINE new == [own EXCEPT ![tool[s].name] = tool[s].value]
      <3>2. /\ new \in Plan!Setting
            /\ new.mode = IF tool[s].name = "mode" THEN tool[s].value ELSE own.mode
            /\ new.other = IF tool[s].name = "other" THEN tool[s].value ELSE own.other
        BY <1>1, <2>1, SetOne, ToolTypes
      <3> HIDE DEF new
      <3> QED
        BY <3>1, <3>2 DEF new
    <2>2. CASE tool[s].name \notin {"mode", "other"}
      BY <1>1, <2>2 DEF Plan!Write
    <2> QED
      BY <2>1, <2>2
  <1>4. /\ claimed' \in BOOLEAN
        /\ claimed' = IF tool[s].name = "mode"
                       THEN tool[s].value = "plan" /\ state.exists ELSE claimed
    <2>1. claimed' = IF tool[s].name = "mode"
                       THEN tool[s].value = "plan" /\ state.exists ELSE claimed
      BY DEF Plan!Write
    <2>2. claimed \in BOOLEAN
      BY DEF Plan!PlanTypes
    <2> QED
      BY <2>1, <2>2
  <1>5. Plan!WillKeep(s) => Plan!Kept'
    BY <1>1, <1>3, <1>4 DEF Plan!WillKeep, Plan!Kept, Plan!ModeKept, Plan!SavedState
  <1>6. CASE tool[s].name = "exit"
    <2>1. Plan!Goes(s, "clear") /\ document' = document
      BY <1>6 DEF Plan!Write
    <2>2. /\ step' \in [Sessions -> Steps] /\ tool' \in [Sessions -> Plan!Tools]
          /\ document' \in [Sessions -> Plan!Setting]
          /\ OthersWait(s) /\ step'[s] = "clear" /\ tool' = tool
      BY <2>1, GoesTypes DEF Steps
    <2>3. Plan!WillKeep(s) => Plan!Fresh(s)'
      BY <1>1, <1>3, <1>6, <1>4, <2>2 DEF Plan!WillKeep, Plan!Fresh
    <2> QED
      BY <1>1, <1>2, <1>3, <1>5, <1>4, <2>2, <2>3 DEF Plan!PlanTypes, Steps
  <1>7. CASE tool[s].name # "exit"
    <2>1. Plan!Ends(s)
      BY <1>7 DEF Plan!Write
    <2>2. /\ step' \in [Sessions -> Steps] /\ tool' \in [Sessions -> Plan!Tools]
          /\ document' \in [Sessions -> Plan!Setting]
          /\ OthersWait(s) /\ step'[s] = "idle"
      BY <2>1, EndsTypes
    <2> QED
      BY <1>1, <1>2, <1>3, <1>5, <1>4, <2>2 DEF Plan!PlanTypes, Plan!Fresh, Steps
  <1> QED
    BY <1>6, <1>7

LEMMA StopKeeps ==
  ASSUME Plan!PlanTypes, NEW s \in Sessions, Plan!Stop(s)
  PROVE  /\ Plan!PlanTypes' /\ OthersWait(s) /\ step'[s] = "idle" /\ own' = own /\ claimed' = claimed
         /\ spoiled \/ step[s] = "write" => spoiled'
         /\ step[s] # "write" => settings' = settings
         /\ state' # state =>
               /\ step[s] = "saving" /\ (s \in behind => spoiled')
               /\ behind' = behind \cup {t \in Sessions : step[t] # "idle"}
         /\ state' = state /\ settings' = settings => behind' = behind
         /\ Plan!Fresh(s)' /\ behind \subseteq behind'
  <1>1. /\ step' \in [Sessions -> Steps] /\ tool' \in [Sessions -> Plan!Tools]
        /\ document' \in [Sessions -> Plan!Setting]
        /\ OthersWait(s) /\ step'[s] = "idle"
    BY EndsTypes DEF Plan!Stop
  <1>2. /\ settings' \in {settings, [Plan!Empty EXCEPT !.broken = TRUE]}
        /\ step[s] # "write" => settings' = settings
        /\ state' \in {state, [Plan!NoState EXCEPT !.broken = TRUE]}
        /\ step[s] # "saving" => state' = state
        /\ own' = own /\ claimed' = claimed
    BY DEF Plan!Stop
  <1>3. /\ behind' = IF <<settings', state'>> # <<settings, state>>
                       THEN behind \cup {t \in Sessions : step[t] # "idle"}
                       ELSE behind
        /\ spoiled' = (spoiled \/ step[s] = "write"
                         \/ (<<settings', state'>> # <<settings, state>> /\ s \in behind))
    BY DEF Plan!Stop
  <1>4. settings' \in Plan!Setting /\ state'.mode \in Modes
    BY <1>2, ToolTypes DEF Plan!PlanTypes
  <1>5. Plan!PlanTypes'
    BY <1>1, <1>2, <1>3, <1>4 DEF Plan!PlanTypes, Steps
  <1>6. Plan!Fresh(s)'
    BY <1>1 DEF Plan!Fresh
  <1> QED
    BY <1>1, <1>2, <1>3, <1>5, <1>6

(* What a call knows is disturbed only by changes of the files.              *)
LEMMA FreshKeeps ==
  ASSUME NEW s, NEW t \in Sessions \ {s}, OthersWait(s), Plan!Fresh(t),
         UNCHANGED <<settings, state, own, claimed>>
  PROVE  Plan!Fresh(t)'
  BY DEF OthersWait, Plan!Fresh

LEMMA WillKeepKeeps ==
  ASSUME NEW s, NEW t \in Sessions \ {s}, OthersWait(s), Plan!WillKeep(t),
         UNCHANGED <<state, own, claimed>>
  PROVE  Plan!WillKeep(t)'
  BY DEF OthersWait, Plan!WillKeep, Plan!ModeKept

LEMMA QuietKeeps ==
  ASSUME Plan!PlanInv, NEW s \in Sessions, Quiet(s), Plan!PlanTypes',
         Steady /\ s \notin behind' => Plan!Fresh(s)'
  PROVE  Plan!PlanInv'
  <1>1. Plan!Writers' = Plan!Writers /\ s \notin Plan!Writers
    BY DEF Quiet, OthersWait, Plan!Writers
  <1>2. spoiled => spoiled'
    BY DEF Quiet
  <1>3. Doomed => Doomed'
    BY <1>1 DEF Quiet, Doomed
  <1>4. OneWriter => OneWriter'
    <2>1. ASSUME NEW w \in Plan!Writers, Plan!Writers = {w}, Plan!WillKeep(w)
          PROVE  w \in Plan!Writers' /\ Plan!Writers' = {w} /\ Plan!WillKeep(w)'
      BY <1>1, <2>1, WillKeepKeeps DEF Quiet, Plan!Writers
    <2> QED
      BY <2>1 DEF OneWriter
  <1>5. ASSUME Steady PROVE Steady'
    <2>1. Plan!Kept'
      BY <1>5 DEF Steady, Plan!Kept, Plan!ModeKept, Quiet
    <2>2. ASSUME NEW t \in Sessions \ behind' PROVE Plan!Fresh(t)'
      <3>1. CASE t = s
        BY <1>5, <2>2, <3>1
      <3>2. CASE t # s
        BY <1>5, <2>2, <3>2, FreshKeeps DEF Steady, Quiet
      <3> QED
        BY <3>1, <3>2
    <2> QED
      BY <1>1, <1>5, <2>1, <2>2 DEF Steady
  <1> QED
    BY <1>2, <1>3, <1>4, <1>5, PlanParts

(* A change of the files overtakes every other call, a writer included.      *)
LEMMA ChangeKeeps ==
  ASSUME Plan!PlanInv, NEW s \in Sessions, OthersWait(s), Plan!Changes(s),
         Plan!PlanTypes',
         s \notin behind /\ Steady =>
            \/ step'[s] # "write" /\ Plan!Kept' /\ Plan!Fresh(s)'
            \/ step'[s] = "write" /\ Plan!WillKeep(s)',
         step[s] = "write" => step'[s] # "write",
         step[s] = "write" /\ Plan!WillKeep(s) => Plan!Kept' /\ Plan!Fresh(s)'
  PROVE  Plan!PlanInv'
  <1>1. /\ \A t \in Sessions \ {s} : step[t] # "idle" => t \in behind'
        /\ spoiled \/ s \in behind => spoiled'
    BY ChangesTypes, PlanParts
  <1>2. ASSUME NEW w \in Plan!Writers, w # s PROVE Doomed'
    BY <1>1, <1>2 DEF Doomed, Plan!Writers, OthersWait
  <1>3. ASSUME NEW t \in Sessions \ {s}, t \notin behind' PROVE Plan!Fresh(t)'
    <2>1. step'[t] = "idle"
      BY <1>1, <1>3 DEF OthersWait
    <2> QED
      BY <2>1 DEF Plan!Fresh
  <1>4. ASSUME Plan!Writers \subseteq {s}
        PROVE  Plan!Writers' = IF step'[s] = "write" THEN {s} ELSE {}
    BY <1>4 DEF Plan!Writers, OthersWait
  <1>5. CASE spoiled \/ s \in behind
    BY <1>1, <1>5, PlanParts
  <1>6. CASE Doomed /\ s \notin behind
    BY <1>2, <1>6, PlanParts DEF Doomed
  <1>7. CASE OneWriter
    <2>1. PICK w \in Plan!Writers : Plan!Writers = {w} /\ Plan!WillKeep(w)
      BY <1>7 DEF OneWriter
    <2>2. CASE w # s
      BY <1>2, <2>2, PlanParts
    <2>3. CASE w = s
      <3>1. /\ step'[s] # "write" /\ Plan!Kept' /\ Plan!Fresh(s)'
            /\ Plan!Writers' = {}
        BY <1>4, <2>1, <2>3 DEF Plan!Writers
      <3>2. Steady'
        BY <1>3, <3>1 DEF Steady
      <3> QED
        BY <3>2, PlanParts
    <2> QED
      BY <2>2, <2>3
  <1>8. CASE Steady /\ s \notin behind
    <2>1. CASE step'[s] # "write" /\ Plan!Kept' /\ Plan!Fresh(s)'
      <3>1. Plan!Writers' = {}
        BY <1>4, <1>8, <2>1 DEF Steady
      <3>2. Steady'
        BY <1>3, <2>1, <3>1 DEF Steady
      <3> QED
        BY <3>2, PlanParts
    <2>2. CASE step'[s] = "write" /\ Plan!WillKeep(s)'
      <3>1. Plan!Writers' = {s}
        BY <1>4, <1>8, <2>2 DEF Steady
      <3>2. OneWriter'
        BY <2>2, <3>1 DEF OneWriter
      <3> QED
        BY <3>2, PlanParts
    <2> QED
      BY <1>8, <2>1, <2>2
  <1> QED
    BY <1>5, <1>6, <1>7, <1>8, PlanParts

LEMMA StopKeepsInv ==
  ASSUME Plan!PlanInv, NEW s \in Sessions, Plan!Stop(s)
  PROVE  Plan!PlanInv'
  <1>1. /\ Plan!PlanTypes' /\ OthersWait(s) /\ step'[s] = "idle" /\ own' = own /\ claimed' = claimed
        /\ spoiled \/ step[s] = "write" => spoiled'
        /\ step[s] # "write" => settings' = settings
        /\ state' # state =>
              /\ step[s] = "saving" /\ (s \in behind => spoiled')
              /\ behind' = behind \cup {t \in Sessions : step[t] # "idle"}
        /\ state' = state /\ settings' = settings => behind' = behind
        /\ Plan!Fresh(s)' /\ behind \subseteq behind'
    BY StopKeeps, PlanParts
  <1>2. CASE spoiled \/ step[s] = "write"
    BY <1>1, <1>2, PlanParts
  <1> SUFFICES ASSUME ~spoiled, step[s] # "write" PROVE Plan!PlanInv'
    BY <1>2
  <1>3. Plan!Writers' = Plan!Writers /\ s \notin Plan!Writers /\ settings' = settings
    BY <1>1 DEF OthersWait, Plan!Writers
  <1>4. CASE state' = state
    <2>1. Doomed => Doomed'
      BY <1>1, <1>3, <1>4 DEF Doomed
    <2>2. OneWriter => OneWriter'
      <3>1. ASSUME NEW w \in Plan!Writers, Plan!Writers = {w}, Plan!WillKeep(w)
            PROVE  w \in Plan!Writers' /\ Plan!Writers' = {w} /\ Plan!WillKeep(w)'
        BY <1>1, <1>3, <1>4, <3>1, WillKeepKeeps DEF Plan!Writers
      <3> QED
        BY <3>1 DEF OneWriter
    <2>3. ASSUME Steady PROVE Steady'
      <3>1. Plan!Kept'
        BY <1>1, <1>3, <1>4, <2>3 DEF Steady, Plan!Kept, Plan!ModeKept
      <3>2. ASSUME NEW t \in Sessions \ behind' PROVE Plan!Fresh(t)'
        <4>1. CASE t = s
          BY <1>1, <4>1
        <4>2. CASE t # s
          BY <1>1, <1>3, <1>4, <2>3, <3>2, <4>2, FreshKeeps DEF Steady
        <4> QED
          BY <4>1, <4>2
      <3> QED
        BY <1>3, <2>3, <3>1, <3>2 DEF Steady
    <2> QED
      BY <1>1, <2>1, <2>2, <2>3, PlanParts
  <1>5. CASE state' # state
    <2>1. /\ step[s] = "saving" /\ (s \in behind => spoiled')
          /\ behind' = behind \cup {t \in Sessions : step[t] # "idle"}
      BY <1>1, <1>5
    <2>2. CASE Doomed \/ OneWriter
      <3>1. Plan!Writers # {}
        BY <2>2 DEF Doomed, OneWriter
      <3>2. Doomed'
        BY <1>3, <2>1, <3>1 DEF Doomed, Plan!Writers
      <3> QED
        BY <1>1, <3>2, PlanParts
    <2>3. CASE Steady /\ s \notin behind
      <3>1. Plan!Fresh(s)
        BY <2>3 DEF Steady
      <3>2. settings.mode # "plan"
        BY <2>1, <3>1 DEF Plan!Fresh
      <3>3. Plan!Kept'
        BY <1>1, <1>3, <2>3, <3>2 DEF Steady, Plan!Kept, Plan!ModeKept
      <3>4. ASSUME NEW t \in Sessions \ behind' PROVE Plan!Fresh(t)'
        <4>1. step[t] = "idle"
          BY <2>1, <3>4
        <4>2. step'[t] = "idle"
          BY <1>1, <4>1 DEF OthersWait
        <4> QED
          BY <4>2 DEF Plan!Fresh
      <3> QED
        BY <1>1, <1>3, <2>3, <3>3, <3>4, PlanParts DEF Steady
    <2> QED
      BY <1>1, <2>1, <2>2, <2>3, PlanParts
  <1> QED
    BY <1>4, <1>5

LEMMA PlanNext ==
  ASSUME Plan!PlanInv, [Next]_vars
  PROVE  Plan!PlanInv'
  <1>0. Plan!PlanTypes
    BY PlanParts
  <1>1. CASE UNCHANGED planVars
    BY <1>1 DEF planVars, Plan!PlanInv, Plan!PlanTypes, Plan!Writers, Plan!WillKeep,
                Plan!Kept, Plan!ModeKept, Plan!Fresh
  <1>2. ASSUME NEW s \in Sessions,
               \/ \E t \in Plan!Tools : Plan!Call(s, t)
               \/ Plan!ReadSettings(s) \/ Plan!ReadState(s) \/ Plan!ClearState(s)
               \/ Plan!SaveState(s) \/ Plan!Truncate(s) \/ Plan!Write(s) \/ Plan!Stop(s)
        PROVE  Plan!PlanInv'
    <2>1. CASE \E t \in Plan!Tools : Plan!Call(s, t)
      BY <1>0, <2>1, CallKeeps, QuietKeeps
    <2>2. CASE Plan!ReadSettings(s)
      BY <1>0, <2>2, ReadSettingsKeeps, QuietKeeps
    <2>3. CASE Plan!ReadState(s)
      BY <1>0, <2>3, ReadStateKeeps, QuietKeeps DEF Steady
    <2>4. CASE Plan!ClearState(s)
      BY <1>0, <2>4, ClearStateKeeps, ChangeKeeps DEF Steady
    <2>5. CASE Plan!SaveState(s)
      BY <1>0, <2>5, SaveStateKeeps, ChangeKeeps DEF Steady
    <2>6. CASE Plan!Truncate(s)
      BY <1>0, <2>6, TruncateKeeps, ChangeKeeps DEF Steady
    <2>7. CASE Plan!Write(s)
      BY <1>0, <2>7, WriteSettingsKeeps, ChangeKeeps DEF Steady, Plan!Writers
    <2>8. CASE Plan!Stop(s)
      BY <2>8, StopKeepsInv
    <2> QED
      BY <1>2, <2>1, <2>2, <2>3, <2>4, <2>5, <2>6, <2>7, <2>8
  <1> QED
    BY <1>1, <1>2, NextParts DEF Plan!Next

(* tools/lib.rs, EnterPlanMode and ExitPlanMode: whatever calls of however   *)
(* many sessions interleave, plan mode costs the user no setting unless a    *)
(* write meets another session's change or stops half way, or the user       *)
(* chooses "plan" while EnterPlanMode's state file is there: ExitPlanMode    *)
(* then takes that choice back.                                              *)
THEOREM SettingsKept == Spec => []UserSettingsKept
  <1>1. Plan!PlanInv => UserSettingsKept
    BY DEF Plan!PlanInv, Plan!Writers, Plan!Kept, Plan!ModeKept,
           UserSettingsKept, Plan!UserSettingsKept
  <1> QED
    BY <1>1, PlanInit, PlanNext, PTL DEF Spec

-----------------------------------------------------------------------------
(* Hooks, policy and user before a tool.                                     *)

Vote == [event : {"pre", "post"}, said : Hooks!Says]

LEMMA SettingTypes ==
  ASSUME Hooks!CallTypes, Hooks!Started
  PROVE  /\ setting \in Settings
         /\ setting.pre \in Nat /\ setting.post \in Nat /\ setting.failure \in Nat
         /\ setting.mode \in {"met", "asks", "refused"}
         /\ Hooks!Hooks \in Nat
  <1>1. setting \in Settings
    BY DEF Hooks!CallTypes, Hooks!Started
  <1>2. setting \in Hooks!SettingType
    BY <1>1, AgentToolsAssumption DEF AgentToolsAssumption, Hooks!ToolHooksAssumption
  <1>3. /\ setting.pre \in Nat /\ setting.post \in Nat /\ setting.failure \in Nat
        /\ setting.mode \in {"met", "asks", "refused"}
    BY <1>2 DEF Hooks!SettingType
  <1>4. Hooks!Hooks \in {setting.pre, setting.post, setting.failure}
    BY DEF Hooks!Hooks
  <1> QED
    BY <1>1, <1>3, <1>4

LEMMA SaysTypes ==
  /\ \A s \in Hooks!Says : s.override \in Hooks!Overrides
  /\ Hooks!Silent \in Hooks!Says
  /\ Hooks!Silent.override = "none" /\ Hooks!Silent.updated = NoInput
  /\ Hooks!Silent.outcome = "failed"
  BY DEF Hooks!Says, Hooks!Silent, Hooks!Overrides

LEMMA HooksInit == Init => Hooks!HookInv
  <1> SUFFICES ASSUME Init PROVE Hooks!HookInv
    OBVIOUS
  <1>1. /\ setting = << >> /\ stage = "idle" /\ at = 0 /\ child = "none"
        /\ says = Hooks!Silent /\ merged = Hooks!Nothing /\ verdict = "clear"
        /\ ran = "no" /\ votes = << >>
    BY DEF Init, Hooks!Init
  <1>2. DOMAIN votes = {} /\ votes \in Seq(Vote)
    BY <1>1, EmptySeq
  <1>3. Hooks!CallTypes
    BY <1>1, <1>2, SaysTypes
       DEF Hooks!CallTypes, Hooks!Started, Hooks!Nothing, Hooks!Overrides, Vote
  <1>4. Hooks!Staged /\ Hooks!Judged
    BY <1>1 DEF Hooks!Staged, Hooks!Judged
  <1>5. Hooks!Heard("override", "none") /\ Hooks!Heard("updated", NoInput)
    BY <1>1, <1>2 DEF Hooks!Heard, Hooks!Votes, Hooks!Nothing
  <1> QED
    BY <1>1, <1>3, <1>4, <1>5 DEF Hooks!HookInv, Hooks!Started

LEMMA HeardKeeps ==
  ASSUME NEW field, NEW none, Hooks!Heard(field, none), UNCHANGED <<votes, merged>>
  PROVE  Hooks!Heard(field, none)'
  BY DEF Hooks!Heard, Hooks!Votes

(* The newest vote is the last to be heard.                                 *)
LEMMA HeardAppend ==
  ASSUME votes \in Seq(Vote), NEW v \in Vote, votes' = Append(votes, v),
         NEW field, NEW none, Hooks!Heard(field, none),
         merged'[field] = IF v.event = "pre" /\ v.said[field] # none
                            THEN v.said[field] ELSE merged[field]
  PROVE  Hooks!Heard(field, none)'
  <1> DEFINE some == {n \in Hooks!Votes("pre") : votes[n].said[field] # none}
             next == {n \in Hooks!Votes("pre")' : votes'[n].said[field] # none}
  <1>1. /\ DOMAIN votes = 1..Len(votes) /\ Len(votes) \in Nat
        /\ DOMAIN votes' = 1..(Len(votes) + 1)
        /\ votes'[Len(votes) + 1] = v
        /\ \A n \in 1..Len(votes) : votes'[n] = votes[n]
    BY AppendProperties
  <1>2. /\ some \subseteq 1..Len(votes)
        /\ next = some \cup (IF v.event = "pre" /\ v.said[field] # none
                               THEN {Len(votes) + 1} ELSE {})
        /\ \A n \in some : votes'[n] = votes[n]
    BY <1>1 DEF Hooks!Votes
  <1>3. \/ some = {} /\ merged[field] = none
        \/ \E n \in some : (\A m \in some : m <= n) /\ votes[n].said[field] = merged[field]
    BY DEF Hooks!Heard
  <1> HIDE DEF some
  <1>4. \/ next = {} /\ merged'[field] = none
        \/ \E n \in next : /\ \A m \in next : m <= n
                           /\ votes'[n].said[field] = merged'[field]
    <2> HIDE DEF next
    <2>1. CASE v.event = "pre" /\ v.said[field] # none
      <3>1. Len(votes) + 1 \in next /\ \A m \in next : m <= Len(votes) + 1
        BY <1>1, <1>2, <2>1
      <3> QED
        BY <1>1, <2>1, <3>1
    <2>2. CASE ~(v.event = "pre" /\ v.said[field] # none)
      BY <1>2, <1>3, <2>2
    <2> QED
      BY <2>1, <2>2
  <1> QED
    BY <1>4 DEF Hooks!Heard

LEMMA HeardLast ==
  ASSUME votes \in Seq(Vote), NEW field, NEW none, Hooks!Heard(field, none)
  PROVE  Hooks!LastSaid(field, none) = merged[field]
  <1> DEFINE some == {n \in Hooks!Votes("pre") : votes[n].said[field] # none}
  <1>1. some \subseteq Nat
    BY DEF Hooks!Votes
  <1>2. CASE some = {} /\ merged[field] = none
    BY <1>2 DEF Hooks!LastSaid
  <1>3. CASE \E n \in some : (\A m \in some : m <= n) /\ votes[n].said[field] = merged[field]
    <2>1. PICK n \in some : (\A m \in some : m <= n) /\ votes[n].said[field] = merged[field]
      BY <1>3
    <2> HIDE DEF some
    <2>2. \A k \in some : (\A m \in some : m <= k) => k = n
      BY <1>1, <2>1
    <2>3. (CHOOSE k \in some : \A m \in some : m <= k) = n
      BY <2>1, <2>2
    <2>4. some # {}
      BY <2>1
    <2> QED
      BY <2>1, <2>3, <2>4 DEF Hooks!LastSaid, some
  <1> QED
    BY <1>2, <1>3 DEF Hooks!Heard

LEMMA HookParts ==
  Hooks!HookInv <=>
    /\ Hooks!CallTypes /\ Hooks!Staged /\ (Hooks!Started => Hooks!VotesKept)
    /\ Hooks!Heard("override", "none") /\ Hooks!Heard("updated", NoInput)
    /\ Hooks!Judged
  BY DEF Hooks!HookInv

(* Ctrl-C, and what goes on in a hook's process.                            *)
LEMMA LooksKeep ==
  ASSUME Hooks!HookInv,
         UNCHANGED <<setting, stage, at, given, merged, verdict, ran, votes, approved>>,
         says' \in Hooks!Says, child' # "none" => at > 0
  PROVE  Hooks!HookInv'
  <1>1. Hooks!CallTypes' /\ Hooks!Staged'
    BY HookParts DEF Hooks!CallTypes, Hooks!Staged, Hooks!Started, Hooks!Hooks
  <1>2. Hooks!Started' => Hooks!VotesKept'
    BY HookParts DEF Hooks!Started, Hooks!VotesKept, Hooks!Spoken
  <1>3. Hooks!Heard("override", "none")' /\ Hooks!Heard("updated", NoInput)'
    BY HookParts, HeardKeeps
  <1>4. Hooks!Judged'
    BY HookParts DEF Hooks!Judged, Hooks!Effective
  <1> QED
    BY <1>1, <1>2, <1>3, <1>4 DEF Hooks!HookInv

(* What begins and ends a call.                                             *)
LEMMA BeginsKeep ==
  ASSUME Hooks!HookInv,
         \/ \E s \in Settings : Hooks!BeginSession(s)
         \/ \E i \in Inputs : Hooks!BeginCall(i)
         \/ Hooks!Answer
  PROVE  Hooks!HookInv'
  <1>1. /\ Hooks!CallTypes /\ Hooks!Staged /\ (Hooks!Started => Hooks!VotesKept)
        /\ Hooks!Heard("override", "none") /\ Hooks!Heard("updated", NoInput)
    BY HookParts
  <1>2. /\ stage' \in {"idle", "pre"} /\ votes' = << >> /\ merged' = Hooks!Nothing
        /\ verdict' = "clear" /\ ran' = "no" /\ at = 0 /\ at' = 0
        /\ UNCHANGED <<child, says>>
        /\ setting' \in Settings \cup {<< >>}
        /\ stage' # "idle" => setting' # << >>
    BY <1>1
       DEF Hooks!BeginSession, Hooks!BeginCall, Hooks!Answer, Hooks!CallTypes,
           Hooks!Staged, Hooks!Started
  <1>3. DOMAIN votes' = {} /\ Len(votes') = 0
        /\ votes' \in Seq([event : {"pre", "post"}, said : Hooks!Says])
    BY <1>2, EmptySeq
  <1>4. Hooks!CallTypes'
    BY <1>1, <1>2, <1>3
       DEF Hooks!CallTypes, Hooks!Started, Hooks!Nothing, Hooks!Overrides
  <1>5. Hooks!Staged' /\ Hooks!Judged'
    BY <1>1, <1>2 DEF Hooks!Staged, Hooks!Judged
  <1>6. Hooks!VotesKept'
    BY <1>2, <1>3 DEF Hooks!VotesKept, Hooks!Spoken
  <1>7. Hooks!Heard("override", "none")' /\ Hooks!Heard("updated", NoInput)'
    BY <1>2, <1>3 DEF Hooks!Heard, Hooks!Votes, Hooks!Nothing
  <1> QED
    BY <1>4, <1>5, <1>6, <1>7 DEF Hooks!HookInv

LEMMA BeginHooksKeeps ==
  ASSUME Hooks!HookInv, Hooks!BeginHooks
  PROVE  Hooks!HookInv'
  <1>1. /\ Hooks!CallTypes /\ Hooks!Staged /\ (Hooks!Started => Hooks!VotesKept)
        /\ Hooks!Heard("override", "none") /\ Hooks!Heard("updated", NoInput)
        /\ Hooks!Judged
    BY HookParts
  <1>2. /\ stage \in {"pre", "post"} /\ at = 0 /\ verdict = "clear"
        /\ Hooks!Started /\ Hooks!VotesKept
        /\ UNCHANGED <<setting, child, says, given, merged, ran, votes, approved>>
    BY <1>1 DEF Hooks!BeginHooks, Hooks!CallTypes, Hooks!Staged
  <1>3. \/ Hooks!Hooks = 0 /\ Hooks!Leave /\ at' = 0 /\ verdict' = verdict
        \/ Hooks!Leave /\ at' = 0 /\ verdict' = "cancelled"
        \/ Hooks!Hooks > 0 /\ at' = 1 /\ UNCHANGED <<stage, verdict>>
    BY <1>2, SettingTypes, <1>1 DEF Hooks!BeginHooks
  <1>4. Hooks!CallTypes'
    BY <1>1, <1>2, <1>3 DEF Hooks!CallTypes, Hooks!Started, Hooks!Leave
  <1>5. /\ setting.pre \in Nat /\ setting.post \in Nat /\ setting.failure \in Nat
        /\ Hooks!Hooks \in Nat
    BY <1>1, <1>2, SettingTypes
  <1>6. Hooks!Staged'
    BY <1>1, <1>2, <1>3, <1>5 DEF Hooks!Staged, Hooks!Hooks, Hooks!Leave
  <1>7. Hooks!VotesKept'
    <2>1. verdict' = "clear" /\ ran # "error" => Hooks!Spoken' = Hooks!Spoken
      BY <1>1, <1>2, <1>3, <1>5 DEF Hooks!Spoken, Hooks!Hooks, Hooks!Leave, Hooks!Staged
    <2> QED
      BY <1>2, <2>1 DEF Hooks!VotesKept
  <1>8. Hooks!Heard("override", "none")' /\ Hooks!Heard("updated", NoInput)'
    BY <1>1, <1>2, HeardKeeps
  <1>9. Hooks!Judged'
    BY <1>1, <1>2, <1>3 DEF Hooks!Judged, Hooks!Effective, Hooks!Staged, Hooks!Leave
  <1> QED
    BY <1>4, <1>6, <1>7, <1>8, <1>9 DEF Hooks!HookInv

LEMMA ConcludeKeeps ==
  ASSUME Hooks!HookInv, child # "none",
         NEW outcome \in {"allow", "deny", "failed", "cancelled"},
         NEW s \in Hooks!Says, Hooks!Conclude(outcome, s),
         outcome = "allow" => s.outcome = "allow",
         outcome = "cancelled" => s = Hooks!Silent
  PROVE  Hooks!HookInv'
  <1>1. /\ Hooks!CallTypes /\ Hooks!Staged /\ (Hooks!Started => Hooks!VotesKept)
        /\ Hooks!Heard("override", "none") /\ Hooks!Heard("updated", NoInput)
        /\ Hooks!Judged
    BY HookParts
  <1> DEFINE v == [event |-> stage, said |-> s]
  <1>2. /\ stage \in {"pre", "post"} /\ at > 0 /\ at <= Hooks!Hooks /\ verdict = "clear"
        /\ Hooks!Started /\ Hooks!VotesKept /\ at \in Nat
        /\ child' = "none" /\ says' = Hooks!Silent
        /\ UNCHANGED <<setting, given, ran, approved>>
    BY <1>1 DEF Hooks!Conclude, Hooks!CallTypes, Hooks!Staged
  <1>3. /\ setting.pre \in Nat /\ setting.post \in Nat /\ setting.failure \in Nat
        /\ Hooks!Hooks \in Nat
    BY <1>1, <1>2, SettingTypes
  <1>4. /\ v \in Vote /\ v.event = stage /\ v.said = s
        /\ votes \in Seq(Vote) /\ votes' = Append(votes, v)
    BY <1>1, <1>2 DEF Vote, Hooks!CallTypes, Hooks!Conclude
  <1> HIDE DEF v
  <1>5. /\ DOMAIN votes = 1..Len(votes) /\ Len(votes) \in Nat
        /\ DOMAIN votes' = 1..(Len(votes) + 1) /\ Len(votes') = Len(votes) + 1
        /\ votes'[Len(votes) + 1] = v
        /\ \A n \in 1..Len(votes) : votes'[n] = votes[n]
        /\ votes' \in Seq(Vote)
    BY <1>4, AppendProperties
  <1>6. \/ outcome = "allow" /\ at < Hooks!Hooks /\ at' = at + 1 /\ UNCHANGED <<stage, verdict>>
        \/ outcome = "allow" /\ at = Hooks!Hooks /\ at' = 0 /\ Hooks!Leave /\ verdict' = "clear"
        \/ at' = 0 /\ Hooks!Leave /\ verdict' = outcome /\ outcome # "allow"
    BY <1>2, <1>3 DEF Hooks!Conclude
  <1>7. /\ merged'.override = IF v.event = "pre" /\ v.said.override # "none"
                                THEN v.said.override ELSE merged.override
        /\ merged'.updated = IF v.event = "pre" /\ v.said.updated # NoInput
                               THEN v.said.updated ELSE merged.updated
        /\ stage # "pre" => merged' = merged
    <2>1. CASE stage = "pre" /\ outcome # "cancelled"
      BY <1>4, <2>1 DEF Hooks!Conclude, Hooks!Merge
    <2>2. CASE ~(stage = "pre" /\ outcome # "cancelled")
      <3>1. merged' = merged
        BY <2>2 DEF Hooks!Conclude
      <3> QED
        BY <1>4, <2>2, <3>1, SaysTypes
    <2> QED
      BY <2>1, <2>2
  <1>8. Hooks!Heard("override", "none")' /\ Hooks!Heard("updated", NoInput)'
    BY <1>1, <1>4, <1>7, HeardAppend
  <1>9. Hooks!CallTypes'
    BY <1>1, <1>2, <1>3, <1>4, <1>5, <1>6, <1>7, SaysTypes
       DEF Hooks!CallTypes, Hooks!Started, Hooks!Leave, Vote
  <1>10. Hooks!Staged'
    BY <1>1, <1>2, <1>3, <1>6 DEF Hooks!Staged, Hooks!Hooks, Hooks!Leave
  <1>11. /\ stage = "pre" => ran = "no" /\ Len(votes) = at - 1 /\ Len(votes) < setting.pre
                             /\ Hooks!Hooks = setting.pre
         /\ stage = "post" => ran # "no" /\ Len(votes) >= setting.pre
         /\ stage = "post" /\ ran = "ok" => Len(votes) = setting.pre + (at - 1)
                                            /\ Hooks!Hooks = setting.post
    BY <1>1, <1>2, <1>3, <1>5
       DEF Hooks!VotesKept, Hooks!Spoken, Hooks!Staged, Hooks!Hooks
  <1>12. Hooks!VotesKept'
    <2>1. \A n \in DOMAIN votes' :
             votes'[n].event = IF n <= setting'.pre THEN "pre" ELSE "post"
      BY <1>2, <1>3, <1>4, <1>5, <1>11 DEF Hooks!VotesKept
    <2>2. verdict' = "clear" => outcome = "allow" /\ v.said.outcome = "allow"
      BY <1>4, <1>6
    <2>3. verdict' = "clear" => \A n \in DOMAIN votes' : votes'[n].said.outcome = "allow"
      BY <1>2, <1>5, <2>2 DEF Hooks!VotesKept
    <2>4. ASSUME verdict' = "clear", ran' # "error" PROVE Len(votes') = Hooks!Spoken'
      <3>1. CASE at < Hooks!Hooks /\ at' = at + 1 /\ UNCHANGED <<stage, verdict>>
        <4>1. at' \in Nat /\ at' # 0 /\ at' - 1 = at
          BY <1>2, <3>1
        <4>2. CASE stage = "pre"
          <5>1. Hooks!Spoken' = at
            BY <3>1, <4>1, <4>2 DEF Hooks!Spoken
          <5> QED
            BY <1>2, <1>5, <1>11, <4>2, <5>1
        <4>3. CASE stage = "post"
          <5>1. Hooks!Spoken' = setting.pre + at
            BY <1>2, <3>1, <4>1, <4>3 DEF Hooks!Spoken
          <5>2. ran = "ok"
            BY <1>1, <1>2, <2>4, <4>3 DEF Hooks!Staged
          <5> QED
            BY <1>2, <1>3, <1>5, <1>11, <4>3, <5>1, <5>2
        <4> QED
          BY <1>2, <4>2, <4>3
      <3>2. CASE at = Hooks!Hooks /\ at' = 0 /\ Hooks!Leave
        <4>1. CASE stage = "pre"
          BY <1>2, <1>3, <1>5, <1>11, <3>2, <4>1 DEF Hooks!Spoken, Hooks!Leave
        <4>2. CASE stage = "post"
          <5>1. ran = "ok" /\ stage' = "answer" /\ ran' = "ok"
            BY <1>1, <1>2, <2>4, <3>2, <4>2 DEF Hooks!Leave, Hooks!Staged
          <5>2. Len(votes') = setting.pre + setting.post
            BY <1>2, <1>3, <1>5, <1>11, <3>2, <4>2, <5>1
          <5> QED
            BY <1>2, <5>1, <5>2 DEF Hooks!Spoken
        <4> QED
          BY <1>2, <4>1, <4>2
      <3> QED
        BY <1>6, <2>2, <2>4, <3>1, <3>2
    <2>5. ran' # "no" =>
            /\ Len(votes') >= setting'.pre
            /\ \A n \in 1..setting'.pre : votes'[n].said.outcome = "allow"
      BY <1>2, <1>3, <1>5, <1>11 DEF Hooks!VotesKept
    <2> QED
      BY <2>1, <2>3, <2>4, <2>5 DEF Hooks!VotesKept
  <1>13. Hooks!Judged'
    BY <1>1, <1>2, <1>6, <1>7, <1>11 DEF Hooks!Judged, Hooks!Effective, Hooks!Leave
  <1> QED
    BY <1>8, <1>9, <1>10, <1>12, <1>13 DEF Hooks!HookInv

(* The policy, the user and the tool.                                       *)
LEMMA JudgeKeeps ==
  ASSUME Hooks!HookInv, Hooks!Judge \/ Hooks!Prompt \/ Hooks!Run
  PROVE  Hooks!HookInv'
  <1>1. /\ Hooks!CallTypes /\ Hooks!Staged /\ (Hooks!Started => Hooks!VotesKept)
        /\ Hooks!Heard("override", "none") /\ Hooks!Heard("updated", NoInput)
        /\ Hooks!Judged
    BY HookParts
  <1>2. /\ stage \in {"judge", "prompt", "run"}
        /\ stage' \in {"run", "prompt", "answer", "post"}
        /\ ran = "no" /\ at = 0 /\ child = "none"
        /\ UNCHANGED <<setting, at, child, says, given, merged, verdict, votes>>
        /\ Hooks!Started /\ Hooks!VotesKept /\ merged.override \in Hooks!Overrides
    BY <1>1 DEF Hooks!Judge, Hooks!Prompt, Hooks!Run, Hooks!CallTypes, Hooks!Staged
  <1>3. /\ setting.pre \in Nat /\ setting.post \in Nat /\ setting.failure \in Nat
        /\ setting.mode \in {"met", "asks", "refused"}
    BY <1>1, <1>2, SettingTypes
  <1>4. /\ stage' = "post" => ran' \in {"ok", "error"}
        /\ stage' # "post" => ran' = "no"
        /\ stage' # "answer" => verdict = "clear"
    <2>1. CASE Hooks!Judge
      BY <1>2, <2>1 DEF Hooks!Judge
    <2>2. CASE Hooks!Prompt
      BY <1>1, <1>2, <2>2 DEF Hooks!Prompt, Hooks!Staged
    <2>3. CASE Hooks!Run
      BY <1>1, <1>2, <2>3 DEF Hooks!Run, Hooks!Staged
    <2> QED
      BY <2>1, <2>2, <2>3
  <1>5. Hooks!CallTypes'
    BY <1>1, <1>2 DEF Hooks!CallTypes, Hooks!Started
  <1>6. Hooks!Staged'
    BY <1>1, <1>2, <1>4 DEF Hooks!Staged
  <1>7. Hooks!VotesKept'
    <2>1. Hooks!Spoken = setting.pre /\ (stage' # "answer" \/ ran' = "no")
      BY <1>2, <1>4 DEF Hooks!Spoken
    <2>2. verdict = "clear" /\ ran' # "error" => Hooks!Spoken' = setting.pre
      BY <1>2, <1>3, <1>4 DEF Hooks!Spoken
    <2>3. verdict = "clear" =>
            /\ Len(votes) = setting.pre
            /\ \A n \in DOMAIN votes : votes[n].said.outcome = "allow"
      BY <1>2, <2>1 DEF Hooks!VotesKept
    <2>4. DOMAIN votes = 1..Len(votes)
      BY <1>1 DEF Hooks!CallTypes
    <2> QED
      BY <1>2, <1>3, <1>4, <2>2, <2>3, <2>4 DEF Hooks!VotesKept
  <1>8. Hooks!Heard("override", "none")' /\ Hooks!Heard("updated", NoInput)'
    BY <1>1, <1>2, HeardKeeps
  <1>9. Hooks!Judged'
    <2> DEFINE i == Hooks!Effective
    <2>1. Hooks!Effective' = i
      BY <1>2 DEF Hooks!Effective
    <2> HIDE DEF i
    <2>2. CASE Hooks!Judge
      <3>1. /\ stage' \in {"run", "prompt"} =>
                  i \notin setting.deny /\ merged.override # "deny"
            /\ stage' = "run" =>
                  /\ i \notin setting.ask /\ merged.override # "ask"
                  /\ i \in setting.allow \/ setting.mode = "met"
            /\ stage' # "post"
        BY <1>2, <2>2 DEF Hooks!Judge, Hooks!Decision, Hooks!Overrides, i
      <3> QED
        BY <1>2, <1>4, <2>1, <3>1 DEF Hooks!Judged
    <2>3. CASE Hooks!Prompt
      <3>1. /\ i \notin setting.deny /\ merged.override # "deny"
            /\ stage' = "answer" \/ i \in approved'
        BY <1>1, <2>3 DEF Hooks!Prompt, Hooks!Judged, i
      <3> QED
        BY <1>2, <1>4, <2>1, <2>3, <3>1 DEF Hooks!Judged, Hooks!Prompt
    <2>4. CASE Hooks!Run
      BY <1>1, <1>2, <2>1, <2>4 DEF Hooks!Run, Hooks!Judged, i
    <2> QED
      BY <2>2, <2>3, <2>4
  <1> QED
    BY <1>5, <1>6, <1>7, <1>8, <1>9 DEF Hooks!HookInv

LEMMA HooksNext ==
  ASSUME Hooks!HookInv, [Next]_vars
  PROVE  Hooks!HookInv'
  <1>1. says \in Hooks!Says /\ (child # "none" => at > 0)
    BY HookParts DEF Hooks!CallTypes, Hooks!Staged
  <1>2. CASE UNCHANGED hookVars
    BY <1>1, <1>2, LooksKeep DEF hookVars
  <1>3. CASE Hooks!Interrupt \/ Hooks!Spawn \/ Hooks!Fed \/ Hooks!Poll \/ Hooks!PipesClose
    BY <1>1, <1>3, LooksKeep
       DEF Hooks!Interrupt, Hooks!Spawn, Hooks!Fed, Hooks!Poll, Hooks!PipesClose
  <1>4. ASSUME NEW s \in Hooks!Says, Hooks!HookExits(s) PROVE Hooks!HookInv'
    BY <1>1, <1>4, LooksKeep DEF Hooks!HookExits
  <1>5. CASE \/ \E s \in Settings : Hooks!BeginSession(s)
             \/ \E i \in Inputs : Hooks!BeginCall(i)
             \/ Hooks!Answer
    BY <1>5, BeginsKeep
  <1>6. CASE Hooks!HookFails
    BY <1>6, ConcludeKeeps, SaysTypes DEF Hooks!HookFails
  <1>7. CASE Hooks!Collect
    <2>1. child # "none" /\ says.outcome \in {"allow", "deny", "failed"}
      BY <1>1, <1>7 DEF Hooks!Collect, Hooks!Says
    <2>2. \/ Hooks!Conclude("cancelled", Hooks!Silent)
          \/ Hooks!Conclude(says.outcome, says)
      BY <1>7 DEF Hooks!Collect
    <2>3. CASE Hooks!Conclude("cancelled", Hooks!Silent)
      BY <2>1, <2>3, ConcludeKeeps, SaysTypes
    <2>4. CASE Hooks!Conclude(says.outcome, says)
      BY <1>1, <2>1, <2>4, ConcludeKeeps
    <2> QED
      BY <2>2, <2>3, <2>4
  <1>8. CASE Hooks!BeginHooks
    BY <1>8, BeginHooksKeeps
  <1>9. CASE Hooks!Judge \/ Hooks!Prompt \/ Hooks!Run
    BY <1>9, JudgeKeeps
  <1> QED
    BY <1>2, <1>3, <1>4, <1>5, <1>6, <1>7, <1>8, <1>9, NextParts DEF Hooks!Next

(* hooks.rs, permissions.rs: hooks, policy and user have cleared exactly the *)
(* input that is run, however often hooks replace it, and a result that is   *)
(* no error means that the tool and every hook after it went well.           *)
LEMMA HookInvSuffices ==
  ASSUME Hooks!HookInv
  PROVE  ClearedBeforeExecuted /\ ResultHonest
  <1>1. /\ Hooks!CallTypes /\ Hooks!Staged /\ (Hooks!Started => Hooks!VotesKept)
        /\ Hooks!Judged
        /\ Hooks!LastSaid("override", "none") = merged.override
        /\ Hooks!LastSaid("updated", NoInput) = merged.updated
    BY HookParts, HeardLast DEF Hooks!CallTypes, Vote
  <1>2. DOMAIN votes = 1..Len(votes) /\ Len(votes) \in Nat
    BY <1>1 DEF Hooks!CallTypes
  <1>3. ASSUME stage = "run" \/ ran # "no"
        PROVE  /\ Hooks!VotesKept /\ setting.pre \in Nat /\ setting.post \in Nat
               /\ Hooks!Votes("pre") = 1..setting.pre
               /\ \A n \in Hooks!Votes("pre") : votes[n].said.outcome = "allow"
    <2>1. Hooks!Started
      BY <1>1, <1>3 DEF Hooks!CallTypes, Hooks!Staged
    <2>2. setting.pre \in Nat /\ setting.post \in Nat
      BY <1>1, <2>1, SettingTypes
    <2>3. Hooks!VotesKept
      BY <1>1, <2>1
    <2>4. /\ Len(votes) >= setting.pre
          /\ \A n \in 1..setting.pre : votes[n].said.outcome = "allow"
      BY <1>1, <1>2, <1>3, <2>2, <2>3 DEF Hooks!VotesKept, Hooks!Staged, Hooks!Spoken
    <2>5. Hooks!Votes("pre") = 1..setting.pre
      BY <1>2, <2>2, <2>3, <2>4 DEF Hooks!Votes, Hooks!VotesKept
    <2> QED
      BY <2>2, <2>3, <2>4, <2>5
  <1>4. ClearedBeforeExecuted
    <2> SUFFICES ASSUME stage = "run" \/ ran # "no"
                 PROVE  LET i == IF Hooks!LastSaid("updated", NoInput) = NoInput
                                   THEN given ELSE Hooks!LastSaid("updated", NoInput)
                            override == Hooks!LastSaid("override", "none")
                        IN  /\ Hooks!Effective = i
                            /\ Hooks!Votes("pre") = 1..setting.pre
                            /\ \A n \in Hooks!Votes("pre") : votes[n].said.outcome = "allow"
                            /\ i \notin setting.deny /\ override # "deny"
                            /\ i \in setting.ask \/ override = "ask"
                                 \/ (i \notin setting.allow /\ setting.mode # "met")
                                 => i \in approved
      BY DEF ClearedBeforeExecuted, Hooks!ClearedBeforeExecuted
    <2> DEFINE last == Hooks!LastSaid("updated", NoInput)
    <2>1. Hooks!Effective = IF last = NoInput THEN given ELSE last
      BY <1>1 DEF Hooks!Effective
    <2>2. /\ Hooks!Effective \notin setting.deny /\ merged.override # "deny"
          /\ \/ Hooks!Effective \in approved
             \/ /\ Hooks!Effective \notin setting.ask /\ merged.override # "ask"
                /\ Hooks!Effective \in setting.allow \/ setting.mode = "met"
      BY <1>1 DEF Hooks!Judged, Hooks!Staged
    <2> QED
      BY <1>1, <1>3, <2>1, <2>2
  <1>5. ResultHonest
    <2> SUFFICES ASSUME stage = "answer", ran = "ok", verdict = "clear"
                 PROVE  /\ Hooks!Votes("post") =
                             (setting.pre + 1)..(setting.pre + setting.post)
                        /\ \A n \in Hooks!Votes("post") : votes[n].said.outcome = "allow"
      BY DEF ResultHonest, Hooks!ResultHonest, Hooks!IsError
    <2>1. Len(votes) = setting.pre + setting.post
      BY <1>3 DEF Hooks!VotesKept, Hooks!Spoken
    <2> QED
      BY <1>2, <1>3, <2>1 DEF Hooks!VotesKept, Hooks!Votes
  <1> QED
    BY <1>4, <1>5

(* hooks.rs, permissions.rs, run_turn: what is run is the input that hooks,  *)
(* policy and user have cleared, however often hooks replaced it before.     *)
THEOREM Cleared == Spec => []ClearedBeforeExecuted
  BY HooksInit, HooksNext, HookInvSuffices, PTL DEF Spec

(* run_turn: a result that is no error means that the tool was run and that  *)
(* it and every hook after it went well.                                     *)
THEOREM ResultsHonest == Spec => []ResultHonest
  BY HooksInit, HooksNext, HookInvSuffices, PTL DEF Spec

LEMMA AfterInit == Init => Hooks!AfterInv
  BY DEF Init, Hooks!Init, Hooks!AfterInv, Hooks!Started

LEMMA AfterNext ==
  ASSUME Hooks!HookInv, Hooks!AfterInv, [Next]_vars
  PROVE  Hooks!AfterInv'
  <1>1. /\ Hooks!CallTypes /\ Hooks!Staged
        /\ Hooks!Started => setting.pre \in Nat
    BY HookParts, SettingTypes
  <1> USE DEF Hooks!AfterInv, Hooks!Started
  <1>2. CASE UNCHANGED <<setting, after, stage, at, verdict>> /\ (aborted => aborted')
    BY <1>2
  <1>3. CASE UNCHANGED hookVars
    BY <1>2, <1>3 DEF hookVars
  <1>4. CASE \/ Hooks!Interrupt \/ Hooks!Spawn \/ Hooks!Fed \/ Hooks!Poll \/ Hooks!PipesClose
             \/ \E s \in Hooks!Says : Hooks!HookExits(s)
    BY <1>2, <1>4 DEF Hooks!Interrupt, Hooks!Spawn, Hooks!Fed, Hooks!Poll,
                      Hooks!PipesClose, Hooks!HookExits
  <1>5. ASSUME NEW s \in Settings, Hooks!BeginSession(s) PROVE Hooks!AfterInv'
    BY <1>5 DEF Hooks!BeginSession
  <1>6. ASSUME NEW i \in Inputs, Hooks!BeginCall(i) PROVE Hooks!AfterInv'
    BY <1>1, <1>6 DEF Hooks!BeginCall, Hooks!Staged, Hooks!CallTypes
  <1>7. CASE Hooks!BeginHooks
    <2>1. stage = "pre" => Hooks!Hooks = setting.pre
      BY DEF Hooks!Hooks
    <2> QED
      BY <1>1, <1>7, <2>1 DEF Hooks!BeginHooks, Hooks!Leave, Hooks!CallTypes
  <1>8. ASSUME NEW outcome, NEW s, Hooks!Conclude(outcome, s), child # "none"
        PROVE  Hooks!AfterInv'
    <2>1. /\ stage \in {"pre", "post"} /\ at > 0 /\ UNCHANGED <<setting, after, aborted>>
          /\ stage' = stage \/ Hooks!Leave
      BY <1>1, <1>8 DEF Hooks!Conclude, Hooks!Staged
    <2> QED
      BY <1>1, <2>1 DEF Hooks!Leave
  <1>9. CASE Hooks!HookFails \/ Hooks!Collect
    BY <1>8, <1>9 DEF Hooks!HookFails, Hooks!Collect
  <1>10. CASE Hooks!Judge
    BY <1>1, <1>10 DEF Hooks!Judge
  <1>11. CASE Hooks!Prompt
    BY <1>11 DEF Hooks!Prompt
  <1>12. CASE Hooks!Run
    <2>1. stage = "run" /\ stage' = "post" /\ UNCHANGED <<setting, aborted, verdict, at>>
          /\ after' = IF aborted THEN after + 1 ELSE after
      BY <1>12 DEF Hooks!Run
    <2>2. setting # << >>
      BY <1>1, <2>1 DEF Hooks!CallTypes
    <2>3. setting.pre > 0 => after = 0
      BY <2>1, <2>2
    <2> QED
      BY <2>1, <2>2, <2>3
  <1>13. CASE Hooks!Answer
    BY <1>13 DEF Hooks!Answer
  <1> QED
    BY <1>3, <1>4, <1>5, <1>6, <1>7, <1>9, <1>10, <1>11, <1>12, <1>13, NextParts
       DEF Hooks!Next

(* hooks.rs: with hooks before tools, at most the tool that was cleared      *)
(* before Ctrl-C still runs after it.                                        *)
THEOREM OneToolAfterInterrupt == Spec => []Hooks!OneAfterInterrupt
  <1>1. Hooks!AfterInv => Hooks!OneAfterInterrupt
    BY DEF Hooks!AfterInv, Hooks!OneAfterInterrupt
  <1> QED
    BY <1>1, HooksInit, HooksNext, AfterInit, AfterNext, PTL DEF Spec
=============================================================================
