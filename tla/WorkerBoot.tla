------------------------------ MODULE WorkerBoot ------------------------------
(***************************************************************************)
(* The registry of rust/crates/runtime/src/worker_boot.rs: how a coding    *)
(* agent in a terminal is brought up, trusted and given prompts, judged by *)
(* the screens that its caller reads from the terminal.  Workers are       *)
(* independent of each other and each call holds the registry's lock, so   *)
(* one worker stands for all.  A screen is what is detected on it; nothing *)
(* is assumed about which screens come, or when.  The events of a worker   *)
(* are left out: nothing reads them.                                       *)
(***************************************************************************)
EXTENDS Naturals

CONSTANTS
    Prompts,
    NoPrompt,
    MaxAttempts     \* bound: prompts sent without a restart

WorkerBootAssumption == NoPrompt \notin Prompts /\ MaxAttempts \in Nat

VARIABLES
    worker,     \* << >> while it does not exist
    strays      \* history: misdeliveries detected since the last restart

workerVars == <<worker, strays>>

Worker ==
    [status : {"spawning", "trust_required", "ready_for_prompt", "running",
               "finished", "failed"},
     trust_auto_resolve : BOOLEAN, trust_gate_cleared : BOOLEAN,
     auto_recover : BOOLEAN, prompt_delivery_attempts : 0..MaxAttempts,
     prompt_in_flight : BOOLEAN,
     last_prompt : Prompts \cup {NoPrompt}, replay_prompt : Prompts \cup {NoPrompt},
     last_error : {"none", "trust_gate", "prompt_delivery", "provider"}]

\* detect_trust_prompt, detect_prompt_misdelivery, detect_running_cue and
\* detect_ready_for_prompt look for phrases: a screen may show any of them.
Screen == [trust : BOOLEAN, misdelivered : BOOLEAN, running : BOOLEAN, ready : BOOLEAN]

Init == worker = << >> /\ strays = 0

Exists == worker # << >>
-----------------------------------------------------------------------------
Create(auto, recover) ==
    /\ ~Exists
    /\ worker' = [status |-> "spawning", trust_auto_resolve |-> auto,
                  trust_gate_cleared |-> FALSE, auto_recover |-> recover,
                  prompt_delivery_attempts |-> 0, prompt_in_flight |-> FALSE,
                  last_prompt |-> NoPrompt, replay_prompt |-> NoPrompt,
                  last_error |-> "none"]
    /\ strays' = 0

\* The four looks that observe takes at a screen, in their order.
AtTrustGate(w, s) == ~w.trust_gate_cleared /\ s.trust

Gate(w, s) ==
    IF ~AtTrustGate(w, s) THEN w
    ELSE IF w.trust_auto_resolve
           THEN [w EXCEPT !.status = "spawning", !.trust_gate_cleared = TRUE,
                          !.last_error = "none"]
           ELSE [w EXCEPT !.status = "trust_required", !.last_error = "trust_gate"]

Stray(w, s) == s.misdelivered /\ w.prompt_in_flight /\ w.last_prompt # NoPrompt

Recover_InFlight(w) ==                                         \* mutated
    IF w.auto_recover
      THEN [w EXCEPT !.last_error = "prompt_delivery",
                     !.replay_prompt = w.last_prompt, !.status = "ready_for_prompt"]
      ELSE [w EXCEPT !.last_error = "prompt_delivery", !.status = "failed"]

Recover(w) ==
    LET stopped == [w EXCEPT !.last_error = "prompt_delivery", !.prompt_in_flight = FALSE]
    IN  IF w.auto_recover
          THEN [stopped EXCEPT !.replay_prompt = w.last_prompt,
                               !.status = "ready_for_prompt"]
          ELSE [stopped EXCEPT !.status = "failed"]

SeeRunning(w, s) ==
    IF s.running /\ w.prompt_in_flight
      THEN [w EXCEPT !.prompt_in_flight = FALSE, !.status = "running", !.last_error = "none"]
      ELSE w

SeeReady(w, s) ==
    IF s.ready /\ w.status # "ready_for_prompt"
      THEN [w EXCEPT !.status = "ready_for_prompt", !.prompt_in_flight = FALSE,
                     !.last_error = IF @ = "trust_gate" THEN "none" ELSE @]
      ELSE w

\* The first look may end the call, and so may the second.
Observe(s) ==
    LET gated == Gate(worker, s)
        blocked == AtTrustGate(worker, s) /\ ~worker.trust_auto_resolve
    IN  /\ Exists
        /\ worker' = CASE blocked -> gated
                       [] ~blocked /\ Stray(gated, s) -> Recover(gated)
                       [] OTHER -> SeeReady(SeeRunning(gated, s), s)
        /\ strays' = IF ~blocked /\ Stray(gated, s) THEN strays + 1 ELSE strays

ResolveTrust ==
    /\ Exists /\ worker.status = "trust_required"
    /\ worker' = [worker EXCEPT !.trust_gate_cleared = TRUE,
                                !.last_error = "none", !.status = "spawning"]
    /\ UNCHANGED strays

\* A prompt of the caller's, or else the one to be replayed.
SendPrompt(given) ==
    LET next == IF given # NoPrompt THEN given ELSE worker.replay_prompt
    IN  /\ Exists /\ worker.status = "ready_for_prompt" /\ next # NoPrompt
        /\ worker.prompt_delivery_attempts < MaxAttempts
        /\ worker' = [worker EXCEPT !.prompt_delivery_attempts = @ + 1,
                                    !.prompt_in_flight = TRUE, !.last_prompt = next,
                                    !.replay_prompt = NoPrompt,
                                    !.last_error = "none", !.status = "running"]
        /\ UNCHANGED strays

Restart ==
    /\ Exists
    /\ worker' = [worker EXCEPT !.status = "spawning", !.trust_gate_cleared = FALSE,
                                !.last_prompt = NoPrompt, !.replay_prompt = NoPrompt,
                                !.last_error = "none", !.prompt_delivery_attempts = 0,
                                !.prompt_in_flight = FALSE]
    /\ strays' = 0

Terminate ==
    /\ Exists
    /\ worker' = [worker EXCEPT !.status = "finished", !.prompt_in_flight = FALSE]
    /\ UNCHANGED strays

\* Without output, or with an error, the provider is to blame.
ObserveCompletion(providerFailure) ==
    /\ Exists
    /\ worker' = IF providerFailure
                   THEN [worker EXCEPT !.last_error = "provider", !.status = "failed",
                                       !.prompt_in_flight = FALSE]
                   ELSE [worker EXCEPT !.last_error = "none", !.status = "finished",
                                       !.prompt_in_flight = FALSE]
    /\ UNCHANGED strays

\* The registry is in memory only.
ProcessEnds == Exists /\ worker' = << >> /\ strays' = 0

Next ==
    \/ \E auto, recover \in BOOLEAN : Create(auto, recover)
    \/ \E s \in Screen : Observe(s)
    \/ \E p \in Prompts \cup {NoPrompt} : SendPrompt(p)
    \/ \E failure \in BOOLEAN : ObserveCompletion(failure)
    \/ ResolveTrust \/ Restart \/ Terminate \/ ProcessEnds

Spec == Init /\ [][Next]_workerVars
-----------------------------------------------------------------------------
\* Whatever the screens show, stale ones included, prompts do not pile up: a
\* worker that takes a prompt, failed or ended has none in flight; the prompt
\* to be replayed is the last one sent, which is not in flight; and each
\* sending is found to have gone astray at most once, so that no prompt is
\* replayed twice for one misdelivery.
PromptAccounted ==
    Exists =>
        /\ worker.prompt_in_flight =>
              worker.status \in {"running", "trust_required", "spawning"}
        /\ worker.replay_prompt # NoPrompt =>
              ~worker.prompt_in_flight /\ worker.replay_prompt = worker.last_prompt
        /\ strays + (IF worker.prompt_in_flight THEN 1 ELSE 0)
              <= worker.prompt_delivery_attempts
-----------------------------------------------------------------------------
\* PromptAccounted needs no more than the types to be kept by every call.
WorkerInv ==
    /\ strays \in Nat /\ (Exists => worker \in Worker)
    /\ PromptAccounted
=============================================================================
