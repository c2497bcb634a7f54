----------------------------- MODULE MC_JobQueue -----------------------------
(* Instances of JobQueue for TLC.  Callers, workers and keys are           *)
(* interchangeable, so the runs without temporal properties use symmetry.  *)
EXTENDS JobQueue, TLC

Symmetry == Permutations(Clients) \cup Permutations(Workers)
                \cup Permutations(Keys)

\* No action reads `reply`: two states that differ only there are the same.
View == <<dbVars, taskVars, workerVars, cpc, want, target, flagVars, permits,
          boundVars>>

\* And while no processor emits (MaxLog = 0), none reads the log or the message.
SubmitView == <<stored, state, key, taskVars, workerVars, cpc, want, target,
                flagVars, permits, boundVars>>
=============================================================================
