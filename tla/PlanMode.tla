------------------------------- MODULE PlanMode -------------------------------
(***************************************************************************)
(* The tools of rust/crates/tools/src/lib.rs that change the settings of a *)
(* worktree: EnterPlanMode puts the default permission mode to "plan" and  *)
(* saves the user's own mode in a state file, ExitPlanMode puts it back,   *)
(* and Config sets a value for the user.                                   *)
(*                                                                         *)
(* Each reads whole files and writes whole files, in several steps and     *)
(* without a lock; a file is truncated before it is written.  Sessions in  *)
(* one worktree share the files.  A call may stop at any step, because an  *)
(* operation fails or its process ends.  The document is the mode and one  *)
(* other setting.                                                          *)
(***************************************************************************)
EXTENDS Naturals

CONSTANTS
    Sessions,
    Modes,      \* values of permissions.defaultMode: "none" stands for no value
    Others      \* values of the other setting: "none" stands for no value

PlanModeAssumption ==
    /\ {"none", "plan"} \subseteq Modes /\ "none" \in Others

VARIABLES
    settings,   \* settings.local.json
    state,      \* tool-state/plan-mode.json
    step,       \* where each session's call is
    tool,       \* the call
    document,   \* the settings as the call has read and changed them
    own,        \* history: the settings the user chose last
    claimed,    \* history: that mode is a "plan", chosen over a state file
    behind,     \* history: sessions whose files changed since they read them
    spoiled     \* history: a write met a change, or stopped half way

planVars == <<settings, state, step, tool, document, own, claimed, behind, spoiled>>

Empty == [mode |-> "none", other |-> "none", broken |-> FALSE]
NoState == [exists |-> FALSE, mode |-> "none", broken |-> FALSE]
SavedState(mode) == [exists |-> TRUE, mode |-> mode, broken |-> FALSE]

Tools == [name : {"enter", "exit"}, value : {"none"}]
            \cup [name : {"mode"}, value : Modes \ {"none"}]
            \cup [name : {"other"}, value : Others \ {"none"}]
NoTool == [name |-> "exit", value |-> "none"]

Init ==
    /\ settings = Empty /\ state = NoState
    /\ step = [s \in Sessions |-> "idle"]
    /\ tool = [s \in Sessions |-> NoTool]
    /\ document = [s \in Sessions |-> Empty]
    /\ own = Empty /\ claimed = FALSE /\ behind = {} /\ spoiled = FALSE

-----------------------------------------------------------------------------
\* The call ends, and what it has read is gone.
Ends(s) ==
    /\ step' = [step EXCEPT ![s] = "idle"]
    /\ tool' = [tool EXCEPT ![s] = NoTool]
    /\ document' = [document EXCEPT ![s] = Empty]

Goes(s, next) == step' = [step EXCEPT ![s] = next] /\ UNCHANGED tool

\* s changes a file that the other calls under way may have read.
Changes(s) ==
    /\ behind' = (behind \cup {t \in Sessions : step[t] # "idle"}) \ {s}
    /\ spoiled' = (spoiled \/ s \in behind)

Call(s, t) ==
    /\ step[s] = "idle"
    /\ step' = [step EXCEPT ![s] = "read"]
    /\ tool' = [tool EXCEPT ![s] = t]
    /\ behind' = behind \ {s}
    /\ UNCHANGED <<settings, state, document, own, claimed, spoiled>>

\* read_json_object: a file that does not parse is an error.
ReadSettings(s) ==
    /\ step[s] = "read"
    /\ CASE settings.broken -> Ends(s)
         [] ~settings.broken /\ tool[s].name \in {"mode", "other"} ->
               /\ document' = [document EXCEPT ![s] =
                                  [settings EXCEPT ![tool[s].name] = tool[s].value]]
               /\ Goes(s, "truncate")
         [] OTHER ->
               /\ document' = [document EXCEPT ![s] = settings]
               /\ Goes(s, "state")
    /\ UNCHANGED <<settings, state, own, claimed, behind, spoiled>>

InPlan(s) == document[s].mode = "plan"

Enter_KeepsStale(s) ==                                         \* mutated
    CASE InPlan(s) -> Ends(s)
      [] ~InPlan(s) /\ state.exists ->
            /\ document' = [document EXCEPT ![s].mode = "plan"]
            /\ Goes(s, "truncate")
      [] OTHER -> Goes(s, "save") /\ UNCHANGED document

\* A plan mode that is already on is left as it is; a state whose mode is off
\* is stale.
Enter(s) ==
    CASE InPlan(s) -> Ends(s)
      [] ~InPlan(s) /\ state.exists -> Goes(s, "clear") /\ UNCHANGED document
      [] OTHER -> Goes(s, "save") /\ UNCHANGED document

\* Only a mode that EnterPlanMode set is taken back.
Exit(s) ==
    CASE ~state.exists -> Ends(s)
      [] state.exists /\ ~InPlan(s) -> Goes(s, "clear") /\ UNCHANGED document
      [] OTHER ->
            /\ document' = [document EXCEPT ![s].mode = state.mode]
            /\ Goes(s, "truncate")

ReadState(s) ==
    /\ step[s] = "state"
    /\ CASE state.broken -> Ends(s)
         [] ~state.broken /\ tool[s].name = "enter" -> Enter(s)
         [] OTHER -> Exit(s)
    /\ UNCHANGED <<settings, state, own, claimed, behind, spoiled>>

\* clear_plan_mode_state: of a stale state, or at the end of an exit.
ClearState(s) ==
    /\ step[s] = "clear"
    /\ state' = NoState
    /\ IF tool[s].name = "enter" THEN Goes(s, "save") /\ UNCHANGED document ELSE Ends(s)
    /\ Changes(s)
    /\ UNCHANGED <<settings, own, claimed>>

\* write_plan_mode_state: an empty file reads as no state.
SaveState(s) ==
    /\ \/ step[s] = "save" /\ state' = NoState /\ Goes(s, "saving") /\ UNCHANGED document
       \/ /\ step[s] = "saving" /\ state' = SavedState(document[s].mode)
          /\ document' = [document EXCEPT ![s].mode = "plan"]
          /\ Goes(s, "truncate")
    /\ Changes(s)
    /\ UNCHANGED <<settings, own, claimed>>

\* write_json_object: an empty file reads as no settings.
Truncate(s) ==
    /\ step[s] = "truncate"
    /\ settings' = Empty
    /\ Goes(s, "write")
    /\ Changes(s)
    /\ UNCHANGED <<state, document, own, claimed>>

Write(s) ==
    /\ step[s] = "write"
    /\ settings' = document[s]
    /\ own' = IF tool[s].name \in {"mode", "other"}
                THEN [own EXCEPT ![tool[s].name] = tool[s].value] ELSE own
    /\ claimed' = IF tool[s].name = "mode"
                    THEN tool[s].value = "plan" /\ state.exists ELSE claimed
    /\ IF tool[s].name = "exit" THEN Goes(s, "clear") /\ UNCHANGED document ELSE Ends(s)
    /\ Changes(s)
    /\ UNCHANGED state

\* An operation on a file fails, or the process ends.
Stop(s) ==
    /\ step[s] # "idle"
    /\ Ends(s)
    /\ settings' \in (IF step[s] = "write" THEN {settings, [Empty EXCEPT !.broken = TRUE]}
                                           ELSE {settings})
    /\ state' \in (IF step[s] = "saving" THEN {state, [NoState EXCEPT !.broken = TRUE]}
                                         ELSE {state})
    /\ LET changed == <<settings', state'>> # <<settings, state>>
       IN  /\ behind' = IF changed
                          THEN behind \cup {t \in Sessions : step[t] # "idle"}
                          ELSE behind
           /\ spoiled' = (spoiled \/ step[s] = "write" \/ (changed /\ s \in behind))
    /\ UNCHANGED <<own, claimed>>

Next ==
    \E s \in Sessions :
        \/ \E t \in Tools : Call(s, t)
        \/ ReadSettings(s) \/ ReadState(s) \/ ClearState(s) \/ SaveState(s)
        \/ Truncate(s) \/ Write(s) \/ Stop(s)

Spec == Init /\ [][Next]_planVars
-----------------------------------------------------------------------------
\* Plan mode costs the user a setting in three cases only: a write met another
\* session's change; a write stopped half way; or the user chose "plan" while a
\* state file was there, because plan mode was on or because an EnterPlanMode
\* was cut off between its two files, so that ExitPlanMode takes the choice for
\* its own and takes it back.  Otherwise what the user chose last, "plan" too,
\* is in the settings, or plan mode is on and the state file gives it back.
UserSettingsKept ==
    ~spoiled /\ (\A s \in Sessions : step[s] # "write") =>
        /\ settings.other = own.other
        /\ \/ claimed
           \/ settings.mode = own.mode
           \/ settings.mode = "plan" /\ state = SavedState(own.mode)
-----------------------------------------------------------------------------
(* Why UserSettingsKept holds: a call that no other has overtaken works on   *)
(* what the files hold.                                                      *)

Setting == [mode : Modes, other : Others, broken : BOOLEAN]

PlanTypes ==
    /\ settings \in Setting /\ document \in [Sessions -> Setting]
    /\ tool \in [Sessions -> Tools]
    /\ step \in [Sessions -> {"idle", "read", "state", "clear", "save", "saving",
                              "truncate", "write"}]
    /\ own \in Setting /\ claimed \in BOOLEAN /\ behind \subseteq Sessions /\ spoiled \in BOOLEAN
    /\ state.mode \in Modes

\* A "plan" of the user's that is not claimed has no state file beside it.
ModeKept(mode) ==
    \/ claimed
    \/ mode = own.mode /\ (own.mode = "plan" => ~state.exists)
    \/ own.mode # "plan" /\ mode = "plan" /\ state = SavedState(own.mode)

Kept == settings.other = own.other /\ ModeKept(settings.mode)

\* What a call that nobody has overtaken knows of the files, by where it is.
Fresh(s) ==
    LET enters == tool[s].name = "enter"
        exits == tool[s].name = "exit"
        off == document[s] = settings /\ settings.mode # "plan"
    IN  /\ step[s] = "state" => document[s] = settings /\ (enters \/ exits)
        /\ step[s] = "clear" =>
              \/ enters /\ off
              \/ exits /\ (claimed \/ settings.mode = own.mode)
        /\ step[s] \in {"save", "saving"} => enters /\ off
        /\ step[s] = "saving" => state = NoState
        /\ step[s] = "truncate" =>
              /\ tool[s].name # "mode" => document[s].mode =
                    CASE enters -> "plan" [] exits -> state.mode [] OTHER -> settings.mode
              /\ tool[s].name = "mode" => document[s].mode = tool[s].value
              /\ document[s].other =
                    IF tool[s].name = "other" THEN tool[s].value ELSE settings.other
              /\ enters => settings.mode # "plan" /\ state = SavedState(settings.mode)
              /\ exits => settings.mode = "plan" /\ state.exists

\* The file that the call is about to write keeps the user's settings.
WillKeep(s) ==
    /\ document[s].other = IF tool[s].name = "other" THEN tool[s].value ELSE own.other
    /\ IF tool[s].name = "mode" THEN document[s].mode = tool[s].value
                                ELSE ModeKept(document[s].mode)
    /\ tool[s].name = "exit" =>
          claimed \/ (document[s].mode = own.mode /\ own.mode # "plan")

Writers == {s \in Sessions : step[s] = "write"}

\* Unless a writer has been overtaken, which its write will show, the one
\* writer will keep the settings, or they are kept.
PlanInv ==
    /\ PlanTypes
    /\ spoiled \/ Writers \cap behind # {}
          \/ (\E w \in Writers : Writers = {w} /\ WillKeep(w))
          \/ (Writers = {} /\ Kept /\ \A s \in Sessions \ behind : Fresh(s))
=============================================================================
