-------------------------- MODULE TransactionalPatch --------------------------
(***************************************************************************)
(* rust/crates/runtime/src/transactional_patch.rs: a patch of a file reads *)
(* it, writes the new text to a staging file and renames that over it, and *)
(* a rollback does the same with the text read before.  A staging file is  *)
(* named after the file and the process: calls of one process that patch   *)
(* one file at a time share it.  A file is what a name, or a call that has *)
(* opened it, refers to, so that a name may be renamed under a call that   *)
(* is writing.  A text is the set of patches it has.                       *)
(***************************************************************************)
EXTENDS Naturals

CONSTANTS
    Calls,          \* calls of validate_and_apply_patch, one patch each
    Processes,
    ProcessOf,      \* the process of a call
    NoFile,
    MaxFiles        \* bound: files, of which those without a name are free

TransactionalPatchAssumption ==
    ProcessOf \in [Calls -> Processes] /\ MaxFiles \in Nat \ {0} /\ NoFile \notin Nat

VARIABLES
    target,     \* the file that has the target's name
    staged,     \* the file that has each staging name
    text,       \* the text of each file
    phase,      \* where each call is
    open,       \* the file each call has open
    base,       \* the text each call has read
    shared      \* history: two calls had one staging file open

patchVars == <<target, staged, text, phase, open, base, shared>>

Files == 1..MaxFiles
Names == Processes \X {"patch", "rollback"}

\* Not a whole text: an empty file, a piece, or the mixture of two.
Part == {NoFile}

Init ==
    /\ target = 1
    /\ staged = [n \in Names |-> NoFile]
    /\ text = [f \in Files |-> {}]
    /\ phase = [c \in Calls |-> "read"]
    /\ open = [c \in Calls |-> NoFile]
    /\ base = [c \in Calls |-> {}]
    /\ shared = FALSE

Goto(c, next) == phase' = [phase EXCEPT ![c] = next]

\* with_extension: tmp_<pid>, or tmp_rb_<pid> of a rollback.
StagingName(c) ==
    <<ProcessOf[c],
      IF phase[c] \in {"create", "write", "rename"} THEN "patch" ELSE "rollback">>

NewText(c) ==
    IF phase[c] \in {"create", "write", "rename"} THEN base[c] \cup {c} ELSE base[c]

Free ==
    {f \in Files : /\ f # target
                   /\ \A n \in Names : staged[n] # f
                   /\ \A c \in Calls : open[c] # f}

-----------------------------------------------------------------------------
\* The expected hash is that of the text, if one is given, and the hunks are
\* found, or the call ends.
Read(c) ==
    /\ phase[c] = "read"
    /\ \/ /\ text[target] # Part
          /\ base' = [base EXCEPT ![c] = text[target]]
          /\ Goto(c, "create")
       \/ Goto(c, "over") /\ UNCHANGED base
    /\ UNCHANGED <<target, staged, text, open, shared>>

\* File::create: a staging file that is there is truncated, and used.
Create(c) ==
    LET name == StagingName(c)
        f == IF staged[name] = NoFile THEN CHOOSE g \in Free : TRUE ELSE staged[name]
    IN  /\ staged[name] # NoFile \/ Free # {}
        /\ \/ phase[c] = "create" /\ Goto(c, "write")
           \/ phase[c] = "recreate" /\ Goto(c, "rewrite")
        /\ staged' = [staged EXCEPT ![name] = f]
        /\ open' = [open EXCEPT ![c] = f]
        /\ text' = [text EXCEPT ![f] = Part]
        /\ shared' = (shared \/ \E d \in Calls \ {c} : open[d] = f)
        /\ UNCHANGED <<target, base>>

Write_Unsynced(c) ==                                           \* mutated
    /\ \/ phase[c] = "write" /\ Goto(c, "rename")
       \/ phase[c] = "rewrite" /\ Goto(c, "replace")
    /\ \/ text' = [text EXCEPT ![open[c]] = NewText(c)]
       \/ UNCHANGED text
    /\ UNCHANGED <<target, staged, open, base, shared>>

\* write_all and sync_all: on top of what another call has written there.
Write(c) ==
    /\ \/ phase[c] = "write" /\ Goto(c, "rename")
       \/ phase[c] = "rewrite" /\ Goto(c, "replace")
    /\ text' = [text EXCEPT ![open[c]] = IF @ = Part THEN NewText(c) ELSE Part]
    /\ UNCHANGED <<target, staged, open, base, shared>>

\* The staging file takes the target's name, if it is still there.
Rename(c) ==
    LET name == StagingName(c)
    IN  /\ phase[c] \in {"rename", "replace"}
        /\ IF staged[name] = NoFile
             THEN Goto(c, "over") /\ UNCHANGED <<target, staged>>
             ELSE /\ target' = staged[name]
                  /\ staged' = [staged EXCEPT ![name] = NoFile]
                  /\ Goto(c, IF phase[c] = "rename" THEN "applied" ELSE "restored")
        /\ open' = [open EXCEPT ![c] = NoFile]
        /\ UNCHANGED <<text, base, shared>>

\* rollback_transaction, with the record of a patch that was applied.
Rollback(c) ==
    /\ phase[c] = "applied" /\ Goto(c, "recreate")
    /\ UNCHANGED <<target, staged, text, open, base, shared>>

\* An operation fails or the process ends: the staging file is left behind.
Stop(c) ==
    /\ phase[c] \in {"create", "write", "rename", "recreate", "rewrite", "replace"}
    /\ Goto(c, "over")
    /\ open' = [open EXCEPT ![c] = NoFile]
    /\ base' = [base EXCEPT ![c] = {}]
    /\ UNCHANGED <<target, staged, text, shared>>

Next ==
    \E c \in Calls :
        Read(c) \/ Create(c) \/ Write(c) \/ Rename(c) \/ Rollback(c) \/ Stop(c)

Spec == Init /\ [][Next]_patchVars
-----------------------------------------------------------------------------
\* Who reads the target finds the whole text that a call meant to give it, and
\* finds it only once the call has succeeded: wherever calls overlap, fail or
\* end, and whatever staging files they leave, nothing else shows, unless two
\* calls of one process had the same staging file open.
PatchIsAtomic ==
    [][~shared' /\ text'[target'] # text[target] =>
          \E c \in Calls :
              \/ phase'[c] = "applied" /\ phase[c] = "rename"
                 /\ text'[target'] = base[c] \cup {c}
              \/ phase'[c] = "restored" /\ phase[c] = "replace"
                 /\ text'[target'] = base[c]]_patchVars
-----------------------------------------------------------------------------
(* Why PatchIsAtomic holds: a staging file that was never shared is the work *)
(* of the one call that has it open, and is not the target.                  *)

PatchTypes ==
    /\ target \in Files
    /\ staged \in [Names -> Files \cup {NoFile}]
    /\ text \in [Files -> SUBSET (Calls \cup Part)]
    /\ phase \in [Calls -> {"read", "create", "write", "rename", "applied", "recreate",
                            "rewrite", "replace", "restored", "over"}]
    /\ open \in [Calls -> Files \cup {NoFile}]
    /\ base \in [Calls -> SUBSET (Calls \cup Part)]

\* No file has two names.
NamesApart ==
    /\ \A n \in Names : staged[n] # target
    /\ \A m, n \in Names : staged[m] = staged[n] /\ staged[m] # NoFile => m = n

Working(c) == phase[c] \in {"write", "rename", "rewrite", "replace"}

OwnFile(c) ==
    IF Working(c) THEN /\ open[c] # NoFile /\ staged[StagingName(c)] = open[c]
                       /\ text[open[c]] = IF phase[c] \in {"write", "rewrite"}
                                            THEN Part ELSE NewText(c)
                  ELSE open[c] = NoFile

OpenApart ==
    \A c, d \in Calls : open[c] = open[d] /\ open[c] # NoFile => c = d

PatchInv ==
    /\ PatchTypes /\ NamesApart
    /\ ~shared => OpenApart /\ \A c \in Calls : OwnFile(c)
=============================================================================
