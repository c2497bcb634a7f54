----------------------------- MODULE TerminalProofs -----------------------------
(***************************************************************************)
(* What the terminal program promises of what it keeps, for every value of *)
(* the constants.  Each part has an invariant of its own, and the steps of *)
(* the others leave its variables alone (NextParts).                       *)
(***************************************************************************)
EXTENDS Terminal, Naturals, Sequences, FiniteSets, SequenceTheorems,
        FiniteSetTheorems, TLAPS

LEMMA NextParts ==
  ASSUME [Next]_vars
  PROVE  /\ Cli!Next \/ UNCHANGED cliVars
         /\ Plugin!Next \/ UNCHANGED pluginVars
         /\ Stream!Next \/ UNCHANGED streamVars
         /\ Login!Next \/ UNCHANGED loginVars
  BY DEF Next, OnlyCli, OnlyPlugins, OnlyStream, OnlyLogin, OnlyConfig, vars

-----------------------------------------------------------------------------
(* The login.                                                                *)

\* A text that keeps the other entries is not torn, and what it holds is known.
LEMMA TextTypes ==
  /\ Login!NoTokens \in Login!TokenSets
  /\ Login!Empty \in Login!FileTexts /\ Login!Torn \in Login!FileTexts
  /\ Login!Absent \in Login!FileTexts
  /\ \A o \in BOOLEAN, t \in Login!TokenSets :
       /\ Login!Root(o, t) \in Login!FileTexts
       /\ Login!Root(o, t).others = o /\ Login!Root(o, t).oauth = t
       /\ o => Login!Root(o, t) # Login!Torn
  <1>1. MaxTokens \in Nat
    BY TerminalAssumption DEF TerminalAssumption, Login!CredentialsAssumption
  <1> QED
    BY <1>1 DEF Login!NoTokens, Login!TokenSets, Login!Empty, Login!Torn, Login!Absent,
                Login!FileTexts, Login!Root

LEMMA LoginInit == Init => Login!CredentialInv
  <1> SUFFICES ASSUME Login!Init PROVE Login!CredentialInv
    BY DEF Init, PartsInit
  <1>1. saved \in Login!FileTexts /\ staged \in Login!FileTexts /\ saved # Login!Torn /\ saved.others
    BY TextTypes DEF Login!Init
  <1>2. Login!CredentialTypes
    BY <1>1, TextTypes DEF Login!Init, Login!CredentialTypes
  <1>3. Login!OneWriter /\ \A p \in Programs : at[p] = "idle"
    BY <1>1 DEF Login!Init, Login!OneWriter
  <1> QED
    BY <1>2, <1>3 DEF Login!CredentialInv

\* What one program does with the file, `p` at work and the others not.
LoginKept(p) ==
  at[p] # "idle" /\ p \notin crossing => Login!Undisturbed(p) /\ Login!TokensHonoured(p)

\* A step that no other program notices keeps what is known of them.
LEMMA OthersUnmoved ==
  ASSUME Login!CredentialInv, NEW p \in Programs, NEW q \in Programs \ {p},
         at'[q] = at[q], command'[q] = command[q], tokens'[q] = tokens[q],
         others'[q] = others[q],
         \/ crossing' = crossing \cup (Login!Busy \ {p})
         \/ crossing' = (crossing \cup Login!Busy) \ {p}
         \/ /\ q \in crossing => q \in crossing'
            /\ opened'[q] = opened[q] /\ UNCHANGED Login!diskVars /\ live \subseteq live'
  PROVE  LoginKept(q)'
  BY DEF Login!CredentialInv, LoginKept, Login!Busy, Login!diskVars,
         Login!Undisturbed, Login!TokensHonoured

LEMMA LoginParts ==
  ASSUME Login!CredentialInv
  PROVE  /\ Login!CredentialTypes /\ Login!OneWriter
         /\ \A p \in Programs : LoginKept(p)
  BY DEF Login!CredentialInv, LoginKept

LEMMA LoginSuffices ==
  ASSUME Login!CredentialTypes', Login!OneWriter', \A p \in Programs : LoginKept(p)'
  PROVE  Login!CredentialInv'
  BY DEF Login!CredentialInv, LoginKept

LEMMA LoginTypesNext ==
  ASSUME Login!CredentialTypes, Login!Next
  PROVE  Login!CredentialTypes'
  <1> USE TextTypes DEF Login!CredentialTypes, Login!Goto, Login!diskVars, Login!serverVars
  <1>1. PICK p \in Programs :
          \/ Login!Start(p) \/ Login!Refresh(p) \/ Login!Login(p) \/ Login!Logout(p)
          \/ Login!Load(p) \/ Login!Open(p) \/ Login!Write(p) \/ Login!Rename(p)
          \/ Login!Return(p) \/ Login!Stop(p)
    BY DEF Login!Next
  <1>2. Login!Busy \subseteq Programs
    BY DEF Login!Busy
  <1>3. /\ saved \in Login!FileTexts => saved.oauth \in Login!TokenSets /\ saved.others \in BOOLEAN
        /\ \A t \in Login!TokenSets : t.access \in Nat /\ t.refresh \in Nat
    BY DEF Login!FileTexts, Login!TokenSets
  <1>4. CASE Login!Start(p)
    BY <1>3, <1>4 DEF Login!Start
  <1>5. CASE Login!Refresh(p)
    <2>1. issued' \in Nat
      BY <1>5 DEF Login!Refresh
    <2>4. live' \subseteq Nat
      <3>1. PICK rotates \in BOOLEAN :
              live' = IF rotates THEN (live \ {tokens[p].refresh}) \cup {issued'} ELSE live
        BY <1>5 DEF Login!Refresh
      <3> QED
        BY <2>1, <3>1
    <2>2. \A a, b \in Nat : Login!Kept(p, [access |-> a, refresh |-> b]) \in Login!TokenSets
      <3> TAKE a \in Nat, b \in Nat
      <3> DEFINE t == [access |-> a, refresh |-> b]
      <3>1. t \in Login!TokenSets /\ tokens[p].refresh \in Nat
        BY <1>3 DEF Login!TokenSets
      <3>2. [t EXCEPT !.refresh = tokens[p].refresh] \in Login!TokenSets
        BY <3>1 DEF Login!TokenSets
      <3> QED
        BY <3>1, <3>2 DEF Login!Kept
    <2>3. tokens' \in [Programs -> Login!TokenSets]
      BY <1>5, <2>1, <2>2 DEF Login!Refresh
    <2> QED
      BY <1>2, <1>5, <2>1, <2>3, <2>4 DEF Login!Refresh, Login!Changes
  <1>6. CASE Login!Login(p)
    <2>1. issued' \in Nat /\ live' \subseteq Nat
      BY <1>6 DEF Login!Login
    <2>2. tokens' \in [Programs -> Login!TokenSets]
      BY <1>6, <2>1 DEF Login!Login, Login!TokenSets
    <2> QED
      BY <1>6, <2>1, <2>2 DEF Login!Login
  <1>7. CASE Login!Logout(p)
    BY <1>7 DEF Login!Logout
  <1>8. CASE Login!Load(p)
    BY <1>3, <1>8 DEF Login!Load
  <1>9. CASE Login!Open(p)
    BY <1>2, <1>9 DEF Login!Open, Login!Truncates, Login!Changes
  <1>10. CASE Login!Write(p)
    BY <1>2, <1>10 DEF Login!Write, Login!Puts, Login!Changes
  <1>11. CASE Login!Rename(p)
    BY <1>2, <1>11 DEF Login!Rename, Login!Changes
  <1>12. CASE Login!Return(p)
    BY <1>12 DEF Login!Return, Login!Ends
  <1>13. CASE Login!Stop(p)
    BY <1>2, <1>13 DEF Login!Stop, Login!Ends, Login!Puts
  <1> QED
    BY <1>1, <1>4, <1>5, <1>6, <1>7, <1>8, <1>9, <1>10, <1>11, <1>12, <1>13

LEMMA StartKeeps ==
  ASSUME Login!CredentialInv, NEW p \in Programs, Login!Start(p)
  PROVE  Login!OneWriter' /\ \A q \in Programs : LoginKept(q)'
  <1>1. Login!CredentialTypes /\ Login!OneWriter
    BY LoginParts
  <1>2. Login!OneWriter'
    BY <1>1 DEF Login!CredentialTypes, Login!OneWriter, Login!Start, Login!Goto, Login!diskVars
  <1>3. LoginKept(p)'
    BY <1>1
       DEF LoginKept, Login!CredentialTypes, Login!Start, Login!Goto, Login!Undisturbed,
           Login!TokensHonoured
  <1>4. \A q \in Programs \ {p} : LoginKept(q)'
    BY <1>1, OthersUnmoved DEF Login!CredentialTypes, Login!Start, Login!Goto, Login!serverVars
  <1> QED
    BY <1>2, <1>3, <1>4

LEMMA RefreshKeeps ==
  ASSUME Login!CredentialInv, NEW p \in Programs, Login!Refresh(p)
  PROVE  Login!OneWriter' /\ \A q \in Programs : LoginKept(q)'
  <1>1. Login!CredentialTypes /\ Login!OneWriter
    BY LoginParts
  <1> USE DEF Login!CredentialTypes
  <1>2. Login!OneWriter'
    BY <1>1 DEF Login!OneWriter, Login!Refresh, Login!Goto, Login!diskVars
  <1>3. LoginKept(p)'
    <2>1. at'[p] = "load" /\ command'[p] = command[p] /\ tokens[p].refresh \in live
      BY <1>1 DEF Login!Refresh, Login!Goto
    <2>2. PICK rotates \in BOOLEAN :
            /\ live' = IF rotates THEN (live \ {tokens[p].refresh}) \cup {issued'} ELSE live
            /\ tokens'[p] = Login!Kept(p, [access |-> issued',
                                           refresh |-> IF rotates THEN issued' ELSE 0])
      BY <1>1 DEF Login!Refresh
    <2>3. issued' # 0
      BY <1>1 DEF Login!Refresh
    <2>4. tokens'[p].refresh \in live'
      BY <2>1, <2>2, <2>3 DEF Login!Kept
    <2>5. command[p] = "start"
      BY <1>1 DEF Login!Refresh
    <2> QED
      BY <2>1, <2>4, <2>5 DEF LoginKept, Login!Undisturbed, Login!TokensHonoured
  <1>4. \A q \in Programs \ {p} : LoginKept(q)'
    BY <1>1, OthersUnmoved DEF Login!Refresh, Login!Goto, Login!Changes
  <1> QED
    BY <1>2, <1>3, <1>4

LEMMA BeginsKeep ==
  ASSUME Login!CredentialInv, NEW p \in Programs, Login!Login(p) \/ Login!Logout(p)
  PROVE  Login!OneWriter' /\ \A q \in Programs : LoginKept(q)'
  <1>1. Login!CredentialTypes /\ Login!OneWriter
    BY LoginParts
  <1> USE DEF Login!CredentialTypes
  <1>2. /\ at'[p] = "load" /\ command'[p] \in {"login", "logout"}
        /\ UNCHANGED <<saved, staged, others, opened, crossed>> /\ live \subseteq live'
        /\ crossing' = crossing \ {p}
        /\ \A q \in Programs \ {p} :
             at'[q] = at[q] /\ command'[q] = command[q] /\ tokens'[q] = tokens[q]
    BY <1>1 DEF Login!Login, Login!Logout, Login!Goto, Login!diskVars, Login!serverVars
  <1>3. Login!OneWriter'
    BY <1>1, <1>2 DEF Login!OneWriter
  <1>4. /\ command'[p] = "logout" => tokens'[p] = Login!NoTokens
        /\ command'[p] = "login" => tokens'[p].refresh \in live' \cup {0}
    BY <1>1 DEF Login!Login, Login!Logout
  <1>5. LoginKept(p)'
    BY <1>2, <1>4 DEF LoginKept, Login!Undisturbed, Login!TokensHonoured
  <1>6. \A q \in Programs \ {p} : LoginKept(q)'
    BY <1>1, <1>2, OthersUnmoved DEF Login!diskVars
  <1> QED
    BY <1>3, <1>5, <1>6

LEMMA LoadKeeps ==
  ASSUME Login!CredentialInv, NEW p \in Programs, Login!Load(p)
  PROVE  Login!OneWriter' /\ \A q \in Programs : LoginKept(q)'
  <1>1. Login!CredentialTypes /\ Login!OneWriter /\ LoginKept(p)
    BY LoginParts
  <1> USE DEF Login!CredentialTypes
  <1>2. Login!OneWriter'
    BY <1>1 DEF Login!OneWriter, Login!Load, Login!Goto, Login!diskVars
  <1>3. LoginKept(p)'
    BY <1>1 DEF LoginKept, Login!Load, Login!Goto, Login!serverVars, Login!Undisturbed,
                Login!TokensHonoured
  <1>4. \A q \in Programs \ {p} : LoginKept(q)'
    BY <1>1, OthersUnmoved DEF Login!Load, Login!Goto, Login!serverVars, Login!diskVars
  <1> QED
    BY <1>2, <1>3, <1>4

LEMMA OpenKeeps ==
  ASSUME Login!CredentialInv, NEW p \in Programs, Login!Open(p)
  PROVE  Login!OneWriter' /\ \A q \in Programs : LoginKept(q)'
  <1>1. Login!CredentialTypes /\ Login!OneWriter /\ LoginKept(p)
    BY LoginParts
  <1> USE DEF Login!CredentialTypes
  <1>2. /\ at[p] = "open" /\ at' = [at EXCEPT ![p] = "write"]
        /\ opened' = [opened EXCEPT ![p] = "staged"]
        /\ crossed' = (crossed \/ \E q \in Programs \ {p} : at[q] \in {"write", "rename"})
        /\ crossing' = crossing \cup (Login!Busy \ {p})
        /\ UNCHANGED <<saved, issued, live, command, tokens, others>>
        /\ staged' = Login!Empty
    BY DEF Login!Open, Login!Truncates, Login!Goto, Login!Changes, Login!serverVars
  <1>3. Login!OneWriter'
    BY <1>1, <1>2 DEF Login!OneWriter
  <1>4. LoginKept(p)'
    BY <1>1, <1>2 DEF LoginKept, Login!Undisturbed, Login!TokensHonoured
  <1>5. \A q \in Programs \ {p} : LoginKept(q)'
    BY <1>1, <1>2, OthersUnmoved
  <1> QED
    BY <1>3, <1>4, <1>5

LEMMA WriteKeeps ==
  ASSUME Login!CredentialInv, NEW p \in Programs, Login!Write(p)
  PROVE  Login!OneWriter' /\ \A q \in Programs : LoginKept(q)'
  <1>1. Login!CredentialTypes /\ Login!OneWriter /\ LoginKept(p)
    BY LoginParts
  <1> USE DEF Login!CredentialTypes
  <1>2. /\ at[p] = "write" /\ at' = [at EXCEPT ![p] = "rename"]
        /\ crossing' = crossing \cup (Login!Busy \ {p})
        /\ UNCHANGED <<issued, live, command, tokens, others, crossed>>
    BY DEF Login!Write, Login!Goto, Login!Changes, Login!serverVars
  <1>3. ASSUME opened[p] = "staged"
        PROVE  /\ saved' = saved
               /\ staged = Login!Empty => staged' = Login!Root(others[p], tokens[p])
               /\ staged' \in {Login!Root(others[p], tokens[p]), Login!Torn}
    BY <1>3 DEF Login!Write, Login!Puts, Login!Opened
  <1>4. Login!OneWriter'
    BY <1>1, <1>2, <1>3 DEF Login!OneWriter
  <1>5. LoginKept(p)'
    BY <1>1, <1>2, <1>3 DEF LoginKept, Login!Undisturbed, Login!TokensHonoured
  <1>6. \A q \in Programs \ {p} : LoginKept(q)'
    BY <1>1, <1>2, OthersUnmoved
  <1> QED
    BY <1>4, <1>5, <1>6

LEMMA RenameKeeps ==
  ASSUME Login!CredentialInv, NEW p \in Programs, Login!Rename(p)
  PROVE  Login!OneWriter' /\ \A q \in Programs : LoginKept(q)'
  <1>1. Login!CredentialTypes /\ Login!OneWriter /\ LoginKept(p)
    BY LoginParts
  <1> USE DEF Login!CredentialTypes
  <1>2. /\ at[p] = "rename" /\ at' = [at EXCEPT ![p] = "done"]
        /\ crossing' = crossing \cup (Login!Busy \ {p})
        /\ UNCHANGED <<issued, live, command, tokens, others, crossed>>
        /\ saved' = staged
    BY DEF Login!Rename, Login!Goto, Login!Changes, Login!serverVars
  <1>3. Login!Root(others[p], tokens[p]).oauth = tokens[p]
        /\ (others[p] => Login!Root(others[p], tokens[p]).others
                         /\ Login!Root(others[p], tokens[p]) # Login!Torn)
    BY <1>1, TextTypes
  <1>4. Login!OneWriter'
    BY <1>1, <1>2, <1>3 DEF Login!OneWriter
  <1>5. LoginKept(p)'
    BY <1>1, <1>2, <1>3 DEF LoginKept, Login!Undisturbed, Login!TokensHonoured
  <1>6. \A q \in Programs \ {p} : LoginKept(q)'
    BY <1>1, <1>2, OthersUnmoved
  <1> QED
    BY <1>4, <1>5, <1>6

LEMMA EndsKeep ==
  ASSUME Login!CredentialInv, NEW p \in Programs, Login!Return(p) \/ Login!Stop(p)
  PROVE  Login!OneWriter' /\ \A q \in Programs : LoginKept(q)'
  <1>1. Login!CredentialTypes /\ Login!OneWriter
    BY LoginParts
  <1> USE DEF Login!CredentialTypes
  <1>2. /\ at' = [at EXCEPT ![p] = "idle"]
        /\ opened' = [opened EXCEPT ![p] = "none"]
        /\ UNCHANGED <<issued, live, crossed>>
        /\ \/ UNCHANGED <<saved, staged>> /\ crossing' = crossing \ {p}
           \/ UNCHANGED <<saved, staged>> /\ crossing' = (crossing \cup Login!Busy) \ {p}
           \/ /\ at[p] = "write" /\ crossing' = (crossing \cup Login!Busy) \ {p}
              /\ opened[p] = "staged" => saved' = saved
        /\ \A q \in Programs \ {p} :
             /\ command'[q] = command[q] /\ tokens'[q] = tokens[q] /\ others'[q] = others[q]
    BY <1>1 DEF Login!Return, Login!Stop, Login!Ends, Login!Goto, Login!serverVars,
                Login!diskVars, Login!Puts
  <1>3. Login!OneWriter'
    BY <1>1, <1>2 DEF Login!OneWriter
  <1>4. LoginKept(p)'
    BY <1>1, <1>2 DEF LoginKept
  <1>5. \A q \in Programs \ {p} : LoginKept(q)'
    BY <1>1, <1>2, OthersUnmoved DEF Login!diskVars
  <1> QED
    BY <1>3, <1>4, <1>5

LEMMA LoginNext ==
  ASSUME Login!CredentialInv, [Next]_vars
  PROVE  Login!CredentialInv'
  <1>1. CASE UNCHANGED loginVars
    BY <1>1 DEF loginVars, Login!CredentialInv, Login!CredentialTypes, Login!OneWriter,
                Login!Undisturbed, Login!TokensHonoured
  <1>2. CASE Login!Next
    <2>1. PICK p \in Programs :
            \/ Login!Start(p) \/ Login!Refresh(p) \/ Login!Login(p) \/ Login!Logout(p)
            \/ Login!Load(p) \/ Login!Open(p) \/ Login!Write(p) \/ Login!Rename(p)
            \/ Login!Return(p) \/ Login!Stop(p)
      BY <1>2 DEF Login!Next
    <2>2. Login!CredentialTypes'
      BY <1>2, LoginParts, LoginTypesNext
    <2>3. Login!OneWriter' /\ \A q \in Programs : LoginKept(q)'
      BY <2>1, StartKeeps, RefreshKeeps, BeginsKeep, LoadKeeps, OpenKeeps, WriteKeeps,
         RenameKeeps, EndsKeep
    <2> QED
      BY <2>2, <2>3, LoginSuffices
  <1> QED
    BY <1>1, <1>2, NextParts

(* oauth.rs: credentials.json stays whole and keeps what is not the login's  *)
(* until two programs write at once; and a command that no other program     *)
(* came across has left behind what it reports.                              *)
THEOREM LoginIsKept == Spec => []CredentialsKept
  <1>1. Login!CredentialInv => CredentialsKept
    BY DEF Login!CredentialInv, Login!OneWriter, Login!Undisturbed, Login!TokensHonoured,
           CredentialsKept, Login!CredentialsKept
  <1> QED
    BY <1>1, LoginInit, LoginNext, PTL DEF Spec

-----------------------------------------------------------------------------
(* Runtimes and session files.                                               *)

LEMMA CliConstants == NPlugins \in Nat \ {0} /\ MaxSessions \in Nat \ {0}
  BY TerminalAssumption DEF TerminalAssumption, Cli!LiveCliAssumption

LEMMA NumberedFrom ==
  /\ Cli!Ids = 1..MaxSessions /\ Cli!Nobody \in Cli!Session
  /\ \A s \in Cli!Ids : s \in 0..MaxSessions /\ s # 0
  /\ \A r \in Cli!Session : r.of \in 0..MaxSessions /\ r.n \in Nat
  BY CliConstants DEF Cli!Ids, Cli!Nobody, Cli!Session

LEMMA NewRuntimes ==
  /\ Cli!NoRuntime \in Cli!Runtime /\ Cli!Sound(Cli!NoRuntime)
  /\ Cli!NoRuntime.path = 0 /\ ~Cli!NoRuntime.active /\ ~Cli!NoRuntime.mcp
  /\ \A session \in Cli!Session, path \in 0..MaxSessions :
       /\ Cli!Built(session, path) \in Cli!Runtime /\ Cli!Sound(Cli!Built(session, path))
       /\ Cli!Built(session, path).session = session /\ Cli!Built(session, path).path = path
  <1>1. Cli!Never \in Cli!Counts /\ \A p \in Cli!Plugins : Cli!Never[p] = 0
    BY DEF Cli!Never, Cli!Counts
  <1>2. /\ Cli!NoRuntime \in Cli!Runtime /\ Cli!Sound(Cli!NoRuntime)
        /\ Cli!NoRuntime.path = 0 /\ ~Cli!NoRuntime.active /\ ~Cli!NoRuntime.mcp
    BY <1>1, CliConstants, NumberedFrom DEF Cli!NoRuntime, Cli!Runtime, Cli!Sound
  <1>3. ASSUME NEW session \in Cli!Session, NEW path \in 0..MaxSessions
        PROVE  /\ Cli!Built(session, path) \in Cli!Runtime
               /\ Cli!Sound(Cli!Built(session, path))
               /\ Cli!Built(session, path).session = session
               /\ Cli!Built(session, path).path = path
    <2> DEFINE b == Cli!Built(session, path)
    <2> DEFINE o == Cli!NoRuntime
    <2>1. o.stops = 0 /\ o.shut = Cli!Never
      BY DEF Cli!NoRuntime
    <2>2. b = [o EXCEPT !.session = session, !.path = path, !.active = TRUE, !.mcp = TRUE]
      BY DEF Cli!Built
    <2> HIDE DEF b, o
    <2>4. o \in Cli!Runtime
      BY <1>2 DEF o
    <2>5. /\ b.session = session /\ b.path = path /\ b.active /\ b.mcp /\ b.stops = 0
          /\ b.shut = Cli!Never /\ b \in Cli!Runtime
      BY <2>1, <2>2, <2>4 DEF Cli!Runtime
    <2>3. Cli!Sound(b)
      BY <1>1, <2>5 DEF Cli!Sound, Cli!Retried
    <2> QED
      BY <2>5, <2>3 DEF b
  <1> QED
    BY <1>2, <1>3

\* What is known of a runtime that is held, up to its servers.
Shutting(r) == IF r.active THEN Cli!Retried(r) ELSE Cli!ShutOnce(r)

\* A shutdown reaches each plugin, once more only if one had failed.
LEMMA ShutFacts ==
  ASSUME NEW r \in Cli!Runtime, Shutting(r), NEW s \in Cli!ShutPlugins(r)
  PROVE  /\ s \in Cli!Runtime /\ s.session = r.session /\ s.path = r.path
         /\ s.mcp = r.mcp /\ s.stops = r.stops
         /\ Shutting(s) /\ Cli!ShutOnce(s)
  <1>1. /\ r.shut \in Cli!Counts /\ r.erred \in Cli!Counts
        /\ r.session \in Cli!Session /\ r.path \in 0..MaxSessions
        /\ r.mcp \in BOOLEAN /\ r.active \in BOOLEAN /\ r.stops \in Nat
    BY DEF Cli!Runtime
  <1>2. \A p \in Cli!Plugins : p \in Int /\ r.shut[p] \in Nat /\ r.erred[p] \in Nat
    BY <1>1, CliConstants DEF Cli!Counts, Cli!Plugins
  <1>3. CASE ~r.active
    BY <1>3 DEF Cli!ShutPlugins, Shutting
  <1>4. CASE r.active /\ s = [r EXCEPT !.shut = [p \in Cli!Plugins |-> r.shut[p] + 1],
                                       !.active = FALSE]
    <2> DEFINE more == [p \in Cli!Plugins |-> r.shut[p] + 1]
    <2>1. more \in Cli!Counts /\ \A p \in Cli!Plugins : more[p] = r.shut[p] + 1
      BY <1>2 DEF Cli!Counts
    <2> HIDE DEF more
    <2>2. /\ s.session = r.session /\ s.path = r.path /\ s.mcp = r.mcp
          /\ s.stops = r.stops /\ s.shut = more /\ s.erred = r.erred /\ ~s.active
          /\ s \in Cli!Runtime
      BY <1>1, <1>4, <2>1 DEF Cli!Runtime, more
    <2>3. Cli!Retried(r)
      BY <1>4 DEF Shutting
    <2>4. Cli!ShutOnce(s)
      BY <1>2, <2>1, <2>2, <2>3 DEF Cli!ShutOnce, Cli!Retried
    <2> QED
      BY <2>2, <2>4 DEF Shutting
  <1>5. ASSUME r.active, NEW k \in Cli!Plugins,
               s = [r EXCEPT !.shut = [p \in Cli!Plugins |->
                                         r.shut[p] + IF p > k THEN 1 ELSE 0],
                             !.erred[k] = @ + 1]
        PROVE  /\ s \in Cli!Runtime /\ s.session = r.session /\ s.path = r.path
               /\ s.mcp = r.mcp /\ s.stops = r.stops
               /\ Shutting(s) /\ Cli!ShutOnce(s)
    <2> DEFINE more == [p \in Cli!Plugins |-> r.shut[p] + IF p > k THEN 1 ELSE 0]
               errors == [r.erred EXCEPT ![k] = r.erred[k] + 1]
    <2>1. /\ more \in Cli!Counts /\ errors \in Cli!Counts
          /\ \A p \in Cli!Plugins : more[p] = r.shut[p] + IF p > k THEN 1 ELSE 0
          /\ errors[k] > 0
          /\ \A p \in Cli!Plugins : r.erred[p] > 0 => errors[p] > 0
      BY <1>1, <1>2 DEF Cli!Counts
    <2>2. s = [r EXCEPT !.shut = more, !.erred = errors]
      BY <1>1, <1>5 DEF Cli!Runtime
    <2> HIDE DEF more, errors
    <2>3. /\ s.session = r.session /\ s.path = r.path /\ s.mcp = r.mcp
          /\ s.stops = r.stops /\ s.shut = more /\ s.erred = errors /\ s.active
          /\ s \in Cli!Runtime
      BY <1>1, <1>5, <2>1, <2>2 DEF Cli!Runtime
    <2>4. Cli!Retried(r)
      BY <1>5 DEF Shutting
    <2>5. ASSUME NEW p \in Cli!Plugins
          PROVE  /\ s.shut[p] > 0 => \E q \in Cli!Plugins : q < p /\ s.erred[q] > 0
                 /\ s.shut[p] = 0 => \E q \in Cli!Plugins : q >= p /\ s.erred[q] > 0
                 /\ s.shut[p] > 1 => \E q \in Cli!Plugins : q < p /\ s.erred[q] > 0
      <3>1. CASE p > k
        BY <1>2, <2>1, <2>3, <3>1
      <3>2. CASE ~(p > k)
        <4>1. s.shut[p] = r.shut[p] /\ k >= p
          BY <1>2, <2>1, <2>3, <3>2
        <4> QED
          BY <1>2, <2>1, <2>3, <2>4, <4>1 DEF Cli!Retried
      <3> QED
        BY <3>1, <3>2
    <2>6. Cli!Retried(s) /\ Cli!ShutOnce(s)
      BY <2>5 DEF Cli!Retried, Cli!ShutOnce
    <2> QED
      BY <2>3, <2>6 DEF Shutting
  <1> QED
    BY <1>1, <1>3, <1>4, <1>5 DEF Cli!ShutPlugins

\* A shutdown keeps a runtime sound, and a runtime that is dropped is closed.
LEMMA ShutKeeps ==
  ASSUME NEW r \in Cli!Runtime, Cli!Sound(r), NEW s \in Cli!ShutPlugins(r)
  PROVE  /\ s \in Cli!Runtime /\ Cli!Sound(s)
         /\ s.session = r.session /\ s.path = r.path
  <1>1. CASE r = Cli!NoRuntime
    BY <1>1, NewRuntimes DEF Cli!ShutPlugins
  <1>2. CASE r # Cli!NoRuntime
    <2>1. r.mcp /\ r.stops = 0 /\ Shutting(r)
      BY <1>2 DEF Cli!Sound, Shutting
    <2> QED
      BY <2>1, ShutFacts DEF Cli!Sound, Shutting
  <1> QED
    BY <1>1, <1>2

LEMMA DropCloses ==
  ASSUME NEW r \in Cli!Runtime, Cli!Sound(r), NEW d \in Cli!Drop(r)
  PROVE  /\ r = Cli!NoRuntime => d = Cli!NoRuntime
         /\ r # Cli!NoRuntime => d.stops = 1 /\ Cli!ShutOnce(d)
  <1>1. PICK s \in Cli!StopServers(r) : d \in Cli!ShutPlugins(s)
    BY DEF Cli!Drop
  <1>2. CASE r = Cli!NoRuntime
    BY <1>1, <1>2, NewRuntimes DEF Cli!StopServers, Cli!ShutPlugins
  <1>3. CASE r # Cli!NoRuntime
    <2>1. r.mcp /\ r.stops = 0 /\ Shutting(r)
      BY <1>3 DEF Cli!Sound, Shutting
    <2>2. PICK on \in BOOLEAN : s = [r EXCEPT !.stops = r.stops + 1, !.mcp = on]
      BY <1>1, <2>1 DEF Cli!StopServers
    <2>3. /\ s \in Cli!Runtime /\ s.stops = 1 /\ s.active = r.active
          /\ s.shut = r.shut /\ s.erred = r.erred
      <3>1. r.stops + 1 = 1 /\ s = [r EXCEPT !.stops = 1, !.mcp = on]
        BY <2>1, <2>2
      <3> QED
        BY <3>1 DEF Cli!Runtime
    <2>4. Shutting(s)
      BY <2>1, <2>3 DEF Shutting, Cli!Retried, Cli!ShutOnce
    <2> QED
      BY <1>1, <1>3, <2>3, <2>4, ShutFacts
  <1> QED
    BY <1>2, <1>3

\* build_runtime either builds the runtime or leaves what there was.
LEMMA BuildEither ==
  ASSUME NEW session \in Cli!Session, NEW path \in 0..MaxSessions, NEW after,
         Cli!Build(session, path, after)
  PROVE  \/ /\ pc' = after
            /\ fresh' \in Cli!Runtime /\ Cli!Sound(fresh')
            /\ fresh'.session = session /\ fresh'.path = path
         \/ pc' = "closing" /\ fresh' = fresh
  BY NewRuntimes DEF Cli!Build

LEMMA CliInit == Init => Cli!CliInv
  <1> SUFFICES ASSUME Cli!Init PROVE Cli!CliInv
    BY DEF Init, PartsInit
  <1> USE DEF Cli!Init
  <1>1. Cli!CliTypes
    BY NumberedFrom, NewRuntimes, CliConstants DEF Cli!CliTypes, Cli!Stages
  <1>2. Cli!FilesOwned /\ Cli!AboutTo /\ Cli!RuntimesClosed
    BY NumberedFrom DEF Cli!FilesOwned, Cli!AboutTo, Cli!RuntimesClosed
  <1> QED
    BY <1>1, <1>2, NewRuntimes DEF Cli!CliInv

\* A runtime for session number s is built, and nothing else of it is used.
LEMMA BuildKeeps ==
  ASSUME Cli!CliInv, NEW session \in Cli!Session, NEW s \in Cli!Ids, session.of = s,
         NEW after \in {"started", "turn", "swap"}, Cli!Build(session, s, after),
         goal' = s, after = "started" => handle' = s,
         after = "turn" => files'[s] = session,
         held' = held, handle' \in 0..MaxSessions,
         begun' \in 0..MaxSessions, starts' \in Nat,
         files' \in [Cli!Ids -> Cli!Session], said' \in [Cli!Ids -> Nat], Cli!FilesOwned',
         gone' = {}, after \in {"turn", "swap"} => held # Cli!NoRuntime
  PROVE  Cli!CliInv'
  <1>1. s \in 0..MaxSessions
    BY NumberedFrom
  <1>2. \/ /\ pc' = after
           /\ fresh' \in Cli!Runtime /\ Cli!Sound(fresh')
           /\ fresh'.session = session /\ fresh'.path = s
        \/ pc' = "closing" /\ fresh' = fresh
    BY <1>1, BuildEither
  <1>3. Cli!CliTypes'
    BY <1>1, <1>2 DEF Cli!CliInv, Cli!CliTypes, Cli!Stages
  <1>4. Cli!Sound(held)' /\ Cli!Sound(fresh)' /\ Cli!RuntimesClosed'
    BY <1>2 DEF Cli!CliInv, Cli!RuntimesClosed, Cli!Sound
  <1>5. Cli!AboutTo'
    BY <1>2 DEF Cli!AboutTo, Cli!RunsAs
  <1> QED
    BY <1>3, <1>4, <1>5 DEF Cli!CliInv

LEMMA CliBuilds ==
  ASSUME Cli!CliInv, gone' = {},
         \/ Cli!Start \/ Cli!BeginTurn \/ Cli!Rebuild \/ Cli!Clear \/ Cli!Fork
         \/ \E s \in Cli!Ids : Cli!Switch(s)
  PROVE  Cli!CliInv'
  <1>1. /\ Cli!CliTypes /\ Cli!FilesOwned /\ Cli!AboutTo
        /\ begun < MaxSessions => begun + 1 \in Cli!Ids /\ begun + 1 \in 0..MaxSessions
        /\ starts + 1 \in Nat
    BY NumberedFrom, CliConstants DEF Cli!CliInv, Cli!CliTypes
  <1>0. pc = "prompt" => held # Cli!NoRuntime
    BY <1>1, NewRuntimes, NumberedFrom DEF Cli!AboutTo, Cli!RunsAs
  <1>2. \A s \in 0..MaxSessions, n \in Nat : [of |-> s, n |-> n] \in Cli!Session
    BY DEF Cli!Session
  <1>3. /\ held.session \in Cli!Session /\ held.session.n \in Nat
        /\ \A n \in Nat : /\ [held.session EXCEPT !.n = n] \in Cli!Session
                          /\ [held.session EXCEPT !.n = n].of = held.session.of
        /\ \A s \in 0..MaxSessions :
             [held.session EXCEPT !.of = s] = [of |-> s, n |-> held.session.n]
    <2>1. held.session \in Cli!Session
      BY <1>1 DEF Cli!CliTypes, Cli!Runtime
    <2> QED
      BY <2>1 DEF Cli!Session
  <1>4. CASE Cli!Start
    <2>1. /\ begun' = begun + 1 /\ begun' \in Cli!Ids /\ begun' \in 0..MaxSessions
          /\ Cli!Build([of |-> begun', n |-> 0], begun', "started")
          /\ goal' = begun' /\ handle' = begun' /\ UNCHANGED <<held, files, said>>
          /\ starts' \in Nat
      BY <1>1, <1>4 DEF Cli!Start
    <2>2. [of |-> begun', n |-> 0] \in Cli!Session /\ Cli!FilesOwned'
      BY <1>1, <1>2, <2>1 DEF Cli!FilesOwned
    <2> QED
      BY <1>1, <2>1, <2>2, BuildKeeps DEF Cli!CliTypes
  <1>5. CASE Cli!BeginTurn
    <2>1. /\ Cli!Build(held.session, handle, "turn") /\ handle \in Cli!Ids
          /\ held.session.of = handle /\ files[handle] = held.session
          /\ goal' = handle /\ UNCHANGED <<held, handle, files, begun, said, starts>>
      BY <1>1, <1>5 DEF Cli!BeginTurn, Cli!AboutTo, Cli!RunsAs
    <2>2. Cli!FilesOwned'
      BY <1>1, <2>1 DEF Cli!FilesOwned
    <2> QED
      BY <1>0, <1>1, <1>5, <1>3, <2>1, <2>2, BuildKeeps DEF Cli!CliTypes, Cli!BeginTurn
  <1>6. CASE Cli!Rebuild
    <2>1. PICK n \in 0..held.session.n :
            Cli!Build([held.session EXCEPT !.n = n], held.path, "swap")
      BY <1>6 DEF Cli!Rebuild
    <2>2. /\ held.path = handle /\ handle \in Cli!Ids /\ held.session.of = handle
          /\ goal' = handle /\ UNCHANGED <<held, handle, files, begun, said, starts>>
      BY <1>1, <1>6 DEF Cli!Rebuild, Cli!AboutTo, Cli!RunsAs
    <2>3. n \in Nat /\ Cli!FilesOwned'
      BY <1>1, <1>3, <2>1, <2>2 DEF Cli!FilesOwned
    <2> QED
      BY <1>0, <1>1, <1>6, <1>3, <2>1, <2>2, <2>3, BuildKeeps DEF Cli!CliTypes, Cli!Rebuild
  <1>7. CASE Cli!Clear
    <2>1. /\ begun' = begun + 1 /\ begun' \in Cli!Ids /\ begun' \in 0..MaxSessions
          /\ Cli!Build([of |-> begun', n |-> 0], begun', "swap")
          /\ goal' = begun' /\ handle' = begun' /\ UNCHANGED <<held, files, said, starts>>
      BY <1>1, <1>7 DEF Cli!Clear
    <2>2. [of |-> begun', n |-> 0] \in Cli!Session /\ Cli!FilesOwned'
      BY <1>1, <1>2, <2>1 DEF Cli!FilesOwned
    <2> QED
      BY <1>0, <1>1, <1>7, <2>1, <2>2, BuildKeeps DEF Cli!CliTypes, Cli!Clear
  <1>8. CASE Cli!Fork
    <2> DEFINE copy == [of |-> begun', n |-> held.session.n]
    <2>1. /\ begun' = begun + 1 /\ begun' \in Cli!Ids /\ begun' \in 0..MaxSessions
          /\ Cli!Build(copy, begun', "swap") /\ goal' = begun'
          /\ files' = [files EXCEPT ![begun'] = copy]
          /\ said' = [said EXCEPT ![begun'] = held.session.n]
          /\ UNCHANGED <<held, handle, starts>>
      BY <1>1, <1>3, <1>8 DEF Cli!Fork
    <2>2. copy \in Cli!Session /\ copy.of = begun' /\ copy.n = held.session.n
      BY <1>2, <1>3, <2>1
    <2>3. /\ files' \in [Cli!Ids -> Cli!Session] /\ said' \in [Cli!Ids -> Nat]
          /\ Cli!FilesOwned'
      BY <1>1, <1>3, <2>1, <2>2 DEF Cli!CliTypes, Cli!FilesOwned
    <2> HIDE DEF copy
    <2> QED
      BY <1>0, <1>1, <1>8, <2>1, <2>2, <2>3, BuildKeeps DEF Cli!CliTypes, Cli!Fork
  <1>9. ASSUME NEW s \in Cli!Ids, Cli!Switch(s) PROVE Cli!CliInv'
    <2>1. /\ Cli!Build(files[s], s, "swap") /\ goal' = s /\ files[s].of = s
          /\ files[s] \in Cli!Session
          /\ UNCHANGED <<held, handle, files, begun, said, starts>>
      BY <1>1, <1>9 DEF Cli!Switch, Cli!FilesOwned, Cli!CliTypes
    <2>2. Cli!FilesOwned'
      BY <1>1, <2>1 DEF Cli!FilesOwned
    <2> QED
      BY <1>0, <1>1, <1>9, <2>1, <2>2, BuildKeeps DEF Cli!CliTypes, Cli!Switch
  <1> QED
    BY <1>4, <1>5, <1>6, <1>7, <1>8, <1>9

LEMMA CliRuns ==
  ASSUME Cli!CliInv,
         \/ (Cli!Started \/ Cli!Say \/ Cli!EndTurn \/ Cli!TurnFails) /\ gone' = {}
         \/ Cli!Swap
  PROVE  Cli!CliInv'
  <1>1. /\ Cli!CliTypes /\ Cli!FilesOwned /\ Cli!AboutTo /\ Cli!RuntimesClosed
        /\ Cli!Sound(held) /\ Cli!Sound(fresh)
    BY DEF Cli!CliInv
  <1>2. ASSUME UNCHANGED <<files, said>> PROVE Cli!FilesOwned'
    BY <1>1, <1>2 DEF Cli!FilesOwned
  <1>3. ASSUME gone' = {} PROVE Cli!RuntimesClosed'
    BY <1>3 DEF Cli!RuntimesClosed
  <1>4. CASE Cli!Started /\ gone' = {}
    <2>1. Cli!CliTypes'
      BY <1>1, <1>4, NewRuntimes DEF Cli!CliTypes, Cli!Started, Cli!Stages
    <2>2. Cli!Sound(held)' /\ Cli!Sound(fresh)'
      BY <1>1, <1>4, NewRuntimes DEF Cli!Started, Cli!Sound
    <2>3. Cli!AboutTo'
      BY <1>1, <1>4 DEF Cli!AboutTo, Cli!Started, Cli!RunsAs
    <2> QED
      BY <1>2, <1>3, <1>4, <2>1, <2>2, <2>3 DEF Cli!Started, Cli!CliInv
  <1>5. CASE Cli!EndTurn /\ gone' = {}
    <2>1. Cli!CliTypes' /\ Cli!Sound(held)' /\ Cli!Sound(fresh)'
      BY <1>1, <1>5 DEF Cli!CliTypes, Cli!EndTurn, Cli!Stages, Cli!Sound
    <2>2. Cli!AboutTo'
      BY <1>1, <1>5 DEF Cli!AboutTo, Cli!EndTurn, Cli!RunsAs
    <2> QED
      BY <1>2, <1>3, <1>5, <2>1, <2>2 DEF Cli!EndTurn, Cli!CliInv
  <1>6. CASE Cli!Say /\ gone' = {}
    <2> DEFINE s == fresh.session
               longer == [s EXCEPT !.n = s.n + 1]
    <2>1. /\ pc = "turn" /\ fresh.path = goal /\ goal \in Cli!Ids /\ s.of = goal
          /\ files[goal] = s /\ s \in Cli!Session /\ s.n \in Nat
      BY <1>1, <1>6 DEF Cli!Say, Cli!AboutTo, Cli!RunsAs, Cli!CliTypes, Cli!Session
    <2>2. longer \in Cli!Session /\ longer = [of |-> goal, n |-> s.n + 1]
      BY <2>1 DEF Cli!Session
    <2>3. /\ fresh' = [fresh EXCEPT !.session = longer]
          /\ files' = [files EXCEPT ![goal] = longer]
          /\ said' = [said EXCEPT ![goal] = s.n + 1]
          /\ UNCHANGED <<pc, held, handle, goal, begun, starts>>
      BY <1>1, <1>6, <2>1 DEF Cli!Say, Cli!CliTypes, Cli!Runtime, Cli!Session
    <2>4. /\ fresh' \in Cli!Runtime /\ fresh'.session = longer /\ fresh'.path = fresh.path
          /\ fresh'.active = fresh.active /\ fresh'.mcp = fresh.mcp
          /\ fresh'.shut = fresh.shut /\ fresh'.erred = fresh.erred
          /\ fresh'.stops = fresh.stops
      BY <1>1, <2>2, <2>3 DEF Cli!CliTypes, Cli!Runtime
    <2> HIDE DEF longer
    <2>5. Cli!CliTypes'
      BY <1>1, <2>1, <2>2, <2>3, <2>4 DEF Cli!CliTypes
    <2>6. Cli!Sound(held)' /\ Cli!Sound(fresh)'
      <3>1. fresh # Cli!NoRuntime
        BY <2>1, NewRuntimes, NumberedFrom
      <3> QED
        BY <1>1, <2>3, <2>4, <3>1 DEF Cli!Sound, Cli!Retried, Cli!ShutOnce
    <2>7. Cli!FilesOwned'
      BY <1>1, <2>1, <2>2, <2>3 DEF Cli!FilesOwned, Cli!CliTypes
    <2>8. Cli!AboutTo'
      BY <1>1, <2>1, <2>2, <2>3, <2>4 DEF Cli!AboutTo, Cli!RunsAs, Cli!CliTypes
    <2> QED
      BY <1>3, <1>6, <2>5, <2>6, <2>7, <2>8 DEF Cli!CliInv
  <1>7. CASE Cli!TurnFails /\ gone' = {}
    <2>2. fresh' \in Cli!Runtime /\ Cli!Sound(fresh')
      BY <1>1, <1>7, ShutKeeps DEF Cli!TurnFails, Cli!CliTypes
    <2>3. pc' = "closing" /\ UNCHANGED <<held, handle, goal, files, begun, said, starts>>
      BY <1>7 DEF Cli!TurnFails
    <2>4. Cli!CliTypes' /\ Cli!Sound(held)' /\ Cli!Sound(fresh)' /\ Cli!AboutTo'
      BY <1>1, <2>2, <2>3 DEF Cli!CliTypes, Cli!Stages, Cli!Sound, Cli!AboutTo
    <2> QED
      BY <1>2, <1>3, <1>7, <2>2, <2>3, <2>4 DEF Cli!CliInv
  <1>8. CASE Cli!Swap
    <2>1. PICK old \in Cli!ShutPlugins(held) :
            IF old.active
              THEN /\ held' = old /\ gone' = {} /\ pc' = "closing"
                   /\ UNCHANGED <<fresh, handle>>
              ELSE /\ held' = fresh /\ fresh' = Cli!NoRuntime
                   /\ \E last \in Cli!Drop(old) : gone' = {last}
                   /\ handle' = goal /\ pc' = "save"
      BY <1>8 DEF Cli!Swap
    <2>2. old \in Cli!Runtime /\ Cli!Sound(old) /\ old # Cli!NoRuntime
      <3>1. held # Cli!NoRuntime /\ held.mcp /\ Shutting(held)
        BY <1>1, <1>8 DEF Cli!AboutTo, Cli!Swap, Cli!Sound, Shutting
      <3> QED
        BY <1>1, <3>1, ShutFacts, ShutKeeps, NewRuntimes DEF Cli!CliTypes
    <2>3. pc = "swap" /\ UNCHANGED <<goal, files, begun, said, starts>>
      BY <1>8 DEF Cli!Swap
    <2>4. Cli!RuntimesClosed'
      BY <2>1, <2>2, DropCloses DEF Cli!RuntimesClosed
    <2>5. Cli!CliTypes'
      BY <1>1, <2>1, <2>2, <2>3, NewRuntimes DEF Cli!CliTypes, Cli!Stages
    <2>6. Cli!Sound(held)' /\ Cli!Sound(fresh)'
      BY <1>1, <2>1, <2>2, NewRuntimes DEF Cli!Sound
    <2>7. Cli!AboutTo'
      BY <1>1, <2>1, <2>3 DEF Cli!AboutTo, Cli!RunsAs
    <2> QED
      BY <1>2, <2>3, <2>4, <2>5, <2>6, <2>7 DEF Cli!CliInv
  <1> QED
    BY <1>4, <1>5, <1>6, <1>7, <1>8

\* persist_session writes the held session to the file of its number.
LEMMA SaveKeeps ==
  ASSUME Cli!CliInv, pc \in {"prompt", "save"}, NEW after \in {"prompt", "closing"},
         Cli!Save(after), gone' = {}
  PROVE  Cli!CliInv'
  <1>1. /\ Cli!CliTypes /\ Cli!FilesOwned /\ Cli!AboutTo /\ Cli!RuntimesClosed
        /\ Cli!Sound(held) /\ Cli!Sound(fresh)
    BY DEF Cli!CliInv
  <1>2. /\ handle \in Cli!Ids /\ held.path = handle /\ held.session.of = handle
        /\ held.session \in Cli!Session
    BY <1>1 DEF Cli!AboutTo, Cli!RunsAs, Cli!CliTypes, Cli!Runtime
  <1>3. held.session = [of |-> handle, n |-> held.session.n] /\ held.session.n \in Nat
    BY <1>2 DEF Cli!Session
  <1>4. /\ files' = [files EXCEPT ![handle] = held.session]
        /\ said' = [said EXCEPT ![handle] = held.session.n]
        /\ pc' = after /\ UNCHANGED <<held, fresh, handle, goal, begun, starts>>
    BY <1>2 DEF Cli!Save
  <1>5. Cli!CliTypes'
    BY <1>1, <1>2, <1>3, <1>4 DEF Cli!CliTypes, Cli!Stages
  <1>6. Cli!FilesOwned' /\ Cli!AboutTo'
    BY <1>1, <1>2, <1>3, <1>4 DEF Cli!FilesOwned, Cli!AboutTo, Cli!RunsAs, Cli!CliTypes
  <1> QED
    BY <1>1, <1>4, <1>5, <1>6 DEF Cli!CliInv, Cli!Sound, Cli!RuntimesClosed

LEMMA CliEnds ==
  ASSUME Cli!CliInv, ((Cli!Fails \/ Cli!Killed) /\ gone' = {}) \/ Cli!Close
  PROVE  Cli!CliInv'
  <1>1. /\ Cli!CliTypes /\ Cli!FilesOwned
        /\ Cli!Sound(held) /\ Cli!Sound(fresh)
    BY DEF Cli!CliInv
  <1>2. /\ pc' \in {"closing", "down"} /\ UNCHANGED <<handle, goal, files, begun, said, starts>>
        /\ \/ UNCHANGED <<held, fresh>>
           \/ held' = Cli!NoRuntime /\ fresh' = Cli!NoRuntime
    BY DEF Cli!Fails, Cli!Close, Cli!Killed
  <1>3. Cli!RuntimesClosed'
    <2>1. CASE gone' = {}
      BY <2>1 DEF Cli!RuntimesClosed
    <2>2. CASE Cli!Close
      <3>1. PICK new \in Cli!Drop(fresh), old \in Cli!Drop(held) :
              gone' = {new, old} \ {Cli!NoRuntime}
        BY <2>2 DEF Cli!Close
      <3>2. /\ new = Cli!NoRuntime \/ (new.stops = 1 /\ Cli!ShutOnce(new))
            /\ old = Cli!NoRuntime \/ (old.stops = 1 /\ Cli!ShutOnce(old))
        BY <1>1, DropCloses DEF Cli!CliTypes
      <3> QED
        BY <3>1, <3>2 DEF Cli!RuntimesClosed
    <2> QED
      BY <2>1, <2>2
  <1>4. Cli!CliTypes' /\ Cli!Sound(held)' /\ Cli!Sound(fresh)'
    BY <1>1, <1>2, NewRuntimes DEF Cli!CliTypes, Cli!Stages, Cli!Sound
  <1>5. Cli!FilesOwned' /\ Cli!AboutTo'
    BY <1>1, <1>2 DEF Cli!FilesOwned, Cli!AboutTo
  <1> QED
    BY <1>3, <1>4, <1>5 DEF Cli!CliInv

LEMMA CliNext ==
  ASSUME Cli!CliInv, [Next]_vars
  PROVE  Cli!CliInv'
  <1>1. CASE UNCHANGED cliVars
    BY <1>1 DEF cliVars, Cli!CliInv, Cli!CliTypes, Cli!Sound, Cli!RuntimesClosed,
                Cli!FilesOwned, Cli!AboutTo, Cli!RunsAs
  <1>2. CASE (Cli!Persist \/ Cli!Exit) /\ gone' = {}
    BY <1>2, SaveKeeps DEF Cli!Persist, Cli!Exit
  <1> QED
    BY <1>1, <1>2, NextParts, CliBuilds, CliRuns, CliEnds DEF Cli!Next

(* main.rs: a runtime that is dropped, however the program goes on or ends   *)
(* by itself, had its servers told to stop once, and each plugin shut down   *)
(* once, but for failed shutdowns.                                           *)
THEOREM RuntimesAreClosed == Spec => []RuntimesClosed
  <1>1. Cli!CliInv => RuntimesClosed
    BY DEF Cli!CliInv, RuntimesClosed
  <1> QED
    BY <1>1, CliInit, CliNext, PTL DEF Spec

(* main.rs: a session's file holds that session and all of it, through       *)
(* turns, forks, switches, failures and kills.                               *)
THEOREM SessionFilesOwned == Spec => []SessionFileOwned
  <1>1. Cli!CliInv => SessionFileOwned
    BY DEF Cli!CliInv, Cli!FilesOwned, Cli!AboutTo, Cli!RunsAs, SessionFileOwned,
           Cli!SessionFileOwned
  <1> QED
    BY <1>1, CliInit, CliNext, PTL DEF Spec

-----------------------------------------------------------------------------
(* The installed plugins.                                                    *)

\* What is known of session s while no other one has crossed it.
PluginKept(s) == at_[s] # "idle" /\ s \notin met => Plugin!Ready(s)

LEMMA PluginParts ==
  ASSUME Plugin!PluginInv
  PROVE  /\ Plugin!PluginTypes /\ Plugin!VersionsRise
         /\ \A s \in Sessions : PluginKept(s)
  BY DEF Plugin!PluginInv, PluginKept

LEMMA PluginSuffices ==
  ASSUME Plugin!PluginTypes', Plugin!VersionsRise', \A s \in Sessions : PluginKept(s)'
  PROVE  Plugin!PluginInv'
  BY DEF Plugin!PluginInv, PluginKept

LEMMA PluginValues ==
  /\ Plugin!Plugins = {"bundled", "external"}
  /\ Plugin!Absent = 0 /\ Plugin!Bare = 1 /\ Plugin!Broken = 2 /\ Plugin!Loads = 3
  /\ Plugin!Operations = {"report", "install", "update", "uninstall", "enable", "disable"}
  /\ Plugin!NoRecords \in [Plugin!Plugins -> Nat]
  /\ Plugin!NoRecords["external"] = 0 /\ Plugin!NoRecords["bundled"] = 0
  /\ Plugin!Stages["idle"] = {"report"} /\ Plugin!Stages["done"] = Plugin!Operations
  /\ Plugin!Stages["find"] = {"update", "uninstall"}
  /\ Plugin!Stages["remove"] = {"install", "update", "uninstall"}
  /\ Plugin!Stages["copy"] = {"install", "update"}
  /\ Plugin!Stages["copying"] = {"install", "update"}
  /\ Plugin!Stages["record"] = {"install"}
  /\ Plugin!Stages["store"] = {"install", "update", "uninstall"}
  /\ Plugin!Stages["fill"] = {"install", "update", "uninstall"}
  /\ Plugin!Stages["settings"] = {"install", "uninstall", "enable", "disable"}
  /\ Plugin!Stages["write"] = {"install", "uninstall", "enable", "disable"}
  /\ DOMAIN Plugin!Stages = {"idle", "find", "remove", "copy", "copying", "record", "store",
                             "fill", "settings", "write", "done"}
  BY DEF Plugin!Plugins, Plugin!Absent, Plugin!Bare, Plugin!Broken, Plugin!Loads,
         Plugin!Operations, Plugin!NoRecords, Plugin!Stages

\* What the types say of one session, and of the files.
LEMMA PluginFacts ==
  ASSUME Plugin!PluginTypes, NEW s \in Sessions
  PROVE  /\ shipped \in Nat /\ shipped # 0
         /\ \A p \in Plugin!Plugins :
              /\ dirs[p] \in [level : 0..3, version : Nat]
              /\ dirs[p].level \in 0..3 /\ dirs[p].version \in Nat
         /\ records \in [Plugin!Plugins -> Nat] /\ loaded[s] \in [Plugin!Plugins -> Nat]
         /\ records["external"] \in {0, 1} /\ loaded[s]["external"] \in {0, 1}
         /\ records["bundled"] \in Nat /\ loaded[s]["bundled"] \in Nat
         /\ op[s] \in Plugin!Operations
  BY PluginValues DEF Plugin!PluginTypes

\* Where session s may be with which operation, if it goes on.
Fits(place, o) ==
    /\ place \in DOMAIN Plugin!Stages \cup Plugin!Syncing
    /\ o \in IF place \in Plugin!Syncing THEN Plugin!Operations \ {"uninstall"}
                                         ELSE Plugin!Stages[place]

LEMMA PluginTypesMove ==
  ASSUME Plugin!PluginTypes, NEW s \in Sessions, NEW place, NEW o \in Plugin!Operations,
         at_' = [at_ EXCEPT ![s] = place], op' = [op EXCEPT ![s] = o], Fits(place, o),
         loaded' \in [Sessions -> [Plugin!Plugins -> Nat]],
         \A q \in Sessions : loaded'[q]["external"] \in {0, 1},
         shipped' = shipped, dirs' \in [Plugin!Plugins -> [level : 0..Plugin!Loads, version : Nat]],
         records' \in [Plugin!Plugins -> Nat], records'["external"] \in {0, 1},
         enabled' \in {"unset", "on", "off"}, torn' \subseteq {"registry", "settings"},
         met' \subseteq Sessions
  PROVE  Plugin!PluginTypes'
  BY DEF Plugin!PluginTypes, Fits

\* A step of s that others may notice crosses them; any other step leaves what
\* is known of them as it was.
LEMMA OthersUncrossed ==
  ASSUME Plugin!PluginInv, NEW s \in Sessions, NEW q \in Sessions \ {s},
         at_'[q] = at_[q], op'[q] = op[q], loaded'[q] = loaded[q], shipped' = shipped,
         \/ met' = met \cup (Plugin!Busy \ {s})
         \/ met' = (met \cup Plugin!Busy) \ {s}
         \/ (q \in met => q \in met') /\ UNCHANGED <<dirs, records, enabled>>
  PROVE  PluginKept(q)'
  <1>1. PluginKept(q)
    BY PluginParts
  <1>2. CASE at_[q] = "idle" \/ q \in met'
    BY <1>2 DEF PluginKept
  <1>3. CASE at_[q] # "idle" /\ q \notin met'
    <2>1. UNCHANGED <<dirs, records, enabled>> /\ q \notin met
      BY <1>3 DEF Plugin!Busy
    <2> QED
      BY <1>1, <2>1
         DEF PluginKept, Plugin!Ready, Plugin!DirectoryReady, Plugin!RecordReady,
             Plugin!SettingReady, Plugin!BundledReady, Plugin!RecordOf
  <1> QED
    BY <1>2, <1>3

LEMMA PluginInit == Init => Plugin!PluginInv
  <1> SUFFICES ASSUME Plugin!Init PROVE Plugin!PluginInv
    BY DEF Init, PartsInit
  <1> USE PluginValues DEF Plugin!Init
  <1>1. \A s \in Sessions : at_[s] = "idle" /\ loaded[s] = Plugin!NoRecords
    OBVIOUS
  <1>2. dirs \in [Plugin!Plugins -> [level : 0..Plugin!Loads, version : Nat]]
    OBVIOUS
  <1>3. "idle" \notin Plugin!Syncing
    BY DEF Plugin!Syncing
  <1>4. Plugin!PluginTypes
    BY <1>1, <1>2, <1>3 DEF Plugin!PluginTypes
  <1>5. Plugin!VersionsRise
    BY <1>1 DEF Plugin!VersionsRise
  <1> QED
    BY <1>1, <1>4, <1>5 DEF Plugin!PluginInv

LEMMA BeginsAndEnds ==
  ASSUME Plugin!PluginInv, NEW s \in Sessions,
         \/ \E o \in Plugin!Operations : Plugin!Begin(s, o)
         \/ Plugin!Return(s) \/ Plugin!Stop(s) \/ Plugin!StopEmpty(s)
  PROVE  Plugin!PluginInv'
  <1> USE PluginValues
  <1>1. /\ Plugin!PluginTypes /\ Plugin!VersionsRise
        /\ Plugin!Busy \subseteq Sessions
    BY PluginParts DEF Plugin!Busy
  <1>2. ASSUME NEW o \in Plugin!Operations, Plugin!Begin(s, o)
        PROVE  Plugin!PluginInv'
    <2> DEFINE place == IF o = "install" THEN "remove"
                        ELSE IF o \in {"update", "uninstall"} THEN "find" ELSE "sync"
    <2>1. /\ at_[s] = "idle" /\ op' = [op EXCEPT ![s] = o] /\ at_' = [at_ EXCEPT ![s] = place]
          /\ UNCHANGED <<shipped, dirs, records, enabled, torn, loaded, met>>
      BY <1>2 DEF Plugin!Begin, Plugin!Goes, Plugin!fileVars
    <2>2. Fits(place, o)
      BY DEF Fits, Plugin!Syncing
    <2>3. Plugin!PluginTypes'
      BY <1>1, <2>1, <2>2, PluginTypesMove DEF Plugin!PluginTypes
    <2>4. Plugin!VersionsRise'
      BY <1>1, <2>1, PluginFacts DEF Plugin!VersionsRise, Plugin!PluginTypes
    <2>5. PluginKept(s)'
      BY <1>1, <2>1
         DEF PluginKept, Plugin!Syncing, Plugin!Ready, Plugin!DirectoryReady, Plugin!RecordReady,
             Plugin!SettingReady, Plugin!BundledReady, Plugin!RecordOf, Plugin!PluginTypes
    <2>6. \A q \in Sessions \ {s} : PluginKept(q)'
      BY <1>1, <2>1, OthersUncrossed DEF Plugin!PluginTypes
    <2> QED
      BY <2>3, <2>4, <2>5, <2>6, PluginSuffices
  <1>3. CASE Plugin!Return(s) \/ Plugin!Stop(s) \/ Plugin!StopEmpty(s)
    <2>1. /\ at_' = [at_ EXCEPT ![s] = "idle"] /\ op' = [op EXCEPT ![s] = "report"]
          /\ loaded' = [loaded EXCEPT ![s] = Plugin!NoRecords]
          /\ UNCHANGED <<shipped, dirs, records, enabled>>
          /\ met' = met \ {s} \/ met' = (met \cup Plugin!Busy) \ {s}
          /\ torn' \subseteq torn \cup {"registry", "settings"}
      BY <1>3 DEF Plugin!Return, Plugin!Stop, Plugin!StopEmpty, Plugin!Ends, Plugin!Goes
    <2>2. Fits("idle", "report")
      BY DEF Fits, Plugin!Syncing
    <2>3. Plugin!PluginTypes'
      BY <1>1, <2>1, <2>2, PluginTypesMove DEF Plugin!PluginTypes
    <2>4. Plugin!VersionsRise'
      BY <1>1, <2>1, PluginFacts DEF Plugin!VersionsRise, Plugin!PluginTypes
    <2>5. PluginKept(s)'
      BY <1>1, <2>1 DEF PluginKept, Plugin!PluginTypes
    <2>6. \A q \in Sessions \ {s} : PluginKept(q)'
      BY <1>1, <2>1, OthersUncrossed DEF Plugin!PluginTypes
    <2> QED
      BY <2>3, <2>4, <2>5, <2>6, PluginSuffices
  <1> QED
    BY <1>2, <1>3

\* The steps that only read: sync, find, record, discover, known.
LEMMA ReadsKeep ==
  ASSUME Plugin!PluginInv, NEW s \in Sessions,
         \/ Plugin!Sync(s) \/ Plugin!Find(s) \/ Plugin!Record(s)
         \/ Plugin!Discover(s) \/ Plugin!Known(s)
  PROVE  Plugin!PluginInv'
  <1> USE PluginValues
  <1>1. Plugin!PluginTypes /\ Plugin!VersionsRise /\ PluginKept(s)
    BY PluginParts
  <1>2. ASSUME NEW place, Fits(place, op[s]), NEW new \in [Plugin!Plugins -> Nat],
               at_' = [at_ EXCEPT ![s] = place],
               loaded' = [loaded EXCEPT ![s] = new],
               new["external"] \in {0, 1},
               \/ new["bundled"] <= records["bundled"] /\ new["bundled"] \in {0, records["bundled"]}
               \/ new["bundled"] = shipped /\ place = "remove_bundled"
               \/ new = loaded[s] /\ at_[s] \notin {"remove_bundled", "copy_bundled"},
               place \notin {"idle", "copying_bundled", "store_bundled"},
               UNCHANGED <<shipped, dirs, records, enabled, torn, op, met>>
        PROVE  /\ Plugin!PluginTypes' /\ Plugin!VersionsRise'
               /\ \A q \in Sessions \ {s} : PluginKept(q)'
    <2>1. Plugin!PluginTypes'
      <3>1. op' = [op EXCEPT ![s] = op[s]] /\ op[s] \in Plugin!Operations
        BY <1>1, <1>2 DEF Plugin!PluginTypes
      <3>2. /\ loaded' \in [Sessions -> [Plugin!Plugins -> Nat]]
            /\ \A q \in Sessions : loaded'[q]["external"] \in {0, 1}
        BY <1>1, <1>2 DEF Plugin!PluginTypes
      <3>3. /\ dirs' \in [Plugin!Plugins -> [level : 0..Plugin!Loads, version : Nat]]
            /\ records' \in [Plugin!Plugins -> Nat] /\ records'["external"] \in {0, 1}
            /\ enabled' \in {"unset", "on", "off"} /\ torn' \subseteq {"registry", "settings"}
            /\ met' \subseteq Sessions
        BY <1>1, <1>2 DEF Plugin!PluginTypes
      <3> HIDE PluginValues
      <3> QED
        BY <1>1, <1>2, <3>1, <3>2, <3>3, PluginTypesMove
    <2>2. Plugin!VersionsRise'
      <3>1. /\ loaded'[s] = new /\ at_'[s] = place
            /\ \A q \in Sessions \ {s} : loaded'[q] = loaded[q] /\ at_'[q] = at_[q]
        BY <1>1, <1>2 DEF Plugin!PluginTypes
      <3> QED
        BY <1>1, <1>2, <3>1, PluginFacts DEF Plugin!VersionsRise
    <2>3. \A q \in Sessions \ {s} : PluginKept(q)'
      BY <1>1, <1>2, OthersUncrossed DEF Plugin!PluginTypes
    <2> QED
      BY <2>1, <2>2, <2>3
  <1>3. ASSUME UNCHANGED loaded PROVE loaded' = [loaded EXCEPT ![s] = loaded[s]]
    BY <1>1, <1>3 DEF Plugin!PluginTypes
  <1>4. /\ op[s] \in Plugin!Operations
        /\ Fits(at_[s], op[s])
    BY <1>1 DEF Plugin!PluginTypes, Fits
  <1>5. CASE Plugin!Sync(s)
    <2> DEFINE new == [records EXCEPT !["bundled"] = shipped]
    <2>1. /\ at_[s] = "sync" /\ UNCHANGED <<shipped, dirs, records, enabled, torn, op, met>>
          /\ op[s] \in Plugin!Operations \ {"uninstall"}
      BY <1>4, <1>5 DEF Plugin!Sync, Plugin!fileVars, Fits, Plugin!Syncing
    <2>2. CASE Plugin!NeedsSync
      <3>1. at_' = [at_ EXCEPT ![s] = "remove_bundled"] /\ loaded' = [loaded EXCEPT ![s] = new]
        BY <1>5, <2>2 DEF Plugin!Sync, Plugin!Goes
      <3>2. /\ new \in [Plugin!Plugins -> Nat] /\ new["bundled"] = shipped
            /\ new["external"] = records["external"]
        BY <1>1, PluginFacts
      <3> HIDE DEF new
      <3>3. Fits("remove_bundled", op[s])
        BY <2>1 DEF Fits, Plugin!Syncing
      <3>4. at_'[s] = "remove_bundled" /\ loaded'[s] = new
        BY <1>1, <3>1 DEF Plugin!PluginTypes
      <3>5. PluginKept(s)'
        BY <1>1, <2>1, <3>2, <3>4
           DEF PluginKept, Plugin!Syncing, Plugin!Ready, Plugin!DirectoryReady,
               Plugin!RecordReady, Plugin!SettingReady, Plugin!BundledReady,
               Plugin!RecordOf
      <3>6. new["external"] \in {0, 1}
        BY <1>1, <3>2, PluginFacts
      <3> QED
        BY <1>2, <2>1, <3>1, <3>2, <3>3, <3>5, <3>6, PluginSuffices
    <2>3. CASE ~Plugin!NeedsSync
      <3>1. at_' = [at_ EXCEPT ![s] = "discover"] /\ UNCHANGED loaded
        BY <1>5, <2>3 DEF Plugin!Sync, Plugin!Goes
      <3>2. records["bundled"] = shipped /\ dirs["bundled"].level = Plugin!Loads
        BY <1>1, <2>3, PluginFacts DEF Plugin!NeedsSync
      <3>3. dirs["bundled"] = [level |-> Plugin!Loads, version |-> shipped]
        BY <1>1, <3>2, PluginFacts DEF Plugin!VersionsRise
      <3>4. at_'[s] = "discover" /\ loaded'[s] = loaded[s]
        BY <1>1, <3>1 DEF Plugin!PluginTypes
      <3>5. PluginKept(s)'
        BY <1>1, <2>1, <3>1, <3>2, <3>3, <3>4
           DEF PluginKept, Plugin!Syncing, Plugin!Ready, Plugin!DirectoryReady,
               Plugin!RecordReady, Plugin!SettingReady, Plugin!BundledReady,
               Plugin!RecordOf
      <3>6. Fits("discover", op[s])
        BY <2>1 DEF Fits, Plugin!Syncing
      <3> QED
        BY <1>1, <1>2, <1>3, <2>1, <3>1, <3>5, <3>6, PluginFacts, PluginSuffices
    <2> QED
      BY <2>2, <2>3
  <1>6. CASE Plugin!Find(s)
    <2> DEFINE new == IF op[s] = "uninstall" THEN [records EXCEPT !["external"] = 0] ELSE records
    <2>1. /\ at_[s] = "find" /\ records["external"] # 0
          /\ at_' = [at_ EXCEPT ![s] = "remove"] /\ loaded' = [loaded EXCEPT ![s] = new]
          /\ UNCHANGED <<shipped, dirs, records, enabled, torn, op, met>>
      BY <1>6 DEF Plugin!Find, Plugin!Goes, Plugin!fileVars
    <2>2. /\ new \in [Plugin!Plugins -> Nat] /\ new["bundled"] = records["bundled"]
          /\ new["external"] = IF op[s] = "uninstall" THEN 0 ELSE 1
      BY <1>1, <2>1, PluginFacts
    <2> HIDE DEF new
    <2>3. op[s] \in {"update", "uninstall"} /\ Fits("remove", op[s])
      BY <1>4, <2>1 DEF Fits, Plugin!Syncing
    <2>4. at_'[s] = "remove" /\ loaded'[s] = new
      BY <1>1, <2>1 DEF Plugin!PluginTypes
    <2>5. PluginKept(s)'
      BY <2>1, <2>2, <2>3, <2>4
         DEF PluginKept, Plugin!Syncing, Plugin!Ready, Plugin!DirectoryReady,
             Plugin!RecordReady, Plugin!SettingReady, Plugin!BundledReady,
             Plugin!RecordOf
    <2>6. new["bundled"] <= records["bundled"] /\ new["external"] \in {0, 1}
      BY <1>1, <2>2, PluginFacts
    <2> QED
      BY <1>1, <1>2, <2>1, <2>2, <2>3, <2>5, <2>6, PluginSuffices
  <1>7. CASE Plugin!Record(s)
    <2> DEFINE new == [records EXCEPT !["external"] = 1]
    <2>1. /\ at_[s] = "record"
          /\ at_' = [at_ EXCEPT ![s] = "store"] /\ loaded' = [loaded EXCEPT ![s] = new]
          /\ UNCHANGED <<shipped, dirs, records, enabled, torn, op, met>>
      BY <1>7 DEF Plugin!Record, Plugin!Goes, Plugin!fileVars
    <2>2. /\ new \in [Plugin!Plugins -> Nat] /\ new["bundled"] = records["bundled"]
          /\ new["external"] = 1
      BY <1>1, <2>1, PluginFacts
    <2> HIDE DEF new
    <2>3. op[s] = "install" /\ Fits("store", op[s])
      BY <1>4, <2>1 DEF Fits, Plugin!Syncing
    <2>4. at_'[s] = "store" /\ loaded'[s] = new
      BY <1>1, <2>1 DEF Plugin!PluginTypes
    <2>5. PluginKept(s)'
      BY <1>1, <2>1, <2>2, <2>3, <2>4
         DEF PluginKept, Plugin!Syncing, Plugin!Ready, Plugin!DirectoryReady,
             Plugin!RecordReady, Plugin!SettingReady, Plugin!BundledReady,
             Plugin!RecordOf
    <2>6. new["bundled"] <= records["bundled"] /\ new["external"] \in {0, 1}
      BY <1>1, <2>2, PluginFacts
    <2> QED
      BY <1>1, <1>2, <2>1, <2>2, <2>3, <2>5, <2>6, PluginSuffices
  <1>8. CASE Plugin!Discover(s)
    <2> DEFINE pruned == [p \in Plugin!Plugins |-> IF Plugin!Stale(p) THEN 0 ELSE records[p]]
    <2>1. /\ at_[s] = "discover" /\ UNCHANGED <<shipped, dirs, records, enabled, torn, op, met>>
          /\ op[s] \in Plugin!Operations \ {"uninstall"}
      BY <1>4, <1>8 DEF Plugin!Discover, Plugin!fileVars, Fits, Plugin!Syncing
    <2>2. /\ pruned \in [Plugin!Plugins -> Nat]
          /\ pruned["bundled"] \in {0, records["bundled"]}
          /\ pruned["external"] \in {0, records["external"]}
          /\ \A p \in Plugin!Plugins : dirs[p].level = 3 => pruned[p] = records[p]
      BY <1>1, PluginFacts DEF Plugin!Stale
    <2>3. \/ /\ at_' = [at_ EXCEPT ![s] = "store_pruned"]
             /\ loaded' = [loaded EXCEPT ![s] = pruned]
          \/ at_' = [at_ EXCEPT ![s] = "known"] /\ UNCHANGED loaded
      BY <1>8 DEF Plugin!Discover, Plugin!Goes
    <2> HIDE DEF pruned
    <2>4. CASE /\ at_' = [at_ EXCEPT ![s] = "store_pruned"]
               /\ loaded' = [loaded EXCEPT ![s] = pruned]
      <3>1. Fits("store_pruned", op[s])
        BY <2>1 DEF Fits, Plugin!Syncing
      <3>2. at_'[s] = "store_pruned" /\ loaded'[s] = pruned
        BY <1>1, <2>4 DEF Plugin!PluginTypes
      <3>3. PluginKept(s)'
        BY <1>1, <2>1, <2>2, <3>2
           DEF PluginKept, Plugin!Syncing, Plugin!Ready, Plugin!DirectoryReady,
               Plugin!RecordReady, Plugin!SettingReady, Plugin!BundledReady,
               Plugin!RecordOf
      <3>4. pruned["external"] \in {0, 1}
        BY <1>1, <2>2, PluginFacts
      <3>5. pruned["bundled"] <= records["bundled"]
        BY <1>1, <2>2, PluginFacts
      <3> QED
        BY <1>2, <2>1, <2>2, <2>4, <3>1, <3>3, <3>4, <3>5, PluginSuffices
    <2>5. CASE at_' = [at_ EXCEPT ![s] = "known"] /\ UNCHANGED loaded
      <3>1. Fits("known", op[s])
        BY <2>1 DEF Fits, Plugin!Syncing
      <3>2. at_'[s] = "known" /\ loaded'[s] = loaded[s]
        BY <1>1, <2>5 DEF Plugin!PluginTypes
      <3>3. PluginKept(s)'
        BY <1>1, <2>1, <2>5, <3>2
           DEF PluginKept, Plugin!Syncing, Plugin!Ready, Plugin!DirectoryReady,
               Plugin!RecordReady, Plugin!SettingReady, Plugin!BundledReady,
               Plugin!RecordOf
      <3> QED
        BY <1>1, <1>2, <1>3, <2>1, <2>5, <3>1, <3>3, PluginFacts, PluginSuffices
    <2> QED
      BY <2>3, <2>4, <2>5
  <1>9. CASE Plugin!Known(s)
    <2> DEFINE place == IF op[s] \in {"enable", "disable"} THEN "settings" ELSE "done"
    <2>1. /\ at_[s] = "known" /\ at_' = [at_ EXCEPT ![s] = place]
          /\ UNCHANGED <<shipped, dirs, records, enabled, torn, op, met, loaded>>
      BY <1>9 DEF Plugin!Known, Plugin!Goes, Plugin!fileVars
    <2>2. op[s] \in Plugin!Operations \ {"uninstall"} /\ Fits(place, op[s])
      BY <1>4, <2>1 DEF Fits, Plugin!Syncing
    <2>3. at_'[s] = place /\ loaded'[s] = loaded[s]
      BY <1>1, <2>1 DEF Plugin!PluginTypes
    <2>4. PluginKept(s)'
      BY <1>1, <2>1, <2>2, <2>3
         DEF PluginKept, Plugin!Syncing, Plugin!Ready, Plugin!DirectoryReady,
             Plugin!RecordReady, Plugin!SettingReady, Plugin!BundledReady,
             Plugin!RecordOf
    <2>5. place \in {"settings", "done"}
      OBVIOUS
    <2> HIDE DEF place
    <2> QED
      BY <1>1, <1>2, <1>3, <2>1, <2>2, <2>4, <2>5, PluginFacts, PluginSuffices
  <1> QED
    BY <1>5, <1>6, <1>7, <1>8, <1>9

\* The directory of plugin p changes under a session that removes or copies it.
LEMMA DirectoriesKeep ==
  ASSUME Plugin!PluginInv, NEW s \in Sessions, NEW p \in Plugin!Plugins,
         Plugin!Remove(s, p) \/ Plugin!Copy(s, p) \/ Plugin!Copied(s, p)
  PROVE  Plugin!PluginInv'
  <1> USE PluginValues
  <1>1. /\ Plugin!PluginTypes /\ Plugin!VersionsRise /\ PluginKept(s)
        /\ Plugin!Busy \subseteq Sessions
    BY PluginParts DEF Plugin!Busy
  <1>2. ASSUME NEW place, Fits(place, op[s]), at_' = [at_ EXCEPT ![s] = place],
               NEW new \in [level : 0..3, version : Nat], dirs' = [dirs EXCEPT ![p] = new],
               \/ new = dirs[p] /\ UNCHANGED met
               \/ met' = met \cup (Plugin!Busy \ {s}),
               new.version = IF place = at_[s] \/ new = dirs[p] THEN dirs[p].version
                             ELSE Plugin!VersionOf(p),
               place = "idle" => at_[s] = "idle",
               place \in {"copying_bundled", "store_bundled"} =>
                 p = "bundled" /\ new.version = shipped,
               at_[s] \in {"remove_bundled", "copy_bundled"} =>
                 \/ place \in {"remove_bundled", "copy_bundled"}
                 \/ p = "bundled" /\ new.version = shipped,
               UNCHANGED <<shipped, records, enabled, torn, op, loaded>>
        PROVE  /\ Plugin!PluginTypes' /\ Plugin!VersionsRise'
               /\ \A q \in Sessions \ {s} : PluginKept(q)'
    <2>1. Plugin!PluginTypes'
      <3>1. op' = [op EXCEPT ![s] = op[s]] /\ op[s] \in Plugin!Operations
        BY <1>1, <1>2 DEF Plugin!PluginTypes
      <3>2. dirs' \in [Plugin!Plugins -> [level : 0..Plugin!Loads, version : Nat]]
        BY <1>1, <1>2 DEF Plugin!PluginTypes
      <3>3. /\ loaded' \in [Sessions -> [Plugin!Plugins -> Nat]]
            /\ \A q \in Sessions : loaded'[q]["external"] \in {0, 1}
            /\ records' \in [Plugin!Plugins -> Nat] /\ records'["external"] \in {0, 1}
            /\ enabled' \in {"unset", "on", "off"} /\ torn' \subseteq {"registry", "settings"}
            /\ met' \subseteq Sessions
        BY <1>1, <1>2 DEF Plugin!PluginTypes
      <3> HIDE PluginValues
      <3> QED
        BY <1>1, <1>2, <3>1, <3>2, <3>3, PluginTypesMove
    <2>2. Plugin!VersionsRise'
      <3>1. /\ at_'[s] = place /\ \A q \in Sessions \ {s} : at_'[q] = at_[q]
            /\ \A q \in Sessions : loaded'[q] = loaded[q]
        BY <1>1, <1>2 DEF Plugin!PluginTypes
      <3>2. /\ dirs'["bundled"].version \in {dirs["bundled"].version, shipped}
            /\ p = "bundled" => dirs'["bundled"] = new
            /\ p = "external" => dirs'["bundled"] = dirs["bundled"]
        BY <1>1, <1>2 DEF Plugin!VersionOf, Plugin!PluginTypes
      <3>3. dirs["bundled"].version = shipped => dirs'["bundled"].version = shipped
        BY <3>2
      <3>4. /\ dirs'["bundled"].version <= shipped /\ records'["bundled"] <= shipped
            /\ records'["bundled"] = shipped => dirs'["bundled"].version = shipped
        BY <1>1, <1>2, <3>2, <3>3, PluginFacts DEF Plugin!VersionsRise
      <3>5. ASSUME NEW q \in Sessions
            PROVE  /\ loaded'[q]["bundled"] <= shipped
                   /\ at_'[q] = "idle" => loaded'[q] = Plugin!NoRecords
                   /\ at_'[q] \in {"copying_bundled", "store_bundled"} =>
                        dirs'["bundled"].version = shipped
                   /\ loaded'[q]["bundled"] = shipped =>
                        \/ dirs'["bundled"].version = shipped
                        \/ at_'[q] \in {"remove_bundled", "copy_bundled"}
        <4>1. CASE q # s
          BY <1>1, <1>2, <3>1, <3>3, <4>1 DEF Plugin!VersionsRise
        <4>2. CASE q = s
          BY <1>1, <1>2, <3>1, <3>2, <3>3, <4>2 DEF Plugin!VersionsRise
        <4> QED
          BY <4>1, <4>2
      <3> QED
        BY <1>2, <3>4, <3>5 DEF Plugin!VersionsRise
    <2>3. \A q \in Sessions \ {s} : PluginKept(q)'
      <3>1. new = dirs[p] => dirs' = dirs
        BY <1>1, <1>2 DEF Plugin!PluginTypes
      <3> QED
        BY <1>1, <1>2, <3>1, OthersUncrossed DEF Plugin!PluginTypes
    <2> QED
      BY <2>1, <2>2, <2>3
  <1>3. /\ op[s] \in Plugin!Operations /\ Fits(at_[s], op[s])
        /\ dirs[p] \in [level : 0..3, version : Nat]
        /\ dirs[p].level \in 0..3 /\ dirs[p].version \in Nat
        /\ shipped \in Nat /\ shipped # 0
        /\ Plugin!VersionOf(p) \in Nat
    BY <1>1, PluginFacts DEF Plugin!PluginTypes, Plugin!VersionOf, Fits
  <1>4. CASE Plugin!Remove(s, p)
    <2>1. /\ at_[s] = IF p = "bundled" THEN "remove_bundled" ELSE "remove"
          /\ UNCHANGED <<shipped, records, enabled, torn, op, loaded>>
          /\ p = "external" => op[s] \in {"install", "update", "uninstall"}
          /\ p = "bundled" => op[s] # "uninstall"
      BY <1>3, <1>4 DEF Plugin!Remove, Fits, Plugin!Syncing
    <2>2. CASE dirs[p].level = Plugin!Absent
      <3> DEFINE place == IF p = "bundled" THEN "copy_bundled"
                          ELSE IF op[s] = "uninstall" THEN "store" ELSE "copy"
      <3>1. at_' = [at_ EXCEPT ![s] = place] /\ UNCHANGED <<dirs, met>>
        BY <1>4, <2>2 DEF Plugin!Remove, Plugin!Goes
      <3>2. Fits(place, op[s])
        BY <1>3, <2>1 DEF Fits, Plugin!Syncing
      <3>3. dirs' = [dirs EXCEPT ![p] = dirs[p]]
        BY <1>1, <3>1 DEF Plugin!PluginTypes
      <3>4. at_'[s] = place
        BY <1>1, <3>1 DEF Plugin!PluginTypes
      <3>5. PluginKept(s)'
        BY <1>1, <2>1, <2>2, <3>1, <3>4
           DEF PluginKept, Plugin!Syncing, Plugin!Ready, Plugin!DirectoryReady,
               Plugin!RecordReady, Plugin!SettingReady, Plugin!BundledReady,
               Plugin!RecordOf
      <3>6. /\ place # "idle" /\ place \notin {"copying_bundled", "store_bundled"}
            /\ at_[s] \in {"remove_bundled", "copy_bundled"} => place = "copy_bundled"
        BY <2>1
      <3> HIDE DEF place
      <3> QED
        BY <1>2, <1>3, <2>1, <3>1, <3>2, <3>3, <3>5, <3>6, PluginSuffices
    <2>3. CASE dirs[p].level # Plugin!Absent
      <3>1. PICK level \in 0..(dirs[p].level - 1) : dirs' = [dirs EXCEPT ![p].level = level]
        BY <1>4, <2>3 DEF Plugin!Remove
      <3> DEFINE new == [dirs[p] EXCEPT !.level = level]
      <3>6. level \in 0..3 /\ dirs' = [dirs EXCEPT ![p] = new]
        BY <1>3, <3>1
      <3>2. new \in [level : 0..3, version : Nat] /\ new.version = dirs[p].version
        BY <1>3, <3>6
      <3> HIDE DEF new
      <3>3. /\ met' = met \cup (Plugin!Busy \ {s}) /\ UNCHANGED at_
            /\ at_' = [at_ EXCEPT ![s] = at_[s]]
        BY <1>1, <1>4, <2>3 DEF Plugin!Remove, Plugin!Changes, Plugin!PluginTypes
      <3>4. p = "bundled" => dirs'["external"] = dirs["external"]
        BY <1>1, <3>6 DEF Plugin!PluginTypes
      <3>5. PluginKept(s)'
        BY <1>1, <2>1, <3>3, <3>4
           DEF PluginKept, Plugin!Syncing, Plugin!Ready, Plugin!DirectoryReady,
               Plugin!RecordReady, Plugin!SettingReady, Plugin!BundledReady,
               Plugin!RecordOf
      <3> QED
        BY <1>2, <1>3, <2>1, <3>2, <3>3, <3>5, <3>6, PluginSuffices
    <2> QED
      BY <2>2, <2>3
  <1>5. CASE Plugin!Copy(s, p)
    <2> DEFINE place == IF p = "bundled" THEN "copying_bundled" ELSE "copying"
    <2>1. /\ at_[s] = IF p = "bundled" THEN "copy_bundled" ELSE "copy"
          /\ at_' = [at_ EXCEPT ![s] = place]
          /\ met' = met \cup (Plugin!Busy \ {s})
          /\ UNCHANGED <<shipped, records, enabled, torn, op, loaded>>
          /\ p = "external" => op[s] \in {"install", "update"}
          /\ p = "bundled" => op[s] # "uninstall"
      BY <1>3, <1>5 DEF Plugin!Copy, Plugin!Goes, Plugin!Changes, Fits, Plugin!Syncing
    <2>2. PICK level \in {1, 2, 3} :
            dirs' = [dirs EXCEPT ![p] = [level |-> level, version |-> Plugin!VersionOf(p)]]
      BY <1>5 DEF Plugin!Copy
    <2> DEFINE new == [level |-> level, version |-> Plugin!VersionOf(p)]
    <2>3. new \in [level : 0..3, version : Nat] /\ new.version = Plugin!VersionOf(p)
      BY <1>3
    <2> HIDE DEF new
    <2>4. dirs' = [dirs EXCEPT ![p] = new] /\ (p = "bundled" => new.version = shipped)
      BY <2>2, <2>3 DEF new, Plugin!VersionOf
    <2>5. at_'[s] = place /\ (p = "bundled" => dirs'["external"] = dirs["external"])
      BY <1>1, <2>1, <2>4 DEF Plugin!PluginTypes
    <2>6. PluginKept(s)'
      BY <1>1, <2>1, <2>5
         DEF PluginKept, Plugin!Syncing, Plugin!Ready, Plugin!DirectoryReady,
             Plugin!RecordReady, Plugin!SettingReady, Plugin!BundledReady,
             Plugin!RecordOf
    <2>7. /\ place # "idle" /\ Fits(place, op[s]) /\ place # at_[s]
          /\ place \in {"copying_bundled", "store_bundled"} => p = "bundled"
          /\ at_[s] \in {"remove_bundled", "copy_bundled"} => p = "bundled"
      BY <1>3, <2>1 DEF Fits, Plugin!Syncing
    <2>8. new = dirs[p] => new.version = dirs[p].version
      OBVIOUS
    <2> HIDE DEF place
    <2> QED
      BY <1>2, <1>3, <2>1, <2>3, <2>4, <2>6, <2>7, <2>8, PluginSuffices
  <1>6. CASE Plugin!Copied(s, p)
    <2> DEFINE place == IF p = "bundled" THEN "store_bundled"
                        ELSE IF op[s] = "install" THEN "record" ELSE "store"
    <2>1. /\ at_[s] = IF p = "bundled" THEN "copying_bundled" ELSE "copying"
          /\ at_' = [at_ EXCEPT ![s] = place]
          /\ met' = met \cup (Plugin!Busy \ {s})
          /\ UNCHANGED <<shipped, records, enabled, torn, op, loaded>>
          /\ p = "external" => op[s] \in {"install", "update"}
          /\ p = "bundled" => op[s] # "uninstall"
      BY <1>3, <1>6 DEF Plugin!Copied, Plugin!Goes, Plugin!Changes, Fits, Plugin!Syncing
    <2>2. PICK level \in (IF s \in met THEN dirs[p].level..3 ELSE {3}) :
            dirs' = [dirs EXCEPT ![p] = [level |-> level, version |-> Plugin!VersionOf(p)]]
      BY <1>6 DEF Plugin!Copied
    <2> DEFINE new == [level |-> level, version |-> Plugin!VersionOf(p)]
    <2>3. /\ new \in [level : 0..3, version : Nat] /\ new.version = Plugin!VersionOf(p)
          /\ s \notin met => new = [level |-> 3, version |-> Plugin!VersionOf(p)]
      BY <1>3, <2>2
    <2> HIDE DEF new
    <2>4. dirs' = [dirs EXCEPT ![p] = new] /\ (p = "bundled" => new.version = shipped)
      BY <2>2, <2>3 DEF new, Plugin!VersionOf
    <2>5. /\ at_'[s] = place /\ dirs'[p] = new
          /\ p = "bundled" => dirs'["external"] = dirs["external"]
      BY <1>1, <2>1, <2>4 DEF Plugin!PluginTypes
    <2>6. s \notin met /\ p = "bundled" => new = [level |-> 3, version |-> shipped]
      BY <2>3 DEF Plugin!VersionOf
    <2>7. PluginKept(s)'
      BY <1>1, <2>1, <2>3, <2>5, <2>6
         DEF PluginKept, Plugin!Syncing, Plugin!Ready, Plugin!DirectoryReady,
             Plugin!RecordReady, Plugin!SettingReady, Plugin!BundledReady,
             Plugin!RecordOf
    <2>8. /\ place # "idle" /\ Fits(place, op[s]) /\ place # at_[s]
          /\ place \in {"copying_bundled", "store_bundled"} => p = "bundled"
          /\ at_[s] \notin {"remove_bundled", "copy_bundled"}
      BY <1>3, <2>1 DEF Fits, Plugin!Syncing
    <2>9. new = dirs[p] => new.version = dirs[p].version
      OBVIOUS
    <2> HIDE DEF place
    <2> QED
      BY <1>2, <1>3, <2>1, <2>3, <2>4, <2>7, <2>8, <2>9, PluginSuffices
  <1> QED
    BY <1>4, <1>5, <1>6

\* The registry and the settings are emptied, and filled.
LEMMA FilesKeep ==
  ASSUME Plugin!PluginInv, NEW s \in Sessions,
         Plugin!Store(s) \/ Plugin!Fill(s) \/ Plugin!Settings(s) \/ Plugin!Write(s)
  PROVE  Plugin!PluginInv'
  <1> USE PluginValues
  <1>1. /\ Plugin!PluginTypes /\ Plugin!VersionsRise /\ PluginKept(s)
        /\ Plugin!Busy \subseteq Sessions
    BY PluginParts DEF Plugin!Busy
  <1>2. /\ op[s] \in Plugin!Operations /\ Fits(at_[s], op[s])
        /\ loaded[s] \in [Plugin!Plugins -> Nat] /\ loaded[s]["external"] \in {0, 1}
        /\ records \in [Plugin!Plugins -> Nat] /\ records["external"] \in {0, 1}
        /\ shipped \in Nat /\ shipped # 0
    BY <1>1, PluginFacts DEF Plugin!PluginTypes, Fits
  <1>3. met' = met \cup (Plugin!Busy \ {s}) /\ UNCHANGED <<shipped, dirs, op>>
    BY DEF Plugin!Store, Plugin!Fill, Plugin!Settings, Plugin!Write, Plugin!Changes
  <1>4. ASSUME NEW place, Fits(place, op[s]), place # "idle", place # "copying_bundled",
               at_' = [at_ EXCEPT ![s] = place],
               loaded' \in {loaded, [loaded EXCEPT ![s] = Plugin!NoRecords]},
               place = "store_bundled" => at_[s] = "store_bundled",
               at_[s] \notin {"remove_bundled", "copy_bundled"},
               records' \in {records, loaded[s], Plugin!NoRecords},
               enabled' \in {"unset", "on", "off"}, torn' \subseteq torn \cup {"registry"},
               PluginKept(s)'
        PROVE  Plugin!PluginInv'
    <2>1. /\ loaded' \in [Sessions -> [Plugin!Plugins -> Nat]]
          /\ \A q \in Sessions : loaded'[q]["external"] \in {0, 1}
          /\ \A q \in Sessions \ {s} : loaded'[q] = loaded[q] /\ at_'[q] = at_[q]
          /\ at_'[s] = place /\ loaded'[s] \in {loaded[s], Plugin!NoRecords}
      BY <1>1, <1>4 DEF Plugin!PluginTypes
    <2>2. Plugin!PluginTypes'
      <3>1. op' = [op EXCEPT ![s] = op[s]]
        BY <1>1, <1>3 DEF Plugin!PluginTypes
      <3>2. /\ dirs' \in [Plugin!Plugins -> [level : 0..Plugin!Loads, version : Nat]]
            /\ torn' \subseteq {"registry", "settings"} /\ met' \subseteq Sessions
        BY <1>1, <1>3, <1>4 DEF Plugin!PluginTypes
      <3>3. records' \in [Plugin!Plugins -> Nat] /\ records'["external"] \in {0, 1}
        BY <1>2, <1>4
      <3> HIDE PluginValues
      <3> QED
        BY <1>1, <1>2, <1>3, <1>4, <2>1, <3>1, <3>2, <3>3, PluginTypesMove
    <2>3. Plugin!VersionsRise'
      <3>1. /\ records'["bundled"] <= shipped
            /\ records'["bundled"] = shipped => dirs["bundled"].version = shipped
        BY <1>1, <1>2, <1>4 DEF Plugin!VersionsRise
      <3>2. ASSUME NEW q \in Sessions
            PROVE  /\ loaded'[q]["bundled"] <= shipped
                   /\ at_'[q] = "idle" => loaded'[q] = Plugin!NoRecords
                   /\ at_'[q] \in {"copying_bundled", "store_bundled"} =>
                        dirs["bundled"].version = shipped
                   /\ loaded'[q]["bundled"] = shipped =>
                        \/ dirs["bundled"].version = shipped
                        \/ at_'[q] \in {"remove_bundled", "copy_bundled"}
        <4>1. CASE q # s
          BY <1>1, <2>1, <4>1 DEF Plugin!VersionsRise
        <4>2. CASE q = s
          BY <1>1, <1>2, <1>4, <2>1, <4>2 DEF Plugin!VersionsRise
        <4> QED
          BY <4>1, <4>2
      <3> QED
        BY <1>1, <1>3, <3>1, <3>2 DEF Plugin!VersionsRise
    <2>4. \A q \in Sessions \ {s} : PluginKept(q)'
      BY <1>1, <1>3, <2>1, OthersUncrossed DEF Plugin!PluginTypes
    <2> QED
      BY <1>4, <2>2, <2>3, <2>4, PluginSuffices
  <1>5. CASE Plugin!Store(s)
    <2>1. PICK place \in {"fill_bundled", "fill", "fill_pruned"} :
            /\ at_' = [at_ EXCEPT ![s] = place]
            /\ place = "fill_bundled" <=> at_[s] = "store_bundled"
            /\ place = "fill" <=> at_[s] = "store"
            /\ place = "fill_pruned" <=> at_[s] = "store_pruned"
            /\ at_[s] \in {"store_bundled", "store", "store_pruned"}
      <3>1. /\ DOMAIN Plugin!Storing = {"store_bundled", "store", "store_pruned"}
            /\ Plugin!Storing["store_bundled"] = "fill_bundled"
            /\ Plugin!Storing["store"] = "fill"
            /\ Plugin!Storing["store_pruned"] = "fill_pruned"
        BY DEF Plugin!Storing
      <3>2. at_[s] \in DOMAIN Plugin!Storing
            /\ at_' = [at_ EXCEPT ![s] = Plugin!Storing[at_[s]]]
        BY <1>5 DEF Plugin!Store, Plugin!Goes
      <3> QED
        BY <3>1, <3>2
    <2>2. /\ records' = Plugin!NoRecords /\ UNCHANGED <<enabled, loaded>> /\ torn' \subseteq torn
          /\ at_'[s] = place
      BY <1>1, <1>5, <2>1 DEF Plugin!Store, Plugin!PluginTypes
    <2>3. Fits(place, op[s])
      BY <1>2, <2>1 DEF Fits, Plugin!Syncing
    <2>4. PluginKept(s)'
      BY <1>1, <1>2, <1>3, <2>1, <2>2
         DEF PluginKept, Plugin!Syncing, Plugin!Ready, Plugin!DirectoryReady,
             Plugin!RecordReady, Plugin!SettingReady, Plugin!BundledReady,
             Plugin!RecordOf
    <2>5. enabled' \in {"unset", "on", "off"}
      BY <1>1, <2>2 DEF Plugin!PluginTypes
    <2> QED
      BY <1>4, <2>1, <2>2, <2>3, <2>4, <2>5
  <1>6. CASE Plugin!Fill(s)
    <2> DEFINE place == IF at_[s] = "fill_bundled" THEN "discover"
                        ELSE IF at_[s] = "fill_pruned" THEN "known"
                        ELSE IF op[s] = "update" THEN "sync" ELSE "settings"
    <2>1. /\ at_[s] \in {"fill_bundled", "fill", "fill_pruned"}
          /\ at_' = [at_ EXCEPT ![s] = place] /\ records' = loaded[s]
          /\ loaded' = [loaded EXCEPT ![s] = Plugin!NoRecords] /\ UNCHANGED enabled
          /\ torn' \subseteq torn \cup {"registry"}
      BY <1>6 DEF Plugin!Fill, Plugin!Goes
    <2>2. Fits(place, op[s]) /\ place \in {"discover", "known", "sync", "settings"}
      BY <1>2, <2>1 DEF Fits, Plugin!Syncing
    <2>3. /\ at_'[s] = place
          /\ at_[s] = "fill" => op[s] \in {"install", "update", "uninstall"}
      BY <1>1, <1>2, <2>1 DEF Plugin!PluginTypes, Fits, Plugin!Syncing
    <2>4. PluginKept(s)'
      BY <1>1, <1>2, <1>3, <2>1, <2>2, <2>3
         DEF PluginKept, Plugin!Syncing, Plugin!Ready, Plugin!DirectoryReady,
             Plugin!RecordReady, Plugin!SettingReady, Plugin!BundledReady,
             Plugin!RecordOf
    <2>5. enabled' \in {"unset", "on", "off"}
      BY <1>1, <2>1 DEF Plugin!PluginTypes
    <2> HIDE DEF place
    <2> QED
      BY <1>4, <2>1, <2>2, <2>4, <2>5
  <1>7. CASE Plugin!Settings(s)
    <2>1. /\ at_[s] = "settings" /\ at_' = [at_ EXCEPT ![s] = "write"] /\ enabled' = "unset"
          /\ UNCHANGED <<records, torn, loaded>>
      BY <1>7 DEF Plugin!Settings, Plugin!Goes
    <2>2. /\ Fits("write", op[s]) /\ at_'[s] = "write"
          /\ op[s] \in {"install", "uninstall", "enable", "disable"}
      BY <1>1, <1>2, <2>1 DEF Plugin!PluginTypes, Fits, Plugin!Syncing
    <2>3. PluginKept(s)'
      BY <1>1, <1>2, <1>3, <2>1, <2>2
         DEF PluginKept, Plugin!Syncing, Plugin!Ready, Plugin!DirectoryReady,
             Plugin!RecordReady, Plugin!SettingReady, Plugin!BundledReady,
             Plugin!RecordOf
    <2> QED
      BY <1>4, <2>1, <2>2, <2>3
  <1>8. CASE Plugin!Write(s)
    <2> DEFINE place == IF op[s] = "install" THEN "sync" ELSE "done"
    <2>1. /\ at_[s] = "write" /\ at_' = [at_ EXCEPT ![s] = place]
          /\ UNCHANGED <<records, torn, loaded>>
          /\ op[s] \in {"install", "enable"} => enabled' = "on"
          /\ op[s] = "disable" => enabled' = "off"
          /\ op[s] \notin {"install", "enable", "disable"} => enabled' = "unset"
      BY <1>8 DEF Plugin!Write, Plugin!Goes
    <2>2. /\ Fits(place, op[s]) /\ at_'[s] = place /\ place \in {"sync", "done"}
          /\ op[s] \in {"install", "uninstall", "enable", "disable"}
      BY <1>1, <1>2, <2>1 DEF Plugin!PluginTypes, Fits, Plugin!Syncing
    <2>3. PluginKept(s)'
      BY <1>1, <1>2, <1>3, <2>1, <2>2
         DEF PluginKept, Plugin!Syncing, Plugin!Ready, Plugin!DirectoryReady,
             Plugin!RecordReady, Plugin!SettingReady, Plugin!BundledReady,
             Plugin!RecordOf
    <2>4. enabled' \in {"unset", "on", "off"}
      BY <2>1, <2>2
    <2> HIDE DEF place
    <2> QED
      BY <1>4, <2>1, <2>2, <2>3, <2>4
  <1> QED
    BY <1>5, <1>6, <1>7, <1>8

LEMMA NobodyAtWork ==
  ASSUME Plugin!PluginInv, Plugin!Release \/ Plugin!Mend
  PROVE  Plugin!PluginInv'
  <1>1. /\ Plugin!PluginTypes /\ Plugin!VersionsRise
        /\ \A s \in Sessions : at_[s] = "idle" /\ loaded[s] = Plugin!NoRecords
        /\ UNCHANGED <<dirs, records, enabled, at_, op, loaded, met>>
        /\ shipped' \in {shipped, shipped + 1} /\ torn' \subseteq torn
    BY PluginParts
       DEF Plugin!Release, Plugin!Mend, Plugin!Busy, Plugin!fileVars, Plugin!VersionsRise
  <1>2. Plugin!PluginTypes'
    BY <1>1 DEF Plugin!PluginTypes
  <1>3. /\ dirs["bundled"].version \in Nat /\ records["bundled"] \in Nat /\ shipped \in Nat \ {0}
        /\ Plugin!NoRecords["bundled"] = 0
    BY <1>1, PluginValues DEF Plugin!PluginTypes
  <1>4. Plugin!VersionsRise'
    BY <1>1, <1>3 DEF Plugin!VersionsRise
  <1> QED
    BY <1>1, <1>2, <1>4 DEF Plugin!PluginInv

LEMMA PluginNext ==
  ASSUME Plugin!PluginInv, [Next]_vars
  PROVE  Plugin!PluginInv'
  <1>1. CASE UNCHANGED pluginVars
    BY <1>1 DEF pluginVars, Plugin!PluginInv, Plugin!PluginTypes, Plugin!VersionsRise,
                Plugin!Ready, Plugin!DirectoryReady, Plugin!RecordReady, Plugin!SettingReady,
                Plugin!BundledReady, Plugin!RecordOf
  <1>2. CASE Plugin!Next
    BY <1>2, BeginsAndEnds, ReadsKeep, DirectoriesKeep, FilesKeep, NobodyAtWork
       DEF Plugin!Next
  <1> QED
    BY <1>1, <1>2, NextParts

(* plugins/src/lib.rs: a sync that no other session crosses leaves the       *)
(* bundled plugin whole and recorded in the version that ships, whatever was *)
(* cut off before.                                                           *)
THEOREM SyncsRepair == Spec => []SyncRepairs
  <1>1. Plugin!PluginInv => SyncRepairs
    BY DEF Plugin!PluginInv, Plugin!Ready, Plugin!BundledReady, Plugin!RecordOf,
           Plugin!Syncing, SyncRepairs, Plugin!SyncRepairs
  <1> QED
    BY <1>1, PluginInit, PluginNext, PTL DEF Spec

(* plugins/src/lib.rs: an operation that reports success, and was not        *)
(* crossed, has done all of it.                                              *)
THEOREM SuccessIsTrue == Spec => []SuccessTrue
  <1>1. Plugin!PluginInv => SuccessTrue
    BY DEF Plugin!PluginInv, Plugin!Ready, Plugin!DirectoryReady, Plugin!RecordReady,
           Plugin!SettingReady, Plugin!BundledReady, Plugin!RecordOf, Plugin!Syncing,
           SuccessTrue, Plugin!SuccessTrue
  <1> QED
    BY <1>1, PluginInit, PluginNext, PTL DEF Spec

-----------------------------------------------------------------------------
(* The answers of the model.                                                 *)

Pieces == {1, 2} \X Nat \X Nat
Events == [kind : Stream!Kinds, input : Seq(Pieces)]

\* The first n parts of block i of response r.
First(r, i, n) == [k \in 1..n |-> <<r, i, k>>]

LEMMA StreamConstants == Parts \in Nat \ {0} /\ Responses \subseteq Seq(Stream!Kinds)
  BY TerminalAssumption DEF TerminalAssumption, Stream!ModelStreamAssumption

LEMMA FirstParts ==
  ASSUME NEW r \in {1, 2}, NEW i \in Nat, NEW n \in 0..Parts
  PROVE  /\ First(r, i, n) \in Seq(Pieces) /\ Len(First(r, i, n)) = n
         /\ DOMAIN First(r, i, n) = 1..n
         /\ Stream!ToSet(First(r, i, n)) = {<<r, i, k>> : k \in 1..n}
         /\ First(r, i, Parts) = Stream!Full(r, i)
         /\ Stream!IsPrefix(First(r, i, n), Stream!Full(r, i))
  <1>1. n \in Nat /\ n <= Parts /\ Parts \in Nat
    BY StreamConstants
  <1>2. \A m \in Nat : First(r, i, m) \in Seq(Pieces) /\ Len(First(r, i, m)) = m
    <2> TAKE m \in Nat
    <2>1. First(r, i, m) \in [1..m -> Pieces]
      BY DEF First, Pieces
    <2> QED
      BY <2>1, SeqDef, LenProperties
  <1>3. First(r, i, Parts) = Stream!Full(r, i)
    BY DEF First, Stream!Full
  <1>4. SubSeq(First(r, i, n), 1, n) = SubSeq(First(r, i, Parts), 1, n)
    <2>1. \A m \in {n, Parts} : /\ SubSeq(First(r, i, m), 1, n) \in Seq(Pieces)
                                /\ Len(SubSeq(First(r, i, m), 1, n)) = n
                                /\ \A k \in 1..n : SubSeq(First(r, i, m), 1, n)[k] = <<r, i, k>>
      <3> TAKE m \in {n, Parts}
      <3>1. /\ First(r, i, m) \in Seq(Pieces) /\ Len(First(r, i, m)) = m /\ n <= m
            /\ \A k \in 1..n : First(r, i, m)[k] = <<r, i, k>>
        BY <1>1, <1>2 DEF First
      <3> QED
        BY <1>1, <3>1
    <2> QED
      BY <2>1, SeqEqual
  <1>5. Stream!ToSet(First(r, i, n)) = {<<r, i, k>> : k \in 1..n}
    BY DEF Stream!ToSet, First
  <1> QED
    BY <1>1, <1>2, <1>3, <1>4, <1>5 DEF Stream!IsPrefix, First

LEMMA StreamInit == Init => Stream!StreamInv
  <1> SUFFICES ASSUME Stream!Init PROVE Stream!StreamInv
    BY DEF Init, PartsInit
  <1>1. response \in Seq(Stream!Kinds) /\ events \in Seq(Events)
    BY EmptySeq DEF Stream!Init
  <1>2. Stream!Blocks = {} /\ arrived \in [Stream!Blocks -> 0..Parts]
    BY DEF Stream!Init, Stream!Blocks
  <1>3. Stream!StreamTypes
    BY <1>1, <1>2 DEF Stream!Init, Stream!StreamTypes, Events, Pieces
  <1> QED
    BY <1>3 DEF Stream!Init, Stream!StreamInv, Stream!AnswerHonest

\* The events of a response of which arr parts have arrived and the blocks en
\* have ended: each is a part of a text, or a tool's input; ...
SeenIn(arr, i) == {<<1, i, k>> : k \in 1..arr[i]}
TrueOf(resp, arr, en, e) ==
    \E i \in DOMAIN resp :
        /\ e.kind = resp[i]
        /\ \/ resp[i] = "text" /\ \E k \in 1..arr[i] : e.input = <<<<1, i, k>>>>
           \/ resp[i] = "tool" /\ i \in en /\ e.input = First(1, i, arr[i])

\* ... no part is in two of them, and none is missing.
Apart(evs) ==
    \A m, n \in DOMAIN evs :
        m # n => Stream!ToSet(evs[m].input) \cap Stream!ToSet(evs[n].input) = {}
PartsOf(evs) == UNION {Stream!ToSet(evs[n].input) : n \in DOMAIN evs}
WholeOf(resp, arr, en, evs) ==
    /\ \A n \in DOMAIN evs : TrueOf(resp, arr, en, evs[n])
    /\ Apart(evs)
    /\ \A i \in DOMAIN resp : \/ resp[i] = "text"
                              \/ resp[i] = "tool" /\ i \in en
            => SeenIn(arr, i) \subseteq PartsOf(evs)
Typed(resp, arr, en, evs) ==
    /\ resp \in Seq(Stream!Kinds) /\ arr \in [DOMAIN resp -> 0..Parts]
    /\ en \subseteq DOMAIN resp /\ evs \in Seq(Events)

LEMMA TypedValues ==
  ASSUME NEW resp, NEW arr, NEW en, NEW evs, Typed(resp, arr, en, evs)
  PROVE  /\ DOMAIN resp = 1..Len(resp) /\ DOMAIN resp \subseteq Nat
         /\ \A i \in DOMAIN resp : arr[i] \in 0..Parts /\ arr[i] \in Nat
         /\ \A n \in DOMAIN evs : evs[n] \in Events
         /\ DOMAIN evs = 1..Len(evs) /\ Len(evs) \in Nat
  <1>1. /\ resp \in Seq(Stream!Kinds) /\ arr \in [DOMAIN resp -> 0..Parts]
        /\ evs \in Seq(Events) /\ Parts \in Nat
    BY StreamConstants DEF Typed
  <1>2. DOMAIN resp = 1..Len(resp) /\ Len(resp) \in Nat
    BY <1>1
  <1>3. DOMAIN evs = 1..Len(evs) /\ Len(evs) \in Nat
    BY <1>1
  <1>4. \A n \in DOMAIN evs : evs[n] \in Events
    BY <1>1, <1>3
  <1> QED
    BY <1>1, <1>2, <1>3, <1>4

\* The parts of one event are of one block, and have arrived.
LEMMA EventParts ==
  ASSUME NEW resp, NEW arr, NEW en, NEW evs, Typed(resp, arr, en, evs),
         NEW e, TrueOf(resp, arr, en, e), NEW p \in Stream!ToSet(e.input)
  PROVE  \E i \in DOMAIN resp : \E k \in 1..arr[i] :
            /\ p = <<1, i, k>> /\ e.kind = resp[i]
            /\ resp[i] = "text" \/ (resp[i] = "tool" /\ i \in en)
  <1>1. PICK i \in DOMAIN resp :
          /\ e.kind = resp[i]
          /\ \/ resp[i] = "text" /\ \E k \in 1..arr[i] : e.input = <<<<1, i, k>>>>
             \/ resp[i] = "tool" /\ i \in en /\ e.input = First(1, i, arr[i])
    BY DEF TrueOf
  <1>2. CASE resp[i] = "text"
    <2>1. PICK k \in 1..arr[i] : e.input = <<<<1, i, k>>>>
      BY <1>1, <1>2
    <2>2. p = <<1, i, k>>
      BY <2>1 DEF Stream!ToSet
    <2> QED
      BY <1>1, <1>2, <2>2
  <1>3. CASE resp[i] = "tool"
    <2>1. i \in Nat /\ arr[i] \in 0..Parts
      BY TypedValues
    <2>2. Stream!ToSet(e.input) = {<<1, i, k>> : k \in 1..arr[i]}
      BY <1>1, <1>3, <2>1, FirstParts
    <2>3. PICK k \in 1..arr[i] : p = <<1, i, k>>
      BY <2>2
    <2> QED
      BY <1>1, <1>3, <2>3
  <1> QED
    BY <1>1, <1>2, <1>3

LEMMA FirstGrows ==
  ASSUME NEW i \in Nat, NEW a \in Nat, a + 1 <= Parts
  PROVE  /\ Append(First(1, i, a), <<1, i, a + 1>>) = First(1, i, a + 1)
         /\ <<<<1, i, 1>>>> = First(1, i, 1)
  <1>1. /\ a \in 0..Parts /\ a + 1 \in 0..Parts /\ 1 \in 0..Parts
        /\ <<1, i, a + 1>> \in Pieces /\ <<1, i, 1>> \in Pieces
    BY StreamConstants DEF Pieces
  <1>2. /\ First(1, i, a) \in Seq(Pieces) /\ Len(First(1, i, a)) = a
        /\ First(1, i, a + 1) \in Seq(Pieces) /\ Len(First(1, i, a + 1)) = a + 1
        /\ First(1, i, 1) \in Seq(Pieces) /\ Len(First(1, i, 1)) = 1
    BY <1>1, FirstParts
  <1>3. /\ \A k \in 1..a : First(1, i, a)[k] = <<1, i, k>>
        /\ \A k \in 1..(a + 1) : First(1, i, a + 1)[k] = <<1, i, k>>
        /\ First(1, i, 1)[1] = <<1, i, 1>>
    BY DEF First
  <1>4. <<<<1, i, 1>>>> = First(1, i, 1)
    <2>1. /\ <<<<1, i, 1>>>> \in Seq(Pieces) /\ Len(<<<<1, i, 1>>>>) = 1
          /\ <<<<1, i, 1>>>>[1] = <<1, i, 1>>
      BY <1>1
    <2> QED
      BY <1>2, <1>3, <2>1, SeqEqual
  <1>5. Append(First(1, i, a), <<1, i, a + 1>>) = First(1, i, a + 1)
    <2> DEFINE s == First(1, i, a)
               x == <<1, i, a + 1>>
               t == Append(s, x)
               u == First(1, i, a + 1)
    <2>0. /\ s \in Seq(Pieces) /\ Len(s) = a /\ x \in Pieces
          /\ u \in Seq(Pieces) /\ Len(u) = a + 1
          /\ \A k \in 1..a : s[k] = u[k]
          /\ u[a + 1] = x
      <3>1. /\ s \in Seq(Pieces) /\ Len(s) = a /\ x \in Pieces
            /\ u \in Seq(Pieces) /\ Len(u) = a + 1
        BY <1>1, <1>2
      <3>2. \A k \in 1..a : k \in 1..(a + 1) /\ s[k] = <<1, i, k>> /\ u[k] = <<1, i, k>>
        BY DEF First
      <3>3. u[a + 1] = x
        BY DEF First
      <3> QED
        BY <3>1, <3>2, <3>3
    <2> HIDE DEF s, x, u
    <2>1. /\ t \in Seq(Pieces) /\ Len(t) = a + 1 /\ t[a + 1] = x
          /\ \A k \in 1..a : t[k] = s[k]
      BY <2>0, AppendProperties
    <2> HIDE DEF t
    <2>2. \A k \in 1..Len(t) : t[k] = u[k]
      BY <2>0, <2>1
    <2>3. t = u
      BY <2>0, <2>1, <2>2, SeqEqual
    <2> QED
      BY <2>3 DEF t, s, x, u
  <1> QED
    BY <1>4, <1>5

\* One more part of a text, and one more event.
OneMore(arr, i) == [arr EXCEPT ![i] = arr[i] + 1]
TextOf(arr, i) == [kind |-> "text", input |-> <<<<1, i, arr[i] + 1>>>>]
LEMMA TextArrives ==
  ASSUME NEW resp, NEW arr, NEW en, NEW evs, Typed(resp, arr, en, evs),
         WholeOf(resp, arr, en, evs), NEW i \in DOMAIN resp, resp[i] = "text",
         arr[i] < Parts
  PROVE  /\ Typed(resp, OneMore(arr, i), en, Append(evs, TextOf(arr, i)))
         /\ WholeOf(resp, OneMore(arr, i), en, Append(evs, TextOf(arr, i)))
  <1> DEFINE new == <<1, i, arr[i] + 1>>
             e == TextOf(arr, i)
             arr1 == OneMore(arr, i)
             evs1 == Append(evs, e)
  <1>1. /\ arr[i] \in Nat /\ i \in Nat /\ arr[i] + 1 \in 1..Parts
        /\ arr1 \in [DOMAIN resp -> 0..Parts] /\ arr1[i] = arr[i] + 1
        /\ \A j \in DOMAIN resp \ {i} : arr1[j] = arr[j]
    <2>1. /\ arr \in [DOMAIN resp -> 0..Parts] /\ i \in Nat /\ arr[i] \in Nat
          /\ Parts \in Nat
      BY TypedValues, StreamConstants DEF Typed
    <2>2. arr[i] + 1 \in 1..Parts /\ arr[i] + 1 \in 0..Parts
      BY <2>1
    <2> QED
      BY <2>1, <2>2 DEF OneMore
  <1>2. e \in Events /\ e.kind = "text" /\ e.input = <<new>>
    BY <1>1 DEF Events, Pieces, Stream!Kinds, TextOf
  <1> HIDE DEF e, arr1
  <1>3. Stream!ToSet(e.input) = {new}
    BY <1>2 DEF Stream!ToSet
  <1>4. evs1 = Append(evs, e) /\ evs \in Seq(Events)
    BY DEF Typed
  <1> HIDE DEF evs1
  <1>5. TrueOf(resp, arr1, en, e)
    BY <1>1, <1>2 DEF TrueOf
  <1>6. \A d : TrueOf(resp, arr, en, d) => TrueOf(resp, arr1, en, d)
    <2> SUFFICES ASSUME NEW d, TrueOf(resp, arr, en, d) PROVE TrueOf(resp, arr1, en, d)
      OBVIOUS
    <2>1. PICK j \in DOMAIN resp :
            /\ d.kind = resp[j]
            /\ \/ resp[j] = "text" /\ \E k \in 1..arr[j] : d.input = <<<<1, j, k>>>>
               \/ resp[j] = "tool" /\ j \in en /\ d.input = First(1, j, arr[j])
      BY DEF TrueOf
    <2>2. \A k \in 1..arr[j] : k \in 1..arr1[j]
      BY <1>1, TypedValues
    <2>3. resp[j] = "tool" => arr1[j] = arr[j]
      BY <1>1
    <2> QED
      BY <2>1, <2>2, <2>3 DEF TrueOf
  <1>7. \A j \in DOMAIN resp : SeenIn(arr1, j) \subseteq SeenIn(arr, j) \cup {new}
    BY <1>1 DEF SeenIn
  <1>8. \A n \in DOMAIN evs : new \notin Stream!ToSet(evs[n].input)
    <2> SUFFICES ASSUME NEW n \in DOMAIN evs, new \in Stream!ToSet(evs[n].input)
                 PROVE  FALSE
      OBVIOUS
    <2>1. TrueOf(resp, arr, en, evs[n])
      BY DEF WholeOf
    <2>2. PICK j \in DOMAIN resp : \E k \in 1..arr[j] : new = <<1, j, k>>
      BY <2>1, EventParts
    <2> QED
      BY <1>1, <2>2
  <1> HIDE DEF new
  <1>9. /\ DOMAIN evs1 = DOMAIN evs \cup {Len(evs) + 1} /\ evs1 \in Seq(Events)
        /\ \A n \in DOMAIN evs : evs1[n] = evs[n]
        /\ evs1[Len(evs) + 1] = e /\ Len(evs) + 1 \notin DOMAIN evs
    BY <1>2, <1>4, TypedValues, AppendProperties
  <1>10. PartsOf(evs1) = PartsOf(evs) \cup {new}
    <2> DEFINE last == Len(evs) + 1
    <2>1. /\ DOMAIN evs1 = DOMAIN evs \cup {last}
          /\ \A n \in DOMAIN evs : evs1[n] = evs[n]
          /\ Stream!ToSet(evs1[last].input) = {new}
      BY <1>3, <1>9
    <2> HIDE DEF last
    <2>2. \A p : p \in PartsOf(evs1) <=> \E n \in DOMAIN evs1 : p \in Stream!ToSet(evs1[n].input)
      BY DEF PartsOf
    <2>3. \A p : p \in PartsOf(evs) <=> \E n \in DOMAIN evs : p \in Stream!ToSet(evs[n].input)
      BY DEF PartsOf
    <2> QED
      BY <2>1, <2>2, <2>3
  <1>11. Apart(evs1)
    <2> SUFFICES ASSUME NEW m \in DOMAIN evs1, NEW n \in DOMAIN evs1, m # n
                 PROVE  Stream!ToSet(evs1[m].input) \cap Stream!ToSet(evs1[n].input) = {}
      BY DEF Apart
    <2>1. CASE m \in DOMAIN evs /\ n \in DOMAIN evs
      BY <1>9, <2>1 DEF WholeOf, Apart
    <2>2. CASE m = Len(evs) + 1 /\ n \in DOMAIN evs
      BY <1>3, <1>8, <1>9, <2>2
    <2>3. CASE m \in DOMAIN evs /\ n = Len(evs) + 1
      BY <1>3, <1>8, <1>9, <2>3
    <2> QED
      BY <1>9, <2>1, <2>2, <2>3
  <1>12. \A n \in DOMAIN evs1 : TrueOf(resp, arr1, en, evs1[n])
    BY <1>5, <1>6, <1>9 DEF WholeOf
  <1>13. \A j \in DOMAIN resp : resp[j] = "text" \/ (resp[j] = "tool" /\ j \in en)
            => SeenIn(arr1, j) \subseteq PartsOf(evs1)
    BY <1>7, <1>10 DEF WholeOf
  <1> QED
    <2>1. Typed(resp, arr1, en, evs1) /\ WholeOf(resp, arr1, en, evs1)
      BY <1>1, <1>9, <1>11, <1>12, <1>13 DEF WholeOf, Typed
    <2> QED
      BY <2>1 DEF arr1, evs1, e

\* More parts of blocks of which there is no event.
LEMMA InputArrives ==
  ASSUME NEW resp, NEW arr, NEW en, NEW evs, Typed(resp, arr, en, evs),
         WholeOf(resp, arr, en, evs), NEW i \in DOMAIN resp \ en, resp[i] # "text",
         NEW arr1, arr1 \in [DOMAIN resp -> 0..Parts],
         \A j \in DOMAIN resp \ {i} : arr1[j] = arr[j]
  PROVE  Typed(resp, arr1, en, evs) /\ WholeOf(resp, arr1, en, evs)
  <1>1. \A j \in DOMAIN resp : resp[j] = "text" \/ j \in en => arr1[j] = arr[j]
    OBVIOUS
  <1>2. \A d : TrueOf(resp, arr, en, d) => TrueOf(resp, arr1, en, d)
    BY <1>1 DEF TrueOf
  <1>3. \A j \in DOMAIN resp : resp[j] = "text" \/ j \in en => SeenIn(arr1, j) = SeenIn(arr, j)
    BY <1>1 DEF SeenIn
  <1> QED
    BY <1>2, <1>3 DEF WholeOf, Typed

LEMMA PartsOfEnded ==
  ASSUME NEW resp, NEW arr, NEW en, NEW evs, Typed(resp, arr, en, evs),
         WholeOf(resp, arr, en, evs)
  PROVE  \A m \in DOMAIN evs : \A p \in Stream!ToSet(evs[m].input) :
            /\ p[2] \in DOMAIN resp
            /\ resp[p[2]] = "text" \/ p[2] \in en
  <1> SUFFICES ASSUME NEW m \in DOMAIN evs, NEW p \in Stream!ToSet(evs[m].input)
               PROVE  /\ p[2] \in DOMAIN resp
                      /\ resp[p[2]] = "text" \/ p[2] \in en
    OBVIOUS
  <1>1. TrueOf(resp, arr, en, evs[m])
    BY DEF WholeOf
  <1>2. PICK i \in DOMAIN resp : \E k \in 1..arr[i] :
            /\ p = <<1, i, k>> /\ evs[m].kind = resp[i]
            /\ resp[i] = "text" \/ (resp[i] = "tool" /\ i \in en)
    BY <1>1, EventParts
  <1> QED
    BY <1>2

\* The inputs of tools become events, in any order.
InputsOf(arr, N, order) ==
    [n \in 1..N |-> [kind |-> "tool", input |-> First(1, order[n], arr[order[n]])]]
EndsIn(resp, arr, en, en1, N, order) ==
    /\ en1 \in SUBSET DOMAIN resp /\ en \subseteq en1
    /\ N \in Nat /\ order \in [1..N -> {i \in en1 \ en : resp[i] = "tool"}]
    /\ \A m, n \in 1..N : m # n => order[m] # order[n]
    /\ \A i \in en1 \ en : resp[i] = "tool" /\ arr[i] > 0 => \E n \in 1..N : order[n] = i
LEMMA ToolsEnd ==
  ASSUME NEW resp, NEW arr, NEW en, NEW evs, NEW en1, NEW N, NEW order,
         Typed(resp, arr, en, evs), WholeOf(resp, arr, en, evs),
         EndsIn(resp, arr, en, en1, N, order)
  PROVE  /\ Typed(resp, arr, en1, evs \o InputsOf(arr, N, order))
         /\ WholeOf(resp, arr, en1, evs \o InputsOf(arr, N, order))
  <1> DEFINE more == InputsOf(arr, N, order)
             evs1 == evs \o more
  <1>0. /\ en1 \in SUBSET DOMAIN resp /\ en \subseteq en1
        /\ N \in Nat /\ order \in [1..N -> {i \in en1 \ en : resp[i] = "tool"}]
        /\ \A m, n \in 1..N : m # n => order[m] # order[n]
        /\ \A i \in en1 \ en : resp[i] = "tool" /\ arr[i] > 0 => \E n \in 1..N : order[n] = i
        /\ more = [n \in 1..N |-> [kind |-> "tool",
                                 input |-> First(1, order[n], arr[order[n]])]]
    BY DEF EndsIn, InputsOf
  <1> USE <1>0
  <1> HIDE DEF more
  <1>1. \A n \in 1..N : /\ order[n] \in en1 \ en /\ order[n] \in DOMAIN resp
                        /\ resp[order[n]] = "tool"
                        /\ order[n] \in Nat /\ arr[order[n]] \in 0..Parts
    BY TypedValues
  <1>2. \A n \in 1..N : /\ more[n] \in Events /\ more[n].kind = "tool"
                        /\ more[n].input = First(1, order[n], arr[order[n]])
                        /\ Stream!ToSet(more[n].input) = SeenIn(arr, order[n])
    <2> TAKE n \in 1..N
    <2>1. /\ First(1, order[n], arr[order[n]]) \in Seq(Pieces)
          /\ Stream!ToSet(First(1, order[n], arr[order[n]])) = SeenIn(arr, order[n])
      BY <1>1, FirstParts DEF SeenIn
    <2> QED
      BY <2>1 DEF Events, Stream!Kinds
  <1>3. more \in Seq(Events) /\ Len(more) = N
    <2>1. more \in [1..N -> Events]
      BY <1>2
    <2> QED
      BY <2>1, SeqDef, LenProperties
  <1>4. evs \in Seq(Events) /\ DOMAIN evs = 1..Len(evs) /\ Len(evs) \in Nat
    BY TypedValues DEF Typed
  <1>5. /\ evs1 \in Seq(Events) /\ DOMAIN evs1 = 1..(Len(evs) + N)
        /\ \A n \in 1..Len(evs) : evs1[n] = evs[n]
        /\ \A n \in 1..N : evs1[Len(evs) + n] = more[n]
    <2>1. evs1 \in Seq(Events) /\ Len(evs1) = Len(evs) + N
      BY <1>3, <1>4, ConcatProperties
    <2>2. \A n \in 1..(Len(evs) + N) :
            evs1[n] = IF n <= Len(evs) THEN evs[n] ELSE more[n - Len(evs)]
      BY <1>3, <1>4, ConcatProperties
    <2>3. \A n \in 1..Len(evs) : evs1[n] = evs[n]
      BY <1>4, <2>2
    <2>4. \A n \in 1..N : evs1[Len(evs) + n] = more[n]
      <3> TAKE n \in 1..N
      <3>1. /\ Len(evs) + n \in 1..(Len(evs) + N) /\ ~(Len(evs) + n <= Len(evs))
            /\ (Len(evs) + n) - Len(evs) = n
        BY <1>4
      <3> QED
        BY <2>2, <3>1
    <2> QED
      BY <2>1, <2>3, <2>4
  <1> HIDE DEF evs1
  <1>6. \A n \in DOMAIN evs1 : \/ n \in DOMAIN evs
                               \/ \E k \in 1..N : n = Len(evs) + k
    <2> TAKE n \in DOMAIN evs1
    <2>1. n \in 1..(Len(evs) + N)
      BY <1>5
    <2>2. n \notin DOMAIN evs => n - Len(evs) \in 1..N /\ n = Len(evs) + (n - Len(evs))
      BY <1>4, <2>1
    <2> QED
      BY <2>2
  <1>7. \A d : TrueOf(resp, arr, en, d) => TrueOf(resp, arr, en1, d)
    BY DEF TrueOf
  <1>8. \A n \in DOMAIN evs1 : TrueOf(resp, arr, en1, evs1[n])
    <2> TAKE n \in DOMAIN evs1
    <2>1. CASE n \in DOMAIN evs
      BY <1>4, <1>5, <1>7, <2>1 DEF WholeOf
    <2>2. CASE \E k \in 1..N : n = Len(evs) + k
      <3>1. PICK k \in 1..N : n = Len(evs) + k
        BY <2>2
      <3>2. evs1[n] = more[k]
        BY <1>5, <3>1
      <3> QED
        BY <1>1, <1>2, <3>2 DEF TrueOf
    <2> QED
      BY <1>6, <2>1, <2>2
  <1>9. \A m \in DOMAIN evs, k \in 1..N :
          Stream!ToSet(evs[m].input) \cap Stream!ToSet(more[k].input) = {}
    <2> SUFFICES ASSUME NEW m \in DOMAIN evs, NEW k \in 1..N,
                        NEW p \in Stream!ToSet(evs[m].input),
                        p \in Stream!ToSet(more[k].input)
                 PROVE  FALSE
      OBVIOUS
    <2>1. resp[p[2]] = "text" \/ p[2] \in en
      BY PartsOfEnded
    <2>2. p[2] = order[k]
      BY <1>2 DEF SeenIn
    <2> QED
      BY <1>1, <2>1, <2>2
  <1>10. \A m, k \in 1..N :
          m # k => Stream!ToSet(more[m].input) \cap Stream!ToSet(more[k].input) = {}
    <2> SUFFICES ASSUME NEW m \in 1..N, NEW k \in 1..N, m # k,
                        NEW p \in Stream!ToSet(more[m].input),
                        p \in Stream!ToSet(more[k].input)
                 PROVE  FALSE
      OBVIOUS
    <2>1. p \in SeenIn(arr, order[m]) /\ p \in SeenIn(arr, order[k])
      BY <1>2
    <2>2. p[2] = order[m] /\ p[2] = order[k]
      BY <2>1 DEF SeenIn
    <2> QED
      BY <2>2
  <1>11. Apart(evs1)
    <2> SUFFICES ASSUME NEW m \in DOMAIN evs1, NEW n \in DOMAIN evs1, m # n
                 PROVE  Stream!ToSet(evs1[m].input) \cap Stream!ToSet(evs1[n].input) = {}
      BY DEF Apart
    <2>1. CASE m \in DOMAIN evs /\ n \in DOMAIN evs
      <3>1. evs1[m] = evs[m] /\ evs1[n] = evs[n] /\ Apart(evs)
        BY <1>4, <1>5, <2>1 DEF WholeOf
      <3> QED
        BY <2>1, <3>1 DEF Apart
    <2>2. CASE m \in DOMAIN evs /\ \E k \in 1..N : n = Len(evs) + k
      <3>1. PICK k \in 1..N : n = Len(evs) + k
        BY <2>2
      <3>2. evs1[m] = evs[m] /\ evs1[n] = more[k]
        BY <1>4, <1>5, <2>2, <3>1
      <3> QED
        BY <1>9, <2>2, <3>2
    <2>3. CASE (\E k \in 1..N : m = Len(evs) + k) /\ n \in DOMAIN evs
      <3>1. evs1[n] = evs[n] /\ \E k \in 1..N : evs1[m] = more[k]
        BY <1>4, <1>5, <2>3
      <3> QED
        BY <1>9, <2>3, <3>1
    <2>4. CASE /\ \E k \in 1..N : m = Len(evs) + k
               /\ \E k \in 1..N : n = Len(evs) + k
      <3>1. PICK j \in 1..N, k \in 1..N : m = Len(evs) + j /\ n = Len(evs) + k
        BY <2>4
      <3>2. j # k /\ evs1[m] = more[j] /\ evs1[n] = more[k]
        BY <1>5, <3>1
      <3> QED
        BY <1>10, <3>2
    <2> QED
      BY <1>6, <2>1, <2>2, <2>3, <2>4
  <1>12. PartsOf(evs) \subseteq PartsOf(evs1)
    <2>1. \A n \in DOMAIN evs : n \in DOMAIN evs1 /\ evs1[n] = evs[n]
      BY <1>4, <1>5
    <2>2. \A p : p \in PartsOf(evs) => \E n \in DOMAIN evs : p \in Stream!ToSet(evs[n].input)
      BY DEF PartsOf
    <2>3. \A p : (\E n \in DOMAIN evs1 : p \in Stream!ToSet(evs1[n].input)) => p \in PartsOf(evs1)
      BY DEF PartsOf
    <2>4. \A n \in DOMAIN evs : \A p : p \in Stream!ToSet(evs[n].input)
                                    => p \in Stream!ToSet(evs1[n].input)
      BY <2>1
    <2> QED
      BY <2>1, <2>2, <2>3, <2>4
  <1>13. \A k \in 1..N : SeenIn(arr, order[k]) \subseteq PartsOf(evs1)
    <2> TAKE k \in 1..N
    <2>1. Len(evs) + k \in DOMAIN evs1 /\ evs1[Len(evs) + k] = more[k]
      BY <1>4, <1>5
    <2> QED
      BY <1>2, <2>1 DEF PartsOf
  <1>14. ASSUME NEW i \in DOMAIN resp, resp[i] = "text" \/ (resp[i] = "tool" /\ i \in en1)
         PROVE  SeenIn(arr, i) \subseteq PartsOf(evs1)
    <2>1. CASE resp[i] = "text" \/ i \in en
      BY <1>12, <1>14, <2>1 DEF WholeOf
    <2>2. CASE resp[i] = "tool" /\ i \in en1 \ en
      <3>1. CASE arr[i] > 0
        BY <1>13, <2>2, <3>1
      <3>2. CASE ~(arr[i] > 0)
        <4>1. arr[i] = 0
          BY <3>2, TypedValues
        <4> QED
          BY <4>1 DEF SeenIn
      <3> QED
        BY <3>1, <3>2
    <2> QED
      BY <1>14, <2>1, <2>2
  <1> QED
    <2>1. Typed(resp, arr, en1, evs1) /\ WholeOf(resp, arr, en1, evs1)
      BY <1>5, <1>8, <1>11, <1>14 DEF WholeOf, Typed
    <2> QED
      BY <2>1 DEF evs1, more

\* What the invariant says of the state, in those terms.
LEMMA StreamWhole ==
  ASSUME Stream!StreamTypes
  PROVE  /\ Typed(response, arrived, ended, events)
         /\ Stream!EventsWhole <=> WholeOf(response, arrived, ended, events)
         /\ Stream!Blocks = 1..Len(response) /\ Stream!Blocks = DOMAIN response
         /\ Len(response) \in Nat
         /\ \A i \in Stream!Blocks : /\ i \in Nat /\ response[i] \in Stream!Kinds
                                     /\ arrived[i] \in 0..Parts /\ arrived[i] \in Nat
         /\ Parts \in Nat \ {0}
  <1>1. /\ Typed(response, arrived, ended, events) /\ response \in Seq(Stream!Kinds)
        /\ Stream!Blocks = DOMAIN response
    BY DEF Typed, Stream!StreamTypes, Stream!Blocks, Events, Pieces
  <1>2. DOMAIN response = 1..Len(response) /\ Len(response) \in Nat
    BY <1>1
  <1>3. \A i \in DOMAIN response : response[i] \in Stream!Kinds
    BY <1>1, <1>2
  <1>4. \A i \in DOMAIN response : arrived[i] \in 0..Parts /\ arrived[i] \in Nat
    BY <1>1, StreamConstants DEF Typed
  <1>5. \A e : Stream!EventTrue(e) <=> TrueOf(response, arrived, ended, e)
    BY DEF Stream!EventTrue, TrueOf, Stream!Blocks, First
  <1>6. Stream!EventsWhole <=> WholeOf(response, arrived, ended, events)
    BY <1>5 DEF Stream!EventsWhole, WholeOf, Apart, PartsOf, SeenIn, Stream!Seen,
                Stream!Answered, Stream!TextBlocks, Stream!ToolBlocks, Stream!Blocks
  <1> QED
    BY <1>1, <1>2, <1>3, <1>4, <1>6, StreamConstants

LEMMA StreamWholeNext ==
  ASSUME provider' \in {"anthropic", "openai"}, attempts' \in Nat, stop' \in BOOLEAN,
         stage' \in {"ask", "askWhole", "stream", "answered", "failed"},
         Typed(response', arrived', ended', events'),
         WholeOf(response', arrived', ended', events')
  PROVE  Stream!StreamTypes' /\ Stream!EventsWhole'
  <1>1. \A n \in DOMAIN events' : Stream!EventTrue(events[n])'
    BY DEF WholeOf, Stream!EventTrue, TrueOf, Stream!Blocks, First
  <1>2. Stream!EventsWhole'
    BY <1>1 DEF Stream!EventsWhole, WholeOf, Apart, PartsOf, SeenIn, Stream!Seen,
                Stream!Answered, Stream!TextBlocks, Stream!ToolBlocks, Stream!Blocks
  <1>3. Stream!StreamTypes'
    BY DEF Stream!StreamTypes, Typed, Events, Pieces, Stream!Blocks
  <1> QED
    BY <1>2, <1>3

\* ModelStream's names of what it takes from the standard modules.
LEMMA SameCardinality == \A S : Stream!Cardinality(S) = Cardinality(S)
  BY DEF Cardinality, Stream!Cardinality, IsFiniteSet, Stream!IsFiniteSet

\* The blocks of a stream end: what was gathered of their inputs are events.
LEMMA BlocksEnd ==
  ASSUME Stream!StreamTypes, Stream!EventsWhole, Stream!GatheredSoFar,
         NEW blocks \in SUBSET Stream!Blocks, Stream!BlockStop(blocks)
  PROVE  /\ Typed(response, arrived, ended \cup blocks, events')
         /\ WholeOf(response, arrived, ended \cup blocks, events')
         /\ DOMAIN pending' = DOMAIN pending \ blocks
         /\ \A i \in DOMAIN pending' : pending'[i] = pending[i]
  <1> DEFINE S == blocks \cap DOMAIN pending
             N == Cardinality(S)
             en1 == ended \cup blocks
  <1>1. PICK order \in Stream!InOrder(S) :
          events' = events \o [n \in DOMAIN order |->
                         [kind |-> "tool", input |-> pending[order[n]]]]
    BY DEF Stream!BlockStop
  <1>2. /\ Typed(response, arrived, ended, events) /\ WholeOf(response, arrived, ended, events)
        /\ Stream!Blocks = DOMAIN response /\ Stream!Blocks = 1..Len(response)
        /\ Len(response) \in Nat
    BY StreamWhole
  <1>3. N \in Nat
    <2>1. IsFiniteSet(1..Len(response))
      BY <1>2, FS_Interval
    <2>2. IsFiniteSet(S)
      BY <1>2, <2>1, FS_Subset
    <2> QED
      BY <2>2, FS_CardinalityType
  <1>4. /\ order \in [1..N -> S] /\ DOMAIN order = 1..N
        /\ \A m, n \in 1..N : m < n => order[m] < order[n]
        /\ \A i \in S : \E n \in 1..N : order[n] = i
    <2>1. /\ order \in [1..N -> S]
          /\ \A m, n \in DOMAIN order : m < n => order[m] < order[n]
          /\ \A i \in S : \E n \in DOMAIN order : order[n] = i
      <3> HIDE DEF S
      <3> QED
        BY <1>1, SameCardinality DEF Stream!InOrder
    <2>2. DOMAIN order = 1..N
      BY <2>1
    <2> QED
      BY <2>1, <2>2
  <1>5. \A i \in S : /\ i \in en1 \ ended /\ response[i] = "tool"
                     /\ pending[i] = First(1, i, arrived[i])
    BY DEF Stream!GatheredSoFar, Stream!ToolBlocks, First
  <1>6. \A i \in en1 \ ended : response[i] = "tool" /\ arrived[i] > 0 => i \in S
    BY DEF Stream!GatheredSoFar, Stream!ToolBlocks
  <1>7. \A m, n \in 1..N : m # n => order[m] # order[n]
    <2> SUFFICES ASSUME NEW m \in 1..N, NEW n \in 1..N, m # n PROVE order[m] # order[n]
      OBVIOUS
    <2>1. S \subseteq Nat
      BY <1>2
    <2> HIDE DEF S, N
    <2>2. order[m] \in Nat /\ order[n] \in Nat
      BY <1>4, <2>1
    <2>3. m < n \/ n < m
      BY <1>3
    <2>4. order[m] < order[n] \/ order[n] < order[m]
      BY <1>4, <2>3
    <2> QED
      BY <2>2, <2>4
  <1>8. order \in [1..N -> {i \in en1 \ ended : response[i] = "tool"}]
    BY <1>4, <1>5
  <1>9. /\ ended \subseteq en1 /\ en1 \in SUBSET DOMAIN response
        /\ \A i \in en1 \ ended : response[i] = "tool" /\ arrived[i] > 0
                => \E n \in 1..N : order[n] = i
    <2>1. ended \subseteq DOMAIN response
      BY <1>2 DEF Typed
    <2> QED
      BY <1>2, <1>4, <1>6, <2>1
  <1>10. events' = events \o InputsOf(arrived, N, order)
    <2>1. [n \in DOMAIN order |-> [kind |-> "tool", input |-> pending[order[n]]]]
            = InputsOf(arrived, N, order)
      BY <1>4, <1>5 DEF InputsOf
    <2> QED
      BY <1>1, <2>1
  <1>11. /\ DOMAIN pending' = DOMAIN pending \ blocks
         /\ \A i \in DOMAIN pending' : pending'[i] = pending[i]
    BY DEF Stream!BlockStop, Stream!Restrict
  <1> HIDE DEF N, S, en1
  <1>12. EndsIn(response, arrived, ended, en1, N, order)
    BY <1>3, <1>7, <1>8, <1>9 DEF EndsIn
  <1>13. /\ Typed(response, arrived, en1, events \o InputsOf(arrived, N, order))
         /\ WholeOf(response, arrived, en1, events \o InputsOf(arrived, N, order))
    BY <1>2, <1>12, ToolsEnd
  <1> QED
    BY <1>10, <1>11, <1>13 DEF en1

\* The parts of the texts that have arrived.
TextsSeen(resp, arr) == UNION {SeenIn(arr, i) : i \in {j \in DOMAIN resp : resp[j] = "text"}}

\* The answer that is gone on with: every block of it that was received is
\* among the events, whose inputs are complete where the server tells the end.
LEMMA HonestAnswer ==
  ASSUME Stream!StreamTypes, UNCHANGED <<provider, response>>,
         NEW en, Typed(response, arrived', en, events'),
         WholeOf(response, arrived', en, events'),
         provider = "anthropic" => en = ended' /\ \A i \in en : arrived'[i] = Parts,
         provider # "anthropic" => en = DOMAIN response,
         printed' \subseteq TextsSeen(response, arrived'),
         provider = "anthropic" =>
            \A p \in TextsSeen(response, arrived') \ printed' :
                p[2] \notin ended' /\ \A q \in printed' : Stream!Before(q, p)
  PROVE  Stream!AnswerHonest'
  <1> DEFINE evs == events'
             arr == arrived'
  <1>1. /\ Typed(response, arr, en, evs) /\ WholeOf(response, arr, en, evs)
        /\ Stream!Blocks = DOMAIN response /\ Stream!Blocks' = Stream!Blocks
    BY DEF Stream!Blocks
  <1>2. \A i \in DOMAIN response :
          /\ i \in Nat /\ arr[i] \in 0..Parts /\ Parts \in 0..Parts /\ response[i] \in Stream!Kinds
          /\ Stream!ToSet(First(1, i, arr[i])) = SeenIn(arr, i)
          /\ Stream!ToSet(Stream!Full(1, i)) = {<<1, i, k>> : k \in 1..Parts}
          /\ First(1, i, Parts) = Stream!Full(1, i)
          /\ Stream!IsPrefix(First(1, i, arr[i]), Stream!Full(1, i))
    <2> TAKE i \in DOMAIN response
    <2>1. i \in Nat /\ arr[i] \in 0..Parts /\ Parts \in 0..Parts /\ response[i] \in Stream!Kinds
      BY <1>1, TypedValues, StreamWhole, StreamConstants
    <2>2. /\ Stream!ToSet(First(1, i, arr[i])) = SeenIn(arr, i)
          /\ Stream!IsPrefix(First(1, i, arr[i]), Stream!Full(1, i))
      BY <2>1, FirstParts DEF SeenIn
    <2>3. /\ Stream!ToSet(First(1, i, Parts)) = {<<1, i, k>> : k \in 1..Parts}
          /\ First(1, i, Parts) = Stream!Full(1, i)
      BY <2>1, FirstParts
    <2> QED
      BY <2>1, <2>2, <2>3
  <1>3. ASSUME NEW n \in DOMAIN evs
        PROVE  \E i \in DOMAIN response :
                 /\ response[i] = evs[n].kind
                 /\ IF evs[n].kind = "text"
                      THEN Stream!ToSet(evs[n].input) \subseteq Stream!ToSet(Stream!Full(1, i))
                      ELSE /\ Stream!IsPrefix(evs[n].input, Stream!Full(1, i))
                           /\ provider = "anthropic" => evs[n].input = Stream!Full(1, i)
    <2>1. PICK i \in DOMAIN response :
            /\ evs[n].kind = response[i]
            /\ \/ response[i] = "text" /\ \E k \in 1..arr[i] : evs[n].input = <<<<1, i, k>>>>
               \/ response[i] = "tool" /\ i \in en /\ evs[n].input = First(1, i, arr[i])
      BY <1>1 DEF WholeOf, TrueOf
    <2>2. CASE response[i] = "text"
      <3>1. PICK k \in 1..arr[i] : evs[n].input = <<<<1, i, k>>>>
        BY <2>1, <2>2
      <3>2. Stream!ToSet(evs[n].input) = {<<1, i, k>>} /\ k \in 1..Parts
        BY <1>2, <3>1 DEF Stream!ToSet
      <3> QED
        BY <1>2, <2>1, <2>2, <3>2
    <2>3. CASE response[i] = "tool"
      <3>1. provider = "anthropic" => arr[i] = Parts
        BY <2>1, <2>3
      <3> QED
        BY <1>2, <2>1, <2>3, <3>1
    <2> QED
      BY <2>1, <2>2, <2>3
  <1>4. ASSUME NEW i \in DOMAIN response, response[i] # "thinking", arr[i] = Parts,
               provider = "anthropic" => i \in ended'
        PROVE  Stream!ToSet(Stream!Full(1, i)) \subseteq PartsOf(evs)
    <2>1. response[i] = "text" \/ (response[i] = "tool" /\ i \in en)
      BY <1>2, <1>4 DEF Stream!Kinds
    <2>2. SeenIn(arr, i) \subseteq PartsOf(evs)
      BY <1>1, <2>1 DEF WholeOf
    <2> QED
      BY <1>2, <1>4, <2>2 DEF SeenIn
  <1> DEFINE texts1 == TextsSeen(response, arr)
  <1>5. texts1 = {p \in PartsOf(evs) : response[p[2]] = "text"}
    <2>1. ASSUME NEW p \in texts1 PROVE p \in PartsOf(evs) /\ response[p[2]] = "text"
      <3>1. PICK i \in DOMAIN response : response[i] = "text" /\ p \in SeenIn(arr, i)
        BY <2>1 DEF TextsSeen
      <3>2. SeenIn(arr, i) \subseteq PartsOf(evs) /\ p[2] = i
        BY <1>1, <3>1 DEF WholeOf, SeenIn
      <3> QED
        BY <3>1, <3>2
    <2>2. ASSUME NEW p \in PartsOf(evs), response[p[2]] = "text" PROVE p \in texts1
      <3>1. PICK n \in DOMAIN evs : p \in Stream!ToSet(evs[n].input)
        BY DEF PartsOf
      <3>2. TrueOf(response, arr, en, evs[n])
        BY <1>1 DEF WholeOf
      <3>3. PICK i \in DOMAIN response : \E k \in 1..arr[i] : p = <<1, i, k>>
        BY <1>1, <3>1, <3>2, EventParts
      <3>4. p \in SeenIn(arr, i) /\ response[i] = "text"
        BY <2>2, <3>3 DEF SeenIn
      <3> QED
        BY <3>3, <3>4 DEF TextsSeen
    <2> QED
      BY <2>1, <2>2
  <1>6. Stream!Answered' = PartsOf(evs) /\ Apart(evs)
    BY <1>1 DEF Stream!Answered, PartsOf, WholeOf
  <1>7. \A n \in DOMAIN events' : Stream!TrueTo(1, events[n])'
    BY <1>1, <1>3 DEF Stream!TrueTo
  <1>8. \A i \in Stream!Blocks : response[i] # "thinking" /\ Stream!Received(i)'
            => Stream!ToSet(Stream!Full(1, i)) \subseteq Stream!Answered'
    BY <1>1, <1>4, <1>6 DEF Stream!Received
  <1>9. Stream!TextAnswered' = texts1
    BY <1>5, <1>6 DEF Stream!TextAnswered
  <1> QED
    BY <1>1, <1>6, <1>7, <1>8, <1>9 DEF Stream!AnswerHonest, Apart

LEMMA Shown ==
  /\ Stream!ShownSoFar <=>
        printed \cup unshown = IF provider = "anthropic" THEN TextsSeen(response, arrived) ELSE {}
  /\ Stream!ShownSoFar' <=>
        printed' \cup unshown' =
            IF provider' = "anthropic" THEN TextsSeen(response', arrived') ELSE {}
  BY DEF Stream!ShownSoFar, TextsSeen, SeenIn, Stream!Seen, Stream!TextBlocks, Stream!Blocks

LEMMA TextsGrow ==
  ASSUME NEW resp, NEW arr, NEW i \in DOMAIN resp, arr[i] \in Nat, DOMAIN arr = DOMAIN resp
  PROVE  TextsSeen(resp, OneMore(arr, i)) =
            IF resp[i] = "text" THEN TextsSeen(resp, arr) \cup {<<1, i, arr[i] + 1>>}
                                ELSE TextsSeen(resp, arr)
  <1> DEFINE arr1 == OneMore(arr, i)
  <1>0. arr1[i] = arr[i] + 1 /\ \A j \in DOMAIN resp \ {i} : arr1[j] = arr[j]
    BY DEF OneMore
  <1> HIDE DEF arr1
  <1>1. \A j \in DOMAIN resp \ {i} : SeenIn(arr1, j) = SeenIn(arr, j)
    BY <1>0 DEF SeenIn
  <1>2. SeenIn(arr1, i) = SeenIn(arr, i) \cup {<<1, i, arr[i] + 1>>}
    BY <1>0 DEF SeenIn
  <1>3. \A p : /\ p \in TextsSeen(resp, arr1) <=>
                    \E j \in DOMAIN resp : resp[j] = "text" /\ p \in SeenIn(arr1, j)
               /\ p \in TextsSeen(resp, arr) <=>
                    \E j \in DOMAIN resp : resp[j] = "text" /\ p \in SeenIn(arr, j)
    BY DEF TextsSeen
  <1>4. CASE resp[i] = "text"
    <2>1. TextsSeen(resp, arr1) = TextsSeen(resp, arr) \cup {<<1, i, arr[i] + 1>>}
      BY <1>1, <1>2, <1>3, <1>4
    <2> QED
      BY <1>4, <2>1 DEF arr1
  <1>5. CASE resp[i] # "text"
    <2>1. \A j \in DOMAIN resp : resp[j] = "text" => SeenIn(arr1, j) = SeenIn(arr, j)
      BY <1>1, <1>5
    <2>2. TextsSeen(resp, arr1) = TextsSeen(resp, arr)
      BY <1>3, <2>1
    <2> QED
      BY <1>5, <2>2 DEF arr1
  <1> QED
    BY <1>4, <1>5

\* One more part of a text is one more event; of a tool's input it is gathered.
LEMMA DeltaKeeps ==
  ASSUME Stream!StreamInv, stage = "stream", NEW i \in Stream!Blocks, Stream!Delta(i),
         UNCHANGED <<provider, stage, attempts, response, ended, stop>>,
         provider = "anthropic" => Stream!Current(i)
  PROVE  Stream!StreamInv'
  <1>1. /\ Stream!StreamTypes /\ Stream!EventsWhole /\ Stream!GatheredSoFar /\ Stream!ShownSoFar
        /\ Stream!WaitingSoFar
        /\ Typed(response, arrived, ended, events) /\ WholeOf(response, arrived, ended, events)
        /\ Stream!Blocks = DOMAIN response
    BY StreamWhole DEF Stream!StreamInv
  <1>2. /\ arrived[i] < Parts /\ arrived[i] \in Nat /\ i \in Nat /\ Parts \in Nat \ {0}
        /\ i \notin ended /\ ended \subseteq DOMAIN response
        /\ arrived \in [DOMAIN response -> 0..Parts]
    BY <1>1, StreamWhole DEF Stream!Delta, Stream!GatheredSoFar, Typed
  <1>3. /\ arrived' = [arrived EXCEPT ![i] = arrived[i] + 1]
        /\ arrived'[i] = arrived[i] + 1 /\ arrived[i] + 1 \in 0..Parts
        /\ \A j \in DOMAIN response \ {i} : arrived'[j] = arrived[j]
        /\ arrived' \in [DOMAIN response -> 0..Parts]
    <2>1. arrived[i] + 1 \in 0..Parts
      BY <1>2
    <2>2. arrived' = [arrived EXCEPT ![i] = arrived[i] + 1]
      BY DEF Stream!Delta
    <2> QED
      BY <1>1, <1>2, <2>1, <2>2
  <1> DEFINE new == <<1, i, arrived[i] + 1>>
  <1>4. /\ response[i] = "text" =>
                events' = Append(events, [kind |-> "text", input |-> <<new>>])
        /\ response[i] # "text" => UNCHANGED events
        /\ pending' = IF response[i] = "tool" THEN Stream!Gathered(i) ELSE pending
    BY DEF Stream!Delta, Stream!Piece
  <1>10. /\ response[i] = "text" /\ provider = "anthropic" =>
               \E ready \in Stream!Beginnings(unshown \cup {new}) :
                   /\ printed' = printed \cup ready
                   /\ unshown' = (unshown \cup {new}) \ ready
         /\ ~(response[i] = "text" /\ provider = "anthropic") => UNCHANGED <<printed, unshown>>
    BY DEF Stream!Delta, Stream!Piece, Stream!Push
  <1>5. Typed(response, arrived', ended, events') /\ WholeOf(response, arrived', ended, events')
    <2>1. CASE response[i] = "text"
      <3>1. events' = Append(events, TextOf(arrived, i)) /\ arrived' = OneMore(arrived, i)
        BY <1>3, <1>4, <2>1 DEF TextOf, OneMore
      <3>2. /\ Typed(response, OneMore(arrived, i), ended, Append(events, TextOf(arrived, i)))
            /\ WholeOf(response, OneMore(arrived, i), ended, Append(events, TextOf(arrived, i)))
        BY <1>1, <1>2, <2>1, TextArrives
      <3> QED
        BY <3>1, <3>2
    <2>2. CASE response[i] # "text"
      BY <1>1, <1>2, <1>3, <1>4, <2>2, InputArrives
    <2> QED
      BY <2>1, <2>2
  <1>6. Stream!StreamTypes' /\ Stream!EventsWhole'
    BY <1>1, <1>5, StreamWholeNext DEF Stream!StreamTypes
  <1>7. Stream!ShownSoFar'
    <2>1. TextsSeen(response, arrived')
            = IF response[i] = "text" THEN TextsSeen(response, arrived) \cup {new}
                                      ELSE TextsSeen(response, arrived)
      <3>1. arrived' = OneMore(arrived, i) /\ DOMAIN arrived = DOMAIN response
        BY <1>2, <1>3 DEF OneMore
      <3>2. TextsSeen(response, OneMore(arrived, i))
              = IF response[i] = "text" THEN TextsSeen(response, arrived) \cup {new}
                                        ELSE TextsSeen(response, arrived)
        BY <1>1, <1>2, <3>1, TextsGrow
      <3> QED
        BY <3>1, <3>2
    <2> HIDE DEF new
    <2>2. CASE response[i] = "text" /\ provider = "anthropic"
      <3>1. PICK ready \in Stream!Beginnings(unshown \cup {new}) :
                /\ printed' = printed \cup ready
                /\ unshown' = (unshown \cup {new}) \ ready
        BY <1>10, <2>2
      <3>2. ready \subseteq unshown \cup {new}
        BY DEF Stream!Beginnings
      <3>3. printed' \cup unshown' = printed \cup unshown \cup {new}
        BY <3>1, <3>2
      <3> QED
        BY <1>1, <2>1, <2>2, <3>3, Shown
    <2>3. CASE ~(response[i] = "text" /\ provider = "anthropic")
      BY <1>1, <1>10, <2>1, <2>3, Shown
    <2> QED
      BY <2>2, <2>3
  <1>8. Stream!ToolBlocks' = Stream!ToolBlocks /\ Stream!ToolBlocks \subseteq DOMAIN response
    BY <1>1 DEF Stream!ToolBlocks, Stream!Blocks
  <1>9. Stream!GatheredSoFar'
    <2>0. \A j \in ended : arrived'[j] = arrived[j]
      BY <1>2, <1>3
    <2>1. CASE response[i] # "tool"
      <3>1. i \notin Stream!ToolBlocks /\ pending' = pending
        BY <1>4, <2>1 DEF Stream!ToolBlocks
      <3>2. \A j \in Stream!ToolBlocks : arrived'[j] = arrived[j]
        BY <1>3, <1>8, <3>1
      <3> QED
        BY <1>1, <1>8, <2>0, <3>1, <3>2 DEF Stream!GatheredSoFar
    <2>2. CASE response[i] = "tool"
      <3>1. /\ DOMAIN pending' = DOMAIN pending \cup {i}
            /\ \A k \in DOMAIN pending \ {i} : pending'[k] = pending[k]
            /\ pending'[i] = IF arrived[i] = 0 THEN <<new>> ELSE Append(pending[i], new)
        BY <1>4, <2>2 DEF Stream!Gathered, Stream!Piece
      <3>2. i \in Stream!ToolBlocks \ ended
        BY <1>1, <1>2, <2>2 DEF Stream!ToolBlocks
      <3>3. DOMAIN pending' = {j \in Stream!ToolBlocks \ ended : arrived'[j] > 0}
        <4>1. DOMAIN pending = {j \in Stream!ToolBlocks \ ended : arrived[j] > 0}
          BY <1>1 DEF Stream!GatheredSoFar
        <4>2. \A j \in Stream!ToolBlocks : j # i => arrived'[j] = arrived[j]
          BY <1>3, <1>8
        <4>3. arrived'[i] > 0
          BY <1>2, <1>3
        <4> QED
          BY <3>1, <3>2, <4>1, <4>2, <4>3
      <3>4. pending'[i] = First(1, i, arrived'[i])
        <4>1. /\ Append(First(1, i, arrived[i]), new) = First(1, i, arrived[i] + 1)
              /\ <<<<1, i, 1>>>> = First(1, i, 1)
          <5>1. arrived[i] + 1 <= Parts
            BY <1>2
          <5> QED
            BY <1>2, <5>1, FirstGrows
        <4>2. CASE arrived[i] = 0
          BY <1>3, <3>1, <4>1, <4>2
        <4>3. CASE arrived[i] # 0
          <5>1. pending[i] = First(1, i, arrived[i])
            BY <1>1, <1>2, <3>2, <4>3 DEF Stream!GatheredSoFar, First
          <5> QED
            BY <1>3, <3>1, <4>1, <4>3, <5>1
        <4> QED
          BY <4>2, <4>3
      <3>5. \A j \in DOMAIN pending \ {i} : pending'[j] = First(1, j, arrived'[j])
        <4> TAKE j \in DOMAIN pending \ {i}
        <4>1. j \in Stream!ToolBlocks /\ pending[j] = First(1, j, arrived[j])
          BY <1>1 DEF Stream!GatheredSoFar, First
        <4> QED
          BY <1>3, <1>8, <3>1, <4>1
      <3>6. \A j \in ended : arrived'[j] = Parts
        BY <1>1, <2>0 DEF Stream!GatheredSoFar
      <3> QED
        BY <1>8, <3>1, <3>3, <3>4, <3>5, <3>6 DEF Stream!GatheredSoFar, First
    <2> QED
      BY <2>1, <2>2
  <1>11. Stream!WaitingSoFar'
    <2> SUFFICES ASSUME provider = "anthropic"
                 PROVE  /\ \A j, k \in DOMAIN response : arrived'[j] > 0 /\ k < j => k \in ended
                        /\ \A p \in unshown' :
                              p[2] \notin ended /\ \A q \in printed' : Stream!Before(q, p)
      BY DEF Stream!WaitingSoFar, Stream!Blocks
    <2>1. /\ \A j, k \in DOMAIN response : arrived[j] > 0 /\ k < j => k \in ended
          /\ \A p \in unshown :
                p[2] \notin ended /\ \A q \in printed : Stream!Before(q, p)
      BY <1>1 DEF Stream!WaitingSoFar
    <2>2. \A k \in DOMAIN response : k \in Nat /\ k >= 1 /\ (k < i => k \in ended)
      <3>1. \A k \in DOMAIN response : k \in Nat /\ k >= 1
        BY <1>1, TypedValues
      <3> QED
        BY <1>2, <3>1 DEF Stream!Current
    <2>3. \A j, k \in DOMAIN response : arrived'[j] > 0 /\ k < j => k \in ended
      BY <1>3, <2>1, <2>2
    <2>4. ASSUME NEW q \in TextsSeen(response, arrived) PROVE Stream!Before(q, new)
      <3>1. PICK j \in DOMAIN response : q \in SeenIn(arrived, j)
        BY <2>4 DEF TextsSeen
      <3>2. PICK k \in 1..arrived[j] : q = <<1, j, k>>
        BY <3>1 DEF SeenIn
      <3>3. arrived[j] \in Nat /\ j \in Nat /\ arrived[j] > 0
        BY <1>1, <3>2, TypedValues
      <3>4. CASE j = i
        BY <1>2, <3>2, <3>4 DEF Stream!Before
      <3>5. CASE j # i
        <4>1. ~(i < j)
          BY <1>1, <1>2, <2>1, <3>3
        <4> QED
          BY <1>2, <3>2, <3>3, <3>5, <4>1 DEF Stream!Before
      <3> QED
        BY <3>4, <3>5
    <2>5. new[2] \notin ended
      BY <1>2
    <2> HIDE DEF new
    <2>6. CASE response[i] = "text"
      <3>1. PICK ready \in Stream!Beginnings(unshown \cup {new}) :
                /\ printed' = printed \cup ready
                /\ unshown' = (unshown \cup {new}) \ ready
        BY <1>10, <2>6
      <3>2. \A q \in ready, p \in unshown' : Stream!Before(q, p)
        BY <3>1 DEF Stream!Beginnings
      <3>3. printed \subseteq TextsSeen(response, arrived)
        BY <1>1, Shown
      <3> QED
        BY <2>1, <2>3, <2>4, <2>5, <3>1, <3>2, <3>3
    <2>7. CASE response[i] # "text"
      BY <1>10, <2>1, <2>3, <2>7
    <2> QED
      BY <2>6, <2>7
  <1> QED
    BY <1>6, <1>7, <1>9, <1>11 DEF Stream!StreamInv, Stream!AnswerHonest

\* The request is made, or made again; the answer begins; or all is given up.
LEMMA RequestsKeep ==
  ASSUME Stream!StreamInv, Stream!Retry \/ Stream!Open \/ Stream!Breaks \/ Stream!MessageStop
  PROVE  Stream!StreamInv'
  <1> USE StreamConstants
  <1>1. Stream!StreamTypes
    BY DEF Stream!StreamInv
  <1>2. CASE Stream!Retry
    <2>1. Stream!StreamTypes'
      BY <1>1, <1>2 DEF Stream!Retry, Stream!StreamTypes, Stream!Blocks
    <2>2. /\ stage \in {"ask", "askWhole"} /\ stage' \in {"failed", stage}
          /\ UNCHANGED <<response, ended, pending, events, printed, unshown>>
      BY <1>2 DEF Stream!Retry
    <2> QED
      BY <2>1, <2>2 DEF Stream!StreamInv, Stream!AnswerHonest, Stream!Nothing
  <1>3. CASE Stream!Breaks
    <2>1. Stream!StreamTypes'
      BY <1>1, <1>3 DEF Stream!Breaks, Stream!StreamTypes, Stream!Blocks
    <2> QED
      BY <1>3, <2>1 DEF Stream!Breaks, Stream!StreamInv, Stream!AnswerHonest
  <1>4. CASE Stream!MessageStop
    <2>1. /\ UNCHANGED <<provider, stage, attempts, response, arrived, ended, pending, events>>
          /\ stage = "stream" /\ stop' = TRUE
          /\ unshown' = {} /\ printed' = printed \cup unshown
      BY <1>4 DEF Stream!MessageStop, Stream!Flush
    <2>2. Stream!StreamTypes'
      BY <1>1, <2>1 DEF Stream!StreamTypes, Stream!Blocks
    <2>3. /\ Stream!EventsWhole' <=> Stream!EventsWhole
          /\ Stream!GatheredSoFar' <=> Stream!GatheredSoFar
          /\ Stream!ShownSoFar' <=> Stream!ShownSoFar
      BY <2>1 DEF Stream!EventsWhole, Stream!GatheredSoFar, Stream!ShownSoFar, Stream!EventTrue,
                  Stream!Answered, Stream!TextBlocks, Stream!ToolBlocks, Stream!Blocks, Stream!Seen
    <2>4. Stream!WaitingSoFar => Stream!WaitingSoFar'
      BY <2>1 DEF Stream!WaitingSoFar, Stream!Blocks
    <2> QED
      BY <2>1, <2>2, <2>3, <2>4 DEF Stream!StreamInv, Stream!AnswerHonest
  <1>5. CASE Stream!Open
    <2>1. /\ stage = "ask" /\ stage' = "stream" /\ attempts' = 0
          /\ response' \in Responses /\ arrived' = [i \in DOMAIN response' |-> 0]
          /\ UNCHANGED <<provider, ended, pending, events, stop, printed, unshown>>
      BY <1>5 DEF Stream!Open
    <2>2. /\ ended = {} /\ pending = Stream!Nothing /\ events = << >>
          /\ printed = {} /\ unshown = {}
      BY <2>1 DEF Stream!StreamInv
    <2>3. Typed(response', arrived', ended', events')
      <3>1. arrived' \in [DOMAIN response' -> 0..Parts] /\ response' \in Seq(Stream!Kinds)
        BY <2>1
      <3>2. ended' = {} /\ events' \in Seq(Events)
        BY <2>1, <2>2
      <3> QED
        BY <3>1, <3>2 DEF Typed
    <2>4. WholeOf(response', arrived', ended', events')
      <3>1. DOMAIN events' = {} /\ ended' = {}
        BY <2>1, <2>2
      <3>2. \A i \in DOMAIN response' : SeenIn(arrived', i) = {}
        BY <2>1 DEF SeenIn
      <3> QED
        BY <3>1, <3>2 DEF WholeOf, Apart
    <2>5. Stream!StreamTypes' /\ Stream!EventsWhole'
      BY <1>1, <2>1, <2>3, <2>4, StreamWholeNext DEF Stream!StreamTypes
    <2>6. Stream!ShownSoFar'
      <3>1. TextsSeen(response', arrived') = {}
        BY <2>1 DEF TextsSeen, SeenIn
      <3> QED
        BY <2>1, <2>2, <3>1, Shown
    <2>7. Stream!GatheredSoFar'
      <3>1. DOMAIN pending' = {} /\ ended' = {}
        BY <2>1, <2>2 DEF Stream!Nothing
      <3>2. \A i \in DOMAIN response' : ~(arrived'[i] > 0)
        BY <2>1
      <3>3. Stream!ToolBlocks' \subseteq DOMAIN response'
        BY DEF Stream!ToolBlocks, Stream!Blocks
      <3> QED
        BY <3>1, <3>2, <3>3 DEF Stream!GatheredSoFar
    <2>8. Stream!WaitingSoFar'
      <3>1. \A i \in Stream!Blocks' : ~(arrived'[i] > 0)
        BY <2>1 DEF Stream!Blocks
      <3> QED
        BY <2>1, <2>2, <3>1 DEF Stream!WaitingSoFar
    <2> QED
      BY <2>1, <2>5, <2>6, <2>7, <2>8 DEF Stream!StreamInv, Stream!AnswerHonest
  <1> QED
    BY <1>2, <1>3, <1>4, <1>5

\* The ends of blocks that the server tells, all of whose parts have arrived.
Ending(blocks) ==
    /\ blocks \in SUBSET Stream!Blocks /\ Stream!BlockStop(blocks)
    /\ \A i \in blocks : arrived[i] = Parts
    /\ ended' = ended \cup blocks
    /\ IF provider = "anthropic" THEN Stream!Flush ELSE UNCHANGED <<printed, unshown>>
    /\ UNCHANGED <<provider, stage, attempts, response, arrived, stop>>
LEMMA BlockEndsKeep ==
  ASSUME Stream!StreamInv, stage = "stream", NEW blocks, Ending(blocks)
  PROVE  Stream!StreamInv'
  <1> USE DEF Ending
  <1>1. /\ Stream!StreamTypes /\ Stream!EventsWhole /\ Stream!GatheredSoFar /\ Stream!ShownSoFar
        /\ Stream!WaitingSoFar
    BY DEF Stream!StreamInv
  <1>2. /\ Typed(response, arrived, ended \cup blocks, events')
        /\ WholeOf(response, arrived, ended \cup blocks, events')
        /\ DOMAIN pending' = DOMAIN pending \ blocks
        /\ \A i \in DOMAIN pending' : pending'[i] = pending[i]
    BY <1>1, BlocksEnd
  <1>3. Stream!StreamTypes' /\ Stream!EventsWhole'
    BY <1>1, <1>2, StreamWholeNext DEF Stream!StreamTypes
  <1>4. Stream!ShownSoFar'
    BY <1>1, Shown DEF Stream!Flush
  <1>6. Stream!WaitingSoFar'
    BY <1>1 DEF Stream!WaitingSoFar, Stream!Flush, Stream!Blocks
  <1>5. Stream!GatheredSoFar'
    <2>1. Stream!ToolBlocks' = Stream!ToolBlocks
      BY DEF Stream!ToolBlocks, Stream!Blocks
    <2> QED
      BY <1>1, <1>2, <2>1 DEF Stream!GatheredSoFar
  <1> QED
    BY <1>3, <1>4, <1>5, <1>6 DEF Stream!StreamInv, Stream!AnswerHonest

\* The connection is closed: the answer is gone on with, asked for again when
\* there is nothing of it, or refused.
LEMMA ConnectionEnds == ASSUME Stream!StreamInv, Stream!EndOfStream PROVE Stream!StreamInv'
  <1>1. /\ Stream!StreamTypes /\ Stream!EventsWhole /\ Stream!GatheredSoFar /\ Stream!ShownSoFar
        /\ Stream!WaitingSoFar
        /\ stage = "stream" /\ provider \in {"anthropic", "openai"}
        /\ UNCHANGED <<provider, attempts, response, arrived, ended, printed, unshown>>
    <2>1. /\ stage = "stream"
          /\ UNCHANGED <<provider, attempts, response, arrived, ended, printed, unshown>>
      BY DEF Stream!EndOfStream
    <2>2. /\ Stream!StreamTypes /\ Stream!EventsWhole /\ Stream!GatheredSoFar /\ Stream!ShownSoFar
          /\ Stream!WaitingSoFar
      BY <2>1 DEF Stream!StreamInv
    <2>3. provider \in {"anthropic", "openai"}
      BY <2>2 DEF Stream!StreamTypes
    <2> QED
      BY <2>1, <2>2, <2>3
  <1> DEFINE en == IF provider = "anthropic" THEN ended ELSE DOMAIN response
  <1>2. /\ Typed(response, arrived, ended, events) /\ WholeOf(response, arrived, ended, events)
        /\ Stream!Blocks = DOMAIN response
    BY <1>1, StreamWhole
  <1>3. Typed(response, arrived, en, events') /\ WholeOf(response, arrived, en, events')
    <2>1. CASE provider = "anthropic"
      BY <1>2, <2>1 DEF Stream!EndOfStream
    <2>2. CASE provider = "openai"
      <3>1. Stream!BlockStop(Stream!Blocks) /\ ended \cup Stream!Blocks = en
        BY <1>2, <2>2 DEF Stream!EndOfStream, Typed
      <3> QED
        BY <1>1, <3>1, BlocksEnd
    <2> QED
      BY <1>1, <2>1, <2>2
  <1>4. /\ stage' \in {"answered", "failed", "askWhole"} /\ stop' \in BOOLEAN
        /\ stage' # "answered" => stage' = "failed" \/ events' = << >>
    BY <1>1 DEF Stream!EndOfStream, Stream!Conclude, Stream!StreamTypes
  <1>5. Stream!StreamTypes'
    BY <1>1, <1>3, <1>4 DEF Stream!StreamTypes, Typed, Events, Pieces, Stream!Blocks
  <1>6. Stream!AnswerHonest'
    <2>1. /\ printed' \subseteq TextsSeen(response, arrived')
          /\ provider = "anthropic" => TextsSeen(response, arrived') \ printed' \subseteq unshown
      BY <1>1, Shown
    <2>3. provider = "anthropic" =>
            \A p \in TextsSeen(response, arrived') \ printed' :
                p[2] \notin ended' /\ \A q \in printed' : Stream!Before(q, p)
      BY <1>1, <2>1 DEF Stream!WaitingSoFar
    <2>2. /\ provider = "anthropic" => en = ended' /\ \A i \in en : arrived'[i] = Parts
          /\ provider # "anthropic" => en = DOMAIN response
      BY <1>1 DEF Stream!GatheredSoFar
    <2> HIDE DEF en
    <2> QED
      BY <1>1, <1>3, <2>1, <2>2, <2>3, HonestAnswer
  <1>7. stage' = "askWhole" => events' = << >> /\ printed' = {} /\ unshown' = {}
    <2> SUFFICES ASSUME stage' = "askWhole"
                 PROVE  events' = << >> /\ printed' = {} /\ unshown' = {}
      OBVIOUS
    <2>1. events' = << >>
      BY <1>4
    <2>2. PartsOf(events') = {}
      BY <2>1 DEF PartsOf
    <2>3. \A i \in DOMAIN response : response[i] = "text" => SeenIn(arrived, i) = {}
      BY <1>3, <2>2 DEF WholeOf
    <2>4. printed' \cup unshown' \subseteq TextsSeen(response, arrived)
      BY <1>1, Shown
    <2> QED
      BY <2>1, <2>3, <2>4 DEF TextsSeen
  <1> QED
    BY <1>4, <1>5, <1>6, <1>7 DEF Stream!StreamInv

\* The numbers in a finite set, in order.
Lists(order, S, N) ==
    /\ order \in [1..N -> S]
    /\ \A a, b \in 1..N : a # b => order[a] # order[b]
    /\ \A i \in S : \E a \in 1..N : order[a] = i
LEMMA InOrderFacts ==
  ASSUME NEW n \in Nat, NEW S \in SUBSET (1..n), NEW order \in Stream!InOrder(S)
  PROVE  \E N \in Nat : Lists(order, S, N)
  <1> DEFINE N == Cardinality(S)
  <1>1. N \in Nat
    <2>1. IsFiniteSet(1..n)
      BY FS_Interval
    <2>2. IsFiniteSet(S)
      BY <2>1, FS_Subset
    <2> QED
      BY <2>2, FS_CardinalityType
  <1>2. /\ order \in [1..N -> S]
        /\ \A a, b \in DOMAIN order : a < b => order[a] < order[b]
        /\ \A i \in S : \E a \in DOMAIN order : order[a] = i
    BY SameCardinality DEF Stream!InOrder
  <1> HIDE DEF N
  <1>3. DOMAIN order = 1..N
    BY <1>2
  <1>4. \A a, b \in 1..N : a # b => order[a] # order[b]
    <2> SUFFICES ASSUME NEW a \in 1..N, NEW b \in 1..N, a # b PROVE order[a] # order[b]
      OBVIOUS
    <2>0. S \subseteq Nat
      OBVIOUS
    <2>1. order[a] \in Nat /\ order[b] \in Nat
      BY <1>2, <2>0
    <2>2. a < b \/ b < a
      BY <1>1
    <2>3. order[a] < order[b] \/ order[b] < order[a]
      BY <1>2, <1>3, <2>2
    <2> QED
      BY <2>1, <2>3
  <1> QED
    BY <1>1, <1>2, <1>3, <1>4 DEF Lists

\* The second request: one whole response, whatever the stream had been of.
LEMMA WholeKeeps == ASSUME Stream!StreamInv, Stream!Whole PROVE Stream!StreamInv'
  <1>1. /\ Stream!StreamTypes /\ stage = "askWhole" /\ printed = {}
        /\ stop' = TRUE /\ UNCHANGED <<provider, attempts, pending>>
    BY DEF Stream!StreamInv, Stream!Whole
  <1>2. PICK r \in Responses : \E words \in Stream!InOrder({i \in DOMAIN r : r[i] # "thinking"}) :
            /\ events' = [n \in DOMAIN words |->
                            [kind |-> r[words[n]], input |-> Stream!Full(2, words[n])]]
            /\ printed' = printed \cup UNION {Stream!ToSet(Stream!Full(2, i)) :
                 i \in {k \in DOMAIN r : r[k] = "text" /\ provider = "anthropic"}}
            /\ response' = r /\ ended' = DOMAIN r
            /\ arrived' = [i \in DOMAIN r |-> Parts]
            /\ stage' = IF words = << >> THEN "failed" ELSE "answered"
    BY DEF Stream!Whole
  <1> DEFINE S == {i \in DOMAIN r : r[i] # "thinking"}
             Sent(i) == {<<2, i, k>> : k \in 1..Parts}
  <1>3. PICK words \in Stream!InOrder(S) :
            /\ events' = [n \in DOMAIN words |->
                            [kind |-> r[words[n]], input |-> Stream!Full(2, words[n])]]
            /\ printed' = UNION {Stream!ToSet(Stream!Full(2, i)) :
                 i \in {k \in DOMAIN r : r[k] = "text" /\ provider = "anthropic"}}
            /\ response' = r /\ ended' = DOMAIN r
            /\ arrived' = [i \in DOMAIN r |-> Parts]
            /\ stage' \in {"failed", "answered"}
    BY <1>1, <1>2
  <1>4. /\ r \in Seq(Stream!Kinds) /\ DOMAIN r = 1..Len(r) /\ Len(r) \in Nat
        /\ \A i \in DOMAIN r : i \in Nat /\ r[i] \in Stream!Kinds
    <2>1. r \in Seq(Stream!Kinds)
      BY StreamConstants
    <2>2. DOMAIN r = 1..Len(r) /\ Len(r) \in Nat
      BY <2>1
    <2> QED
      BY <2>1, <2>2
  <1>5. PICK N \in Nat : /\ words \in [1..N -> S]
                         /\ \A a, b \in 1..N : a # b => words[a] # words[b]
                         /\ \A i \in S : \E a \in 1..N : words[a] = i
    <2>1. S \in SUBSET (1..Len(r))
      BY <1>4
    <2>2. words \in Stream!InOrder(S)
      OBVIOUS
    <2> DEFINE n == Len(r)
    <2> HIDE DEF S, n
    <2>3. n \in Nat /\ S \in SUBSET (1..n)
      BY <1>4, <2>1 DEF n
    <2>4. \E N \in Nat : Lists(words, S, N)
      BY ONLY <2>2, <2>3, InOrderFacts
    <2> QED
      BY <2>4 DEF Lists
  <1>6. \A i \in DOMAIN r : /\ Stream!Full(2, i) \in Seq(Pieces)
                            /\ Stream!ToSet(Stream!Full(2, i)) = Sent(i)
                            /\ Stream!IsPrefix(Stream!Full(2, i), Stream!Full(2, i))
    <2> TAKE i \in DOMAIN r
    <2>1. i \in Nat /\ 2 \in {1, 2} /\ Parts \in 0..Parts
      BY <1>4, StreamConstants
    <2>2. /\ First(2, i, Parts) \in Seq(Pieces) /\ First(2, i, Parts) = Stream!Full(2, i)
          /\ Stream!ToSet(First(2, i, Parts)) = Sent(i)
          /\ Stream!IsPrefix(First(2, i, Parts), Stream!Full(2, i))
      BY <2>1, FirstParts
    <2> QED
      BY <2>2
  <1>7. /\ DOMAIN events' = 1..N
        /\ \A n \in 1..N : /\ words[n] \in S /\ words[n] \in DOMAIN r
                           /\ events'[n].kind = r[words[n]]
                           /\ events'[n].input = Stream!Full(2, words[n])
                           /\ Stream!ToSet(events'[n].input) = Sent(words[n])
                           /\ events'[n] \in Events
    <2>1. DOMAIN words = 1..N /\ \A n \in 1..N : words[n] \in S /\ words[n] \in DOMAIN r
      BY <1>5
    <2>2. /\ DOMAIN events' = 1..N
          /\ \A n \in 1..N : events'[n] = [kind |-> r[words[n]], input |-> Stream!Full(2, words[n])]
      BY <1>3, <2>1
    <2> QED
      BY <1>4, <1>6, <2>1, <2>2 DEF Events
  <1>8. Stream!StreamTypes'
    <2>1. events' \in Seq(Events)
      <3>1. events' \in [1..N -> Events]
        BY <1>3, <1>7
      <3> QED
        BY <3>1, SeqDef
    <2>2. arrived' \in [DOMAIN response' -> 0..Parts]
      BY <1>3, StreamConstants
    <2> QED
      BY <1>1, <1>3, <1>4, <2>1, <2>2 DEF Stream!StreamTypes, Events, Pieces, Stream!Blocks
  <1> HIDE DEF S
  <1>9. \A p : p \in Stream!Answered' <=> \E n \in 1..N : p \in Sent(words[n])
    BY <1>7 DEF Stream!Answered
  <1>10. \A i \in DOMAIN r : r[i] # "thinking" => Sent(i) \subseteq Stream!Answered'
    <2> SUFFICES ASSUME NEW i \in DOMAIN r, r[i] # "thinking" PROVE Sent(i) \subseteq Stream!Answered'
      OBVIOUS
    <2>1. PICK a \in 1..N : words[a] = i
      BY <1>5 DEF S
    <2> QED
      BY <1>9, <2>1
  <1>11. \A p : p \in printed' <=> \E i \in DOMAIN r :
            r[i] = "text" /\ provider = "anthropic" /\ p \in Sent(i)
    BY <1>3, <1>6
  <1>12. /\ printed' \subseteq {p \in Stream!Answered' : r[p[2]] = "text"}
         /\ provider = "anthropic" =>
               {p \in Stream!Answered' : r[p[2]] = "text"} \subseteq printed'
    <2>1. ASSUME NEW p \in printed' PROVE p \in Stream!Answered' /\ r[p[2]] = "text"
      <3>1. PICK i \in DOMAIN r : r[i] = "text" /\ p \in Sent(i)
        BY <1>11, <2>1
      <3>2. p[2] = i
        BY <3>1
      <3> QED
        BY <1>10, <3>1, <3>2
    <2>2. ASSUME NEW p \in Stream!Answered', r[p[2]] = "text", provider = "anthropic"
          PROVE  p \in printed'
      <3>1. PICK n \in 1..N : p \in Sent(words[n])
        BY <1>9, <2>2
      <3>2. p[2] = words[n]
        BY <3>1
      <3> QED
        BY <1>7, <1>11, <2>2, <3>1, <3>2
    <2> QED
      BY <2>1, <2>2
  <1>16. /\ printed' \subseteq Stream!TextAnswered'
         /\ provider' = "anthropic" => Stream!TextAnswered' \ printed' = {}
    BY <1>1, <1>3, <1>12 DEF Stream!TextAnswered
  <1>13. \A m, n \in 1..N : m # n =>
            Stream!ToSet(events'[m].input) \cap Stream!ToSet(events'[n].input) = {}
    <2> SUFFICES ASSUME NEW m \in 1..N, NEW n \in 1..N, m # n,
                        NEW p \in Sent(words[m]), p \in Sent(words[n])
                 PROVE  FALSE
      BY <1>7
    <2>1. p[2] = words[m] /\ p[2] = words[n]
      OBVIOUS
    <2> QED
      BY <1>5, <2>1
  <1>14. \A n \in 1..N : Stream!TrueTo(2, events[n])'
    BY <1>3, <1>6, <1>7 DEF Stream!TrueTo, Stream!Blocks
  <1>15. \A i \in Stream!Blocks' : response'[i] # "thinking"
            => Stream!ToSet(Stream!Full(2, i)) \subseteq Stream!Answered'
    BY <1>3, <1>6, <1>10 DEF Stream!Blocks
  <1> QED
    BY <1>3, <1>7, <1>8, <1>13, <1>14, <1>15, <1>16 DEF Stream!StreamInv, Stream!AnswerHonest

LEMMA StreamNext == Stream!StreamInv /\ Stream!Next => Stream!StreamInv'
  <1> SUFFICES ASSUME Stream!StreamInv, Stream!Next PROVE Stream!StreamInv'
    OBVIOUS
  <1>1. Stream!StreamTypes
    BY DEF Stream!StreamInv
  <1>2. CASE Stream!Retry \/ Stream!Open \/ Stream!Breaks \/ Stream!MessageStop
    BY <1>2, RequestsKeep
  <1>3. CASE Stream!FinishReason
    <2>1. /\ stage = "stream" /\ Stream!BlockStop(Stream!Blocks) /\ ended' = Stream!Blocks
          /\ \A i \in Stream!Blocks : arrived[i] = Parts
          /\ provider = "openai" /\ UNCHANGED <<printed, unshown>>
          /\ UNCHANGED <<provider, stage, attempts, response, arrived, stop>>
      BY <1>3 DEF Stream!FinishReason
    <2>2. ended' = ended \cup Stream!Blocks
      BY <1>1, <2>1 DEF Stream!StreamTypes
    <2>3. Ending(Stream!Blocks)
      BY <2>1, <2>2 DEF Ending
    <2> QED
      BY <2>1, <2>3, BlockEndsKeep
  <1>4. CASE Stream!EndOfStream
    BY <1>4, ConnectionEnds
  <1>5. CASE Stream!Whole
    BY <1>5, WholeKeeps
  <1>6. ASSUME NEW i \in Stream!Blocks, Stream!Frame(i) PROVE Stream!StreamInv'
    <2>1. /\ stage = "stream" /\ provider = "anthropic" /\ Stream!Current(i)
          /\ UNCHANGED <<provider, stage, attempts, response, stop>>
      BY <1>6 DEF Stream!Frame
    <2>2. CASE Stream!Delta(i) /\ UNCHANGED ended
      BY <2>1, <2>2, DeltaKeeps
    <2>3. CASE /\ arrived[i] = Parts /\ ended' = ended \cup {i}
               /\ Stream!BlockStop({i}) /\ Stream!Flush /\ UNCHANGED arrived
      <3>1. /\ {i} \in SUBSET Stream!Blocks /\ \A j \in {i} : arrived[j] = Parts
            /\ ended' = ended \cup {i} /\ Stream!BlockStop({i})
            /\ provider = "anthropic" /\ Stream!Flush
            /\ UNCHANGED <<provider, stage, attempts, response, arrived, stop>>
        BY <2>1, <2>3
      <3>2. Ending({i})
        BY <3>1 DEF Ending
      <3> QED
        BY <2>1, <3>2, BlockEndsKeep
    <2> QED
      BY <1>6, <2>2, <2>3 DEF Stream!Frame
  <1>7. ASSUME NEW i \in Stream!Blocks, Stream!Chunk(i) PROVE Stream!StreamInv'
    BY <1>7, DeltaKeeps DEF Stream!Chunk
  <1> QED
    BY <1>2, <1>3, <1>4, <1>5, <1>6, <1>7 DEF Stream!Next

\* The answer that the turn loop goes on with and stores is of one response,
\* has all of it that was received, nothing twice and of every tool its own
\* input; the user has seen its text, but for the end of a block inside which
\* the stream was closed.
THEOREM AnswersAreHonest == Spec => []AnswerHonest
  <1>1. Stream!StreamInv /\ [Next]_vars => Stream!StreamInv'
    <2> SUFFICES ASSUME Stream!StreamInv, [Next]_vars PROVE Stream!StreamInv'
      OBVIOUS
    <2>1. CASE OnlyStream
      BY <2>1, StreamNext DEF OnlyStream
    <2>2. CASE UNCHANGED streamVars
      <3>1. UNCHANGED <<provider, stage, attempts, response, arrived, ended, pending, events,
                        stop, printed, unshown>>
        BY <2>2 DEF streamVars
      <3>2. Stream!StreamTypes' <=> Stream!StreamTypes
        BY <3>1 DEF Stream!StreamTypes, Stream!Blocks
      <3>3. /\ Stream!EventsWhole' <=> Stream!EventsWhole
            /\ Stream!GatheredSoFar' <=> Stream!GatheredSoFar
            /\ Stream!ShownSoFar' <=> Stream!ShownSoFar
            /\ Stream!WaitingSoFar' <=> Stream!WaitingSoFar
        BY <3>1 DEF Stream!EventsWhole, Stream!GatheredSoFar, Stream!ShownSoFar,
                    Stream!WaitingSoFar, Stream!EventTrue,
                    Stream!Answered, Stream!TextBlocks, Stream!ToolBlocks, Stream!Blocks, Stream!Seen
      <3>4. Stream!AnswerHonest' <=> Stream!AnswerHonest
        BY <3>1 DEF Stream!AnswerHonest, Stream!Answered, Stream!TextAnswered, Stream!TrueTo, Stream!Received,
                    Stream!Blocks
      <3> QED
        BY <3>1, <3>2, <3>3, <3>4 DEF Stream!StreamInv
    <2> QED
      BY <2>1, <2>2 DEF Next, OnlyCli, OnlyPlugins, OnlyLogin, OnlyConfig, vars
  <1>2. Stream!StreamInv => AnswerHonest
    BY DEF Stream!StreamInv, AnswerHonest
  <1> QED
    BY <1>1, <1>2, StreamInit, PTL DEF Spec

=============================================================================
