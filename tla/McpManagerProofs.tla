--------------------------- MODULE McpManagerProofs ---------------------------
(* Theorems about McpManager for every value of its constants.              *)
EXTENDS McpManager, SequenceTheorems, FiniteSetTheorems, TLAPS

Asked   == {"initialize", "request"}
Written == Replies \cup {"junk"}

ProcType ==
    /\ proc \in [Servers -> {"none", "alive", "dead"}]
    /\ init \in [Servers -> BOOLEAN]
    /\ inbox \in [Servers -> Seq(Asked)]
    /\ outbox \in [Servers -> Seq(Written)]
    /\ greeted \subseteq Servers
OpType ==
    /\ op \in Operations \cup {"idle"}
    /\ todo \in Seq(Servers) /\ (todo = << >> <=> op = "idle")
    /\ phase \in {"check", "send", "wait"}
    /\ tries \in 0..1 /\ initTries \in 0..1
    /\ page \in 0..MaxPages /\ found \subseteq Tools
    /\ spawned \in Nat /\ called \in Nat
ToolType ==
    /\ routes \in [QNames -> Routes \cup {NoRoute}]
    /\ reported \in [Servers -> SUBSET Tools]
LossType == orphans \in Nat /\ faults \in 0..MaxFaults

LEMMA TypeParts ==
  TypeOK <=> ProcType /\ OpType /\ ToolType /\ LossType
  BY Zenon DEF TypeOK, ProcType, OpType, ToolType, LossType, Asked, Written

LEMMA TypeNext ==
  TypeOK' <=> ProcType' /\ OpType' /\ ToolType' /\ LossType'
  BY Zenon DEF TypeOK, ProcType, OpType, ToolType, LossType, Asked, Written

(* ProcType and LossType hold after a step that leaves their variables.    *)
LEMMA PartsKept ==
  ASSUME TypeOK
  PROVE  /\ UNCHANGED procVars => ProcType'
         /\ UNCHANGED opVars => OpType'
         /\ UNCHANGED toolVars => ToolType'
         /\ UNCHANGED lossVars => LossType'
  BY TypeParts DEF procVars, opVars, toolVars, lossVars,
                   ProcType, OpType, ToolType, LossType

-----------------------------------------------------------------------------
(* The lines of a pipe.                                                     *)

Marked(q, kinds) == {i \in DOMAIN q : q[i] \in kinds}

LEMMA MarkedEmpty ==
  ASSUME NEW kinds PROVE Marked(<< >>, kinds) = {}
  BY EmptySeq DEF Marked

LEMMA MarkedAppend ==
  ASSUME NEW q \in Seq(Written), NEW m \in Written, NEW kinds
  PROVE  /\ Append(q, m) \in Seq(Written)
         /\ m \notin kinds => Marked(Append(q, m), kinds) = Marked(q, kinds)
         /\ m \in kinds =>
              Marked(Append(q, m), kinds) = Marked(q, kinds) \cup {Len(q) + 1}
  <1> DEFINE r == Append(q, m)
  <1>1. /\ r \in Seq(Written) /\ Len(r) = Len(q) + 1 /\ Len(q) \in Nat
        /\ \A i \in 1..Len(q) : r[i] = q[i]
        /\ r[Len(q) + 1] = m
    BY AppendProperties, LenProperties
  <1>2. DOMAIN q = 1..Len(q) /\ DOMAIN r = 1..Len(r)
    BY <1>1, LenProperties
  <1>3. DOMAIN r = DOMAIN q \cup {Len(q) + 1} /\ Len(q) + 1 \notin DOMAIN q
    BY <1>1, <1>2
  <1> HIDE DEF r
  <1>4. /\ m \notin kinds => Marked(r, kinds) = Marked(q, kinds)
        /\ m \in kinds => Marked(r, kinds) = Marked(q, kinds) \cup {Len(q) + 1}
    BY <1>1, <1>2, <1>3 DEF Marked
  <1> QED
    BY <1>1, <1>4 DEF r

LEMMA MarkedTail ==
  ASSUME NEW q \in Seq(Written), q # << >>, NEW kinds
  PROVE  /\ Tail(q) \in Seq(Written) /\ Head(q) \in Written
         /\ Marked(q, kinds) = {} => Marked(Tail(q), kinds) = {}
         /\ (\A i, j \in Marked(q, kinds) : i = j) =>
               \A i, j \in Marked(Tail(q), kinds) : i = j
         /\ (\A i, j \in Marked(q, kinds) : i = j) /\ Head(q) \in kinds =>
               Marked(Tail(q), kinds) = {}
         /\ Head(q) \in kinds => Marked(q, kinds) # {}
  <1> DEFINE t == Tail(q)
  <1>1. /\ Head(q) \in Written /\ t \in Seq(Written) /\ Head(q) = q[1]
        /\ Len(t) = Len(q) - 1 /\ Len(q) \in Nat \ {0}
        /\ \A i \in 1..Len(t) : t[i] = q[i + 1]
    BY HeadTailProperties, EmptySeq, LenProperties
  <1>2. DOMAIN q = 1..Len(q) /\ DOMAIN t = 1..Len(t)
    BY <1>1, LenProperties
  <1> HIDE DEF t
  <1>3. \A i \in Marked(t, kinds) : i \in Nat \ {0} /\ i + 1 \in Marked(q, kinds)
    BY <1>1, <1>2 DEF Marked
  <1>4. Head(q) \in kinds => 1 \in Marked(q, kinds)
    BY <1>1, <1>2 DEF Marked
  <1>5. Marked(q, kinds) = {} => Marked(t, kinds) = {}
    BY <1>3
  <1>6. (\A i, j \in Marked(q, kinds) : i = j) =>
               \A i, j \in Marked(t, kinds) : i = j
    BY <1>3
  <1>7. (\A i, j \in Marked(q, kinds) : i = j) /\ Head(q) \in kinds =>
               Marked(t, kinds) = {}
    BY <1>3, <1>4
  <1> QED
    BY <1>1, <1>4, <1>5, <1>6, <1>7 DEF t

LEMMA LinesMarked ==
  ASSUME NEW s, NEW kinds
  PROVE  Lines(s, kinds) = Marked(outbox[s], kinds)
         /\ Lines(s, kinds)' = Marked(outbox'[s], kinds)
  BY DEF Lines, Marked

-----------------------------------------------------------------------------
(* What the manager's steps are made of.                                    *)

(* s is the only server whose process a step touches.                      *)
Others(s) ==
    \A x \in Servers \ {s} :
        /\ proc'[x] = proc[x] /\ init'[x] = init[x]
        /\ inbox'[x] = inbox[x] /\ outbox'[x] = outbox[x]
        /\ x \in greeted' <=> x \in greeted

LEMMA Replaced ==
  ASSUME TypeOK, NEW s \in Servers, NEW state \in {"none", "alive"},
         Replace(s, state)
  PROVE  /\ ProcType' /\ Others(s)
         /\ proc'[s] = state /\ init'[s] = FALSE
         /\ inbox'[s] = << >> /\ outbox'[s] = << >>
  <1>1. << >> \in Seq(Asked) /\ << >> \in Seq(Written)
    BY EmptySeq
  <1>2. ProcType
    BY TypeParts
  <1> QED
    BY <1>1, <1>2 DEF ProcType, Replace, Others

LEMMA Lossless ==
  ASSUME TypeOK, ProcessesReaped, NEW s \in Servers, Reset(s)
  PROVE  Replace(s, "none") /\ LossType' /\ ProcessesReaped'
  <1>1. orphans \in Nat /\ faults \in 0..MaxFaults /\ orphans <= faults
    BY TypeParts DEF LossType, ProcessesReaped
  <1>2. MaxFaults \in Nat
    BY McpAssumption DEF McpAssumption
  <1> QED
    BY <1>1, <1>2 DEF Reset, lossVars, LossType, ProcessesReaped, Lost

(* After a step of the manager on s, nobody waits on another server.       *)
LEMMA PipesKept ==
  ASSUME PipesSettled, Handshaken, NEW s \in Servers, Others(s),
         \A x \in Servers \ {s} : ~Here(x, "wait") /\ ~Here(x, "wait")',
         IF Here(s, "wait")' THEN OneInHand(s)'
         ELSE Len(inbox'[s]) = 0 /\ Lines(s, Replies)' = {},
         init'[s] /\ proc'[s] = "alive" => s \in greeted',
         ~init'[s] /\ proc'[s] = "alive" /\ Lines(s, {"result"})' # {}
              => s \in greeted',
         ~init'[s] /\ Len(inbox'[s]) > 0 => Head(inbox'[s]) = "initialize"
  PROVE  PipesSettled' /\ Handshaken'
  <1>1. ASSUME NEW x \in Servers \ {s}
        PROVE  /\ Len(inbox'[x]) = 0 /\ Lines(x, Replies)' = {}
               /\ init'[x] /\ proc'[x] = "alive" => x \in greeted'
               /\ ~init'[x] /\ proc'[x] = "alive" /\ Lines(x, {"result"})' # {}
                    => x \in greeted'
    <2>1. \A kinds : Lines(x, kinds)' = Lines(x, kinds)
      BY DEF Others, Lines
    <2> QED
      BY <2>1 DEF PipesSettled, Handshaken, Others
  <1>2. PipesSettled'
    BY <1>1 DEF PipesSettled
  <1>3. Handshaken'
    BY <1>1 DEF Handshaken
  <1> QED
    BY <1>2, <1>3

(* A replaced process has empty pipes.                                      *)
LEMMA PipesReplaced ==
  ASSUME TypeOK, PipesSettled, Handshaken, NEW s \in Servers,
         NEW state \in {"none", "alive"}, Replace(s, state),
         \A x \in Servers \ {s} : ~Here(x, "wait"),
         phase' # "wait"
  PROVE  PipesSettled' /\ Handshaken'
  <1>1. /\ Others(s) /\ proc'[s] = state /\ init'[s] = FALSE
        /\ inbox'[s] = << >> /\ outbox'[s] = << >>
    BY Replaced
  <1>2. \A x \in Servers : ~Here(x, "wait")'
    BY DEF Here
  <1>3. Len(inbox'[s]) = 0 /\ \A kinds : Lines(s, kinds)' = {}
    BY <1>1, EmptySeq, MarkedEmpty, LinesMarked
  <1> QED
    BY <1>1, <1>2, <1>3, PipesKept

LEMMA WorkStarts ==
  ASSUME NEW o \in Operations \cup {"idle"}, NEW list \in Seq(Servers),
         list = << >> <=> o = "idle", WorkOn(o, list)
  PROVE  OpType' /\ TriesCounted' /\ phase' = "check"
  <1>1. MaxPages \in Nat
    BY McpAssumption DEF McpAssumption
  <1> QED
    BY <1>1 DEF WorkOn, OpType, TriesCounted

LEMMA Returns ==
  ASSUME Return
  PROVE  OpType' /\ TriesCounted' /\ phase' = "check"
  BY WorkStarts, EmptySeq DEF Return

LEMMA ServersFollow ==
  ASSUME TypeOK, NextServer
  PROVE  OpType' /\ TriesCounted' /\ phase' = "check"
  <1>1. CASE Return
    BY <1>1, Returns
  <1>2. CASE Len(todo) > 1 /\ WorkOn(op, Tail(todo))
    <2>1. op \in Operations \cup {"idle"} /\ todo \in Seq(Servers)
          /\ (todo = << >> <=> op = "idle")
      BY TypeParts DEF OpType
    <2>2. todo # << >> /\ Len(todo) \in Nat
      BY <1>2, <2>1, EmptySeq, LenProperties
    <2> DEFINE rest == Tail(todo)
    <2>3. rest \in Seq(Servers) /\ Len(rest) = Len(todo) - 1
      BY <2>1, <2>2, HeadTailProperties
    <2>4. rest # << >>
      <3> HIDE DEF rest
      <3>1. Len(todo) > 1
        BY <1>2
      <3>2. \A m, n \in Nat : n > 1 /\ m = n - 1 => m # 0
        OBVIOUS
      <3>3. Len(rest) \in Nat
        BY <2>3, LenProperties
      <3>4. Len(rest) # 0
        BY <2>2, <2>3, <3>1, <3>2, <3>3
      <3> QED
        BY <3>4, EmptySeq
    <2> QED
      BY <1>2, <2>1, <2>2, <2>3, <2>4, WorkStarts
  <1> QED
    BY <1>1, <1>2 DEF NextServer

LEMMA RoutesCleared ==
  ASSUME TypeOK, RoutesCurrent, NEW s \in Servers
  PROVE  /\ ClearRoutes(s) \in [QNames -> Routes \cup {NoRoute}]
         /\ \A q \in QNames : ClearRoutes(s)[q] # NoRoute =>
               /\ ClearRoutes(s)[q] = routes[q] /\ routes[q] \in Routes
               /\ routes[q][1] \in Servers \ {s}
  <1>1. routes \in [QNames -> Routes \cup {NoRoute}]
    BY TypeParts DEF ToolType
  <1>2. \A r \in Routes : r[1] \in Servers /\ r[2] \in Tools
    BY DEF Routes
  <1> QED
    BY <1>1, <1>2 DEF ClearRoutes, Routed

LEMMA GivenUp ==
  ASSUME TypeOK, RoutesCurrent, NEW s \in Servers, GiveUp(s)
  PROVE  OpType' /\ TriesCounted' /\ phase' = "check"
         /\ ToolType' /\ RoutesCurrent'
  <1>1. CASE op # "best_effort" /\ Return /\ UNCHANGED toolVars
    <2>1. ToolType' /\ RoutesCurrent'
      BY <1>1, PartsKept DEF RoutesCurrent, toolVars
    <2> QED
      BY <1>1, <2>1, Returns
  <1>2. CASE /\ routes' = ClearRoutes(s)
             /\ reported' = [reported EXCEPT ![s] = {}]
             /\ NextServer
    <2>1. reported \in [Servers -> SUBSET Tools]
      BY TypeParts DEF ToolType
    <2>2. ToolType'
      BY <1>2, <2>1, RoutesCleared DEF ToolType
    <2>3. ASSUME NEW q \in QNames, routes'[q] # NoRoute
          PROVE  /\ routes'[q][2] \in reported'[routes'[q][1]]
                 /\ Qualified[routes'[q]] = q
      <3>1. routes'[q] = routes[q] /\ routes[q] # NoRoute
            /\ routes[q][1] \in Servers \ {s}
        BY <1>2, <2>3, RoutesCleared
      <3>2. reported'[routes[q][1]] = reported[routes[q][1]]
        BY <1>2, <2>1, <3>1
      <3> QED
        BY <3>1, <3>2 DEF RoutesCurrent
    <2>4. RoutesCurrent'
      BY <2>3 DEF RoutesCurrent
    <2> QED
      BY <1>2, <2>2, <2>4, ServersFollow
  <1> QED
    BY <1>1, <1>2 DEF GiveUp

(* What the server listed last, and nothing else of it, is routed to it.   *)
LEMMA RoutesAdded ==
  ASSUME TypeOK, RoutesCurrent, NEW s \in Servers, NEW T \in SUBSET Tools,
         routes' \in AddRoutes(ClearRoutes(s), s, T),
         reported' = [reported EXCEPT ![s] = T]
  PROVE  ToolType' /\ RoutesCurrent'
  <1>1. reported \in [Servers -> SUBSET Tools]
    BY TypeParts DEF ToolType
  <1>2. /\ routes' \in [QNames -> Routes \cup {NoRoute}]
        /\ \A q \in QNames :
             \/ routes'[q] = ClearRoutes(s)[q]
             \/ routes'[q] \in {s} \X T /\ Qualified[routes'[q]] = q
    BY DEF AddRoutes
  <1>3. ASSUME NEW q \in QNames, routes'[q] # NoRoute
        PROVE  /\ routes'[q][2] \in reported'[routes'[q][1]]
               /\ Qualified[routes'[q]] = q
    <2>1. CASE routes'[q] = ClearRoutes(s)[q]
      <3>1. routes'[q] = routes[q] /\ routes[q] # NoRoute
            /\ routes[q][1] \in Servers \ {s}
        BY <1>3, <2>1, RoutesCleared
      <3>2. reported'[routes[q][1]] = reported[routes[q][1]]
        BY <1>1, <3>1
      <3> QED
        BY <3>1, <3>2 DEF RoutesCurrent
    <2>2. CASE routes'[q] \in {s} \X T /\ Qualified[routes'[q]] = q
      <3>1. routes'[q][1] = s /\ routes'[q][2] \in T
        BY <2>2
      <3> QED
        BY <1>1, <2>2, <3>1
    <2> QED
      BY <1>2, <2>1, <2>2
  <1>4. RoutesCurrent'
    BY <1>3 DEF RoutesCurrent
  <1> QED
    BY <1>1, <1>2, <1>4 DEF ToolType

LEMMA RoutesKept ==
  ASSUME TypeOK, RoutesCurrent, UNCHANGED toolVars
  PROVE  ToolType' /\ RoutesCurrent'
  BY PartsKept DEF toolVars, RoutesCurrent

LEMMA InvParts ==
  ManagerInv =>
    /\ TypeOK /\ PipesSettled /\ Handshaken /\ TriesCounted
    /\ ProcessesReaped /\ RoutesCurrent
    /\ ProcType /\ OpType /\ ToolType /\ LossType
  BY TypeParts DEF ManagerInv

LEMMA InvNext ==
  ASSUME ProcType', OpType', ToolType', LossType', PipesSettled', Handshaken',
         TriesCounted', ProcessesReaped', RoutesCurrent'
  PROVE  ManagerInv'
  BY TypeNext DEF ManagerInv

LEMMA NobodyElse ==
  ASSUME NEW s \in Servers, s = Head(todo) \/ phase # "wait" \/ op = "shutdown"
  PROVE  \A x \in Servers \ {s} : ~Here(x, "wait")
  BY DEF Here

(* Whatever error ends a request, the process is replaced before another.  *)
LEMMA FailInv ==
  ASSUME ManagerInv, NEW s \in Servers, s = Head(todo),
         phase \in {"send", "wait"}, op # "idle",
         NEW e \in {"transport", "timeout", "invalid"}, Fail(s, e)
  PROVE  ManagerInv'
  <1> USE InvParts
  <1>1. CASE InitializeAgain(s, e) /\ Reset(s) /\ phase' = "check"
             /\ initTries' = 1
             /\ UNCHANGED <<op, todo, tries, page, found, spawned, called,
                            toolVars>>
    <2>1. /\ OpType' /\ ToolType' /\ RoutesCurrent'
      BY <1>1, RoutesKept DEF OpType
    <2>2. TriesCounted'
      <3>1. initTries = 0 /\ ~init[s]
        BY <1>1 DEF InitializeAgain
      <3>2. spawned' <= 2 * tries' + initTries' + IF phase' = "check" THEN 0 ELSE 1
        BY <1>1, <3>1 DEF TriesCounted, OpType
      <3>3. op' = "call" => tries' = 0 /\ called' = 0
        BY <1>1, <3>1 DEF TriesCounted
      <3> QED
        BY <3>2, <3>3 DEF TriesCounted
    <2>3. /\ Replace(s, "none") /\ LossType' /\ ProcessesReaped'
      BY <1>1, Lossless
    <2>4. ProcType' /\ PipesSettled' /\ Handshaken'
      BY <1>1, <2>3, NobodyElse, PipesReplaced, Replaced
    <2> QED
      BY <2>1, <2>2, <2>3, <2>4, InvNext
  <1>2. CASE MayRetry(e) /\ TryAgain(s)
    <2>1. /\ Reset(s) /\ phase' = "check" /\ initTries' = 0 /\ page' = 0
          /\ found' = {} /\ tries' = tries + 1
          /\ UNCHANGED <<op, todo, spawned, called, toolVars>>
      BY <1>2 DEF TryAgain
    <2>2. tries = 0 /\ op # "call"
      BY <1>2 DEF MayRetry
    <2>3. OpType' /\ ToolType' /\ RoutesCurrent'
      <3>1. MaxPages \in Nat
        BY McpAssumption DEF McpAssumption
      <3> QED
        BY <2>1, <2>2, <3>1, RoutesKept DEF OpType
    <2>4. TriesCounted'
      BY <2>1, <2>2 DEF TriesCounted, OpType
    <2>5. Replace(s, "none") /\ LossType' /\ ProcessesReaped'
      BY <2>1, Lossless
    <2>6. ProcType' /\ PipesSettled' /\ Handshaken'
      BY <2>1, <2>5, NobodyElse, PipesReplaced, Replaced
    <2> QED
      BY <2>3, <2>4, <2>5, <2>6, InvNext
  <1>3. CASE ResetIfNeeded(s, e) /\ GiveUp(s)
    <2>1. /\ OpType' /\ TriesCounted' /\ phase' = "check"
          /\ ToolType' /\ RoutesCurrent'
      BY <1>3, GivenUp
    <2>2. Reset(s)
      BY <1>3 DEF ResetIfNeeded, ShouldReset
    <2>3. Replace(s, "none") /\ LossType' /\ ProcessesReaped'
      BY <2>2, Lossless
    <2>4. ProcType' /\ PipesSettled' /\ Handshaken'
      BY <2>1, <2>3, NobodyElse, PipesReplaced, Replaced
    <2> QED
      BY <2>1, <2>3, <2>4, InvNext
  <1> QED
    BY <1>1, <1>2, <1>3 DEF Fail

-----------------------------------------------------------------------------
(* The steps of the manager.                                                *)

LEMMA HereFacts ==
  ASSUME ManagerInv, NEW s, NEW ph, Here(s, ph)
  PROVE  /\ s \in Servers /\ s = Head(todo) /\ phase = ph
         /\ op \in Operations \ {"shutdown"} /\ op # "idle" /\ todo # << >>
         /\ todo \in Seq(Servers)
  <1>1. todo \in Seq(Servers) /\ todo # << >> /\ op \in Operations \cup {"idle"}
    BY InvParts DEF OpType, Here
  <1>2. Head(todo) \in Servers
    BY <1>1, HeadTailProperties
  <1> QED
    BY <1>1, <1>2 DEF Here

LEMMA CheckInv ==
  ASSUME ManagerInv, NEW s \in Servers, Check(s)
  PROVE  ManagerInv'
  <1> USE InvParts
  <1>1. /\ Here(s, "check") /\ s = Head(todo) /\ phase = "check"
        /\ \A x \in Servers : ~Here(x, "wait")
    BY HereFacts DEF Check, Here
  <1>2. CASE /\ ~NeedsSpawn(s) /\ phase' = "send"
             /\ UNCHANGED <<procVars, op, todo, tries, initTries, page, found,
                            spawned, called, toolVars, lossVars>>
    <2>1. OpType' /\ ToolType' /\ RoutesCurrent' /\ ProcType' /\ LossType'
      BY <1>2, RoutesKept, PartsKept DEF OpType
    <2>2. UNCHANGED <<proc, init, inbox, outbox, greeted, orphans, faults>>
      BY <1>2 DEF procVars, lossVars
    <2>3. TriesCounted' /\ ProcessesReaped'
      BY <1>1, <1>2, <2>2 DEF TriesCounted, ProcessesReaped, OpType
    <2>4. \A x \in Servers : ~Here(x, "wait")'
      BY <1>2 DEF Here
    <2>5. PipesSettled' /\ Handshaken'
      <3>1. \A x, kinds : Lines(x, kinds)' = Lines(x, kinds)
        BY <2>2 DEF Lines
      <3> QED
        BY <1>1, <2>2, <2>4, <3>1 DEF PipesSettled, Handshaken
    <2> QED
      BY <2>1, <2>3, <2>5, InvNext
  <1>3. CASE /\ NeedsSpawn(s) /\ Replace(s, "alive")
             /\ orphans' = orphans + Lost(s)
             /\ phase' = "send" /\ spawned' = spawned + 1
             /\ UNCHANGED <<op, todo, tries, initTries, page, found,
                            called, toolVars, faults>>
    <2>1. OpType' /\ ToolType' /\ RoutesCurrent'
      BY <1>3, RoutesKept DEF OpType
    <2>2. LossType' /\ ProcessesReaped'
      BY <1>3 DEF NeedsSpawn, Lost, LossType, ProcessesReaped
    <2>3. TriesCounted'
      BY <1>1, <1>3 DEF TriesCounted, OpType
    <2>4. ProcType' /\ PipesSettled' /\ Handshaken'
      BY <1>1, <1>3, PipesReplaced, Replaced
    <2> QED
      BY <2>1, <2>2, <2>3, <2>4, InvNext
  <1>4. CASE Replace(s, "none") /\ UNCHANGED lossVars /\ GiveUp(s)
    <2>1. /\ OpType' /\ TriesCounted' /\ phase' = "check"
          /\ ToolType' /\ RoutesCurrent'
      BY <1>4, GivenUp
    <2>2. LossType' /\ ProcessesReaped'
      BY <1>4, PartsKept DEF lossVars, ProcessesReaped
    <2>3. ProcType' /\ PipesSettled' /\ Handshaken'
      BY <1>1, <1>4, <2>1, PipesReplaced, Replaced
    <2> QED
      BY <2>1, <2>2, <2>3, InvNext
  <1> QED
    BY <1>2, <1>3, <1>4 DEF Check

LEMMA OneAsked ==
  ASSUME NEW q \in Seq(Asked), Len(q) = 0, NEW m \in Asked
  PROVE  /\ Append(q, m) \in Seq(Asked) /\ Len(Append(q, m)) = 1
         /\ Head(Append(q, m)) = m /\ Last(Append(q, m)) = m
  <1> DEFINE r == Append(q, m)
  <1>1. r \in Seq(Asked) /\ Len(r) = Len(q) + 1 /\ r[Len(q) + 1] = m
    BY AppendProperties
  <1> HIDE DEF r
  <1>2. Len(r) = 1 /\ r[1] = m
    BY <1>1
  <1>3. r # << >>
    BY <1>2, EmptySeq
  <1>4. Head(r) = r[1] /\ Last(r) = r[1]
    BY <1>1, <1>2, <1>3, HeadTailProperties DEF Last
  <1> QED
    BY <1>1, <1>2, <1>4 DEF r

LEMMA SendInv ==
  ASSUME ManagerInv, NEW s \in Servers, Send(s)
  PROVE  ManagerInv'
  <1> USE InvParts
  <1> DEFINE m == IF init[s] THEN "request" ELSE "initialize"
  <1>1. /\ Here(s, "send") /\ s = Head(todo) /\ phase = "send"
        /\ op # "idle" /\ \A x \in Servers : ~Here(x, "wait")
    BY HereFacts DEF Send, Here
  <1>2. CASE proc[s] = "dead" /\ Fail(s, "transport")
    BY <1>1, <1>2, FailInv
  <1>3. CASE /\ proc[s] = "alive"
             /\ inbox' = [inbox EXCEPT ![s] = Append(@, m)]
             /\ phase' = "wait"
             /\ called' = called + IF op = "call" /\ init[s] THEN 1 ELSE 0
             /\ UNCHANGED <<proc, init, outbox, greeted, op, todo, tries,
                            initTries, page, found, spawned, toolVars,
                            lossVars>>
    <2>1. m \in Asked /\ inbox[s] \in Seq(Asked) /\ Len(inbox[s]) = 0
          /\ Lines(s, Replies) = {}
      BY <1>1 DEF Asked, ProcType, PipesSettled
    <2>2. /\ inbox'[s] \in Seq(Asked) /\ Len(inbox'[s]) = 1 /\ Head(inbox'[s]) = m
          /\ \A x \in Servers \ {s} : inbox'[x] = inbox[x]
          /\ inbox' \in [Servers -> Seq(Asked)]
      BY <1>3, <2>1, OneAsked DEF ProcType
    <2>3. OpType' /\ ToolType' /\ RoutesCurrent' /\ ProcType' /\ LossType'
      <3>1. OpType'
        BY <1>3 DEF OpType
      <3>2. ProcType'
        BY <1>3, <2>2 DEF ProcType
      <3> QED
        BY <1>3, <3>1, <3>2, RoutesKept, PartsKept
    <2>4. ProcessesReaped'
      BY <1>3 DEF ProcessesReaped, lossVars
    <2>5. TriesCounted'
      <3>1. spawned' <= 2 * tries' + initTries' + IF phase' = "check" THEN 0 ELSE 1
        BY <1>1, <1>3 DEF TriesCounted
      <3>2. ASSUME op' = "call"
            PROVE  /\ tries' = 0
                   /\ called' = 0 \/ (called' = 1 /\ phase' = "wait"
                                        /\ init'[Head(todo')])
        BY <1>1, <1>3, <3>2 DEF TriesCounted
      <3> QED
        BY <3>1, <3>2 DEF TriesCounted
    <2>6. PipesSettled' /\ Handshaken'
      <3>1. /\ Others(s) /\ \A kinds : Lines(s, kinds)' = Lines(s, kinds)
        BY <1>3, <2>2 DEF Others, Lines
      <3>2. OneInHand(s)'
        BY <2>1, <2>2, <3>1 DEF OneInHand
      <3>3. \A x \in Servers \ {s} : ~Here(x, "wait") /\ ~Here(x, "wait")'
        BY <1>1, <1>3 DEF Here
      <3>4. Here(s, "wait")'
        BY <1>1, <1>3 DEF Here
      <3>5. /\ init'[s] /\ proc'[s] = "alive" => s \in greeted'
            /\ ~init'[s] /\ proc'[s] = "alive" /\ Lines(s, {"result"})' # {}
                 => s \in greeted'
            /\ ~init'[s] /\ Len(inbox'[s]) > 0 => Head(inbox'[s]) = "initialize"
        BY <1>3, <2>2, <3>1 DEF Handshaken
      <3> QED
        BY <3>1, <3>2, <3>3, <3>4, <3>5, PipesKept
    <2> QED
      BY <2>3, <2>4, <2>5, <2>6, InvNext
  <1> QED
    BY <1>2, <1>3 DEF Send

(* An answer, taken from the pipe, leaves it empty.                        *)
LEMMA Consumed ==
  ASSUME ManagerInv, NEW s \in Servers, Here(s, "wait"), Consume(s),
         outbox[s] # << >>, Head(outbox[s]) # "junk",
         init' \in [Servers -> BOOLEAN],
         \A x \in Servers \ {s} : init'[x] = init[x],
         init'[s] = init[s] \/ (init'[s] /\ Head(outbox[s]) = "result"),
         phase' # "wait"
  PROVE  ProcType' /\ PipesSettled' /\ Handshaken'
  <1> USE InvParts
  <1>1. /\ s = Head(todo) /\ phase = "wait"
        /\ \A x \in Servers \ {s} : ~Here(x, "wait")
        /\ \A x \in Servers : ~Here(x, "wait")'
    BY HereFacts DEF Here
  <1>2. /\ outbox[s] \in Seq(Written) /\ outbox'[s] = Tail(outbox[s])
        /\ UNCHANGED <<proc, inbox, greeted>>
        /\ \A x \in Servers \ {s} : outbox'[x] = outbox[x]
    BY DEF ProcType, Consume
  <1>3. Head(outbox[s]) \in Replies /\ Tail(outbox[s]) \in Seq(Written)
    BY <1>2, MarkedTail DEF Written
  <1>4. ProcType'
    BY <1>2, <1>3 DEF ProcType, Consume
  <1>5. Lines(s, Replies) # {}
    BY <1>2, <1>3, MarkedTail, LinesMarked
  <1>6. Len(inbox[s]) = 0 /\ \A i, j \in Lines(s, Replies) : i = j
    BY <1>5 DEF PipesSettled, OneInHand
  <1>7. Lines(s, Replies)' = {}
    BY <1>2, <1>3, <1>6, MarkedTail, LinesMarked
  <1>8. Lines(s, {"result"})' = {}
    BY <1>7 DEF Lines, Replies
  <1>9. Head(outbox[s]) = "result" => Lines(s, {"result"}) # {}
    <2> DEFINE K == {"result"}
    <2>1. Head(outbox[s]) = "result" => Head(outbox[s]) \in K
      OBVIOUS
    <2> HIDE DEF K
    <2>2. Head(outbox[s]) \in K => Marked(outbox[s], K) # {}
      BY <1>2, MarkedTail
    <2> QED
      BY <2>1, <2>2, LinesMarked DEF K
  <1>10. init'[s] /\ proc'[s] = "alive" => s \in greeted'
    BY <1>2, <1>9 DEF Handshaken
  <1>11. Others(s)
    BY <1>2 DEF Others
  <1> QED
    BY <1>1, <1>2, <1>4, <1>6, <1>7, <1>8, <1>10, <1>11, PipesKept

LEMMA AcceptInv ==
  ASSUME ManagerInv, NEW s \in Servers, Accept(s)
  PROVE  ManagerInv'
  <1> USE InvParts
  <1>1. /\ Here(s, "wait") /\ s = Head(todo) /\ phase = "wait"
        /\ outbox[s] # << >> /\ Head(outbox[s]) # "junk" /\ Consume(s)
    BY HereFacts DEF Accept
  <1>2. CASE ~init[s] /\ AcceptInitialize(s, Head(outbox[s]))
    <2>1. /\ Head(outbox[s]) = "result"
          /\ init' = [init EXCEPT ![s] = TRUE] /\ phase' = "send"
          /\ UNCHANGED <<op, todo, tries, initTries, page, found, spawned,
                         called, toolVars, lossVars>>
      BY <1>2 DEF AcceptInitialize
    <2>2. OpType' /\ ToolType' /\ RoutesCurrent' /\ LossType'
      BY <2>1, RoutesKept, PartsKept DEF OpType
    <2>3. ProcessesReaped'
      BY <2>1 DEF ProcessesReaped, lossVars
    <2>4. TriesCounted'
      BY <1>1, <1>2, <2>1 DEF TriesCounted
    <2>5. /\ init' \in [Servers -> BOOLEAN] /\ init'[s]
          /\ \A x \in Servers \ {s} : init'[x] = init[x]
      BY <2>1 DEF ProcType
    <2>6. ProcType' /\ PipesSettled' /\ Handshaken'
      BY <1>1, <2>1, <2>5, Consumed
    <2> QED
      BY <2>2, <2>3, <2>4, <2>6, InvNext
  <1>3. ASSUME NEW tools \in SUBSET Tools, UNCHANGED init,
               NextPage(tools) \/ Complete(s, tools)
        PROVE  ManagerInv'
    <2>1. /\ init' \in [Servers -> BOOLEAN] /\ init'[s] = init[s]
          /\ \A x \in Servers \ {s} : init'[x] = init[x]
      BY <1>3 DEF ProcType
    <2>2. CASE NextPage(tools)
      <3>1. /\ op # "call" /\ page < MaxPages /\ page' = page + 1
            /\ found' = found \cup tools /\ phase' = "send"
            /\ UNCHANGED <<op, todo, tries, initTries, spawned, called,
                           toolVars, lossVars>>
        BY <2>2 DEF NextPage
      <3>2. OpType' /\ ToolType' /\ RoutesCurrent' /\ LossType'
        <4>1. MaxPages \in Nat
          BY McpAssumption DEF McpAssumption
        <4> QED
          BY <3>1, <4>1, RoutesKept, PartsKept DEF OpType
      <3>3. ProcessesReaped'
        BY <3>1 DEF ProcessesReaped, lossVars
      <3>4. TriesCounted'
        BY <1>1, <3>1 DEF TriesCounted
      <3>5. ProcType' /\ PipesSettled' /\ Handshaken'
        BY <1>1, <2>1, <3>1, Consumed
      <3> QED
        BY <3>2, <3>3, <3>4, <3>5, InvNext
    <2>3. CASE Complete(s, tools)
      <3>1. NextServer /\ UNCHANGED lossVars
        BY <2>3 DEF Complete
      <3>2. OpType' /\ TriesCounted' /\ phase' = "check"
        BY <3>1, ServersFollow
      <3>3. ToolType' /\ RoutesCurrent'
        <4>1. found \cup tools \in SUBSET Tools
          BY DEF OpType
        <4> QED
          BY <2>3, <4>1, RoutesKept, RoutesAdded DEF Complete
      <3>4. LossType' /\ ProcessesReaped'
        BY <3>1, PartsKept DEF ProcessesReaped, lossVars
      <3>5. ProcType' /\ PipesSettled' /\ Handshaken'
        BY <1>1, <2>1, <3>2, Consumed
      <3> QED
        BY <3>2, <3>3, <3>4, <3>5, InvNext
    <2> QED
      BY <1>3, <2>2, <2>3
  <1> QED
    BY <1>2, <1>3 DEF Accept

LEMMA RefuseInv ==
  ASSUME ManagerInv, NEW s \in Servers,
         Refuse(s) \/ EndOfFile(s) \/ Timeout(s)
  PROVE  ManagerInv'
  <1> USE InvParts
  <1>1. /\ Here(s, "wait") /\ s = Head(todo) /\ phase = "wait" /\ op # "idle"
    BY HereFacts DEF Refuse, EndOfFile, Timeout
  <1>2. CASE \E e \in {"transport", "timeout", "invalid"} : Fail(s, e)
    BY <1>1, <1>2, FailInv
  <1>3. CASE /\ outbox[s] # << >> /\ Head(outbox[s]) = "rpc_error"
             /\ Consume(s) /\ UNCHANGED <<init, lossVars>> /\ GiveUp(s)
    <2>1. /\ OpType' /\ TriesCounted' /\ phase' = "check"
          /\ ToolType' /\ RoutesCurrent'
      BY <1>3, GivenUp
    <2>2. LossType' /\ ProcessesReaped'
      BY <1>3, PartsKept DEF ProcessesReaped, lossVars
    <2>3. /\ init' \in [Servers -> BOOLEAN] /\ init'[s] = init[s]
          /\ \A x \in Servers \ {s} : init'[x] = init[x]
      BY <1>3 DEF ProcType
    <2>4. ProcType' /\ PipesSettled' /\ Handshaken'
      BY <1>1, <1>3, <2>1, <2>3, Consumed
    <2> QED
      BY <2>1, <2>2, <2>4, InvNext
  <1> QED
    BY <1>2, <1>3 DEF Refuse, EndOfFile, Timeout

LEMMA PipesUntouched ==
  ASSUME PipesSettled, Handshaken, UNCHANGED procVars,
         \A x \in Servers : ~Here(x, "wait") /\ ~Here(x, "wait")'
  PROVE  PipesSettled' /\ Handshaken'
  <1>1. UNCHANGED <<proc, init, inbox, outbox, greeted>>
    BY DEF procVars
  <1>2. \A x, kinds : Lines(x, kinds)' = Lines(x, kinds)
    BY <1>1 DEF Lines
  <1> QED
    BY <1>1, <1>2 DEF PipesSettled, Handshaken

LEMMA ShutdownInv ==
  ASSUME ManagerInv, NEW s \in Servers, ShutdownServer(s)
  PROVE  ManagerInv'
  <1> USE InvParts
  <1>1. /\ op = "shutdown" /\ UNCHANGED <<toolVars, lossVars>>
        /\ \A x \in Servers : ~Here(x, "wait")
    BY DEF ShutdownServer, Here
  <1>2. /\ ToolType' /\ RoutesCurrent' /\ LossType' /\ ProcessesReaped'
    BY <1>1, RoutesKept, PartsKept DEF ProcessesReaped, lossVars
  <1>3. CASE Replace(s, "none") /\ NextServer
    <2>1. OpType' /\ TriesCounted' /\ phase' = "check"
      BY <1>3, ServersFollow
    <2>2. ProcType' /\ PipesSettled' /\ Handshaken'
      BY <1>1, <1>3, <2>1, PipesReplaced, Replaced
    <2> QED
      BY <1>2, <2>1, <2>2, InvNext
  <1>4. CASE Return /\ UNCHANGED procVars
    <2>1. OpType' /\ TriesCounted' /\ phase' = "check"
      BY <1>4, Returns
    <2>2. \A x \in Servers : ~Here(x, "wait")'
      BY <2>1 DEF Here
    <2>3. ProcType' /\ PipesSettled' /\ Handshaken'
      BY <1>1, <1>4, <2>2, PipesUntouched, PartsKept
    <2> QED
      BY <1>2, <2>1, <2>3, InvNext
  <1> QED
    BY <1>3, <1>4 DEF ShutdownServer

LEMMA StartInv ==
  ASSUME ManagerInv, NEW o \in Operations, NEW list \in Seq(Servers),
         list # << >>, Start(o, list)
  PROVE  ManagerInv'
  <1> USE InvParts
  <1>1. /\ op = "idle" /\ WorkOn(o, list) /\ UNCHANGED <<procVars, toolVars, lossVars>>
    BY DEF Start
  <1>2. OpType' /\ TriesCounted' /\ phase' = "check"
    BY <1>1, WorkStarts DEF Operations
  <1>3. \A x \in Servers : ~Here(x, "wait") /\ ~Here(x, "wait")'
    BY <1>1, <1>2 DEF Here
  <1>4. ProcType' /\ PipesSettled' /\ Handshaken'
    BY <1>1, <1>3, PipesUntouched, PartsKept
  <1>5. ToolType' /\ RoutesCurrent' /\ LossType' /\ ProcessesReaped'
    BY <1>1, RoutesKept, PartsKept DEF ProcessesReaped, lossVars
  <1> QED
    BY <1>2, <1>4, <1>5, InvNext

LEMMA CallsInv ==
  ASSUME ManagerInv,
         \/ \E o \in {"discover", "best_effort", "shutdown"} : Start(o, Order)
         \/ \E o \in {"list", "read"}, s \in Servers : Start(o, <<s>>)
         \/ \E q \in QNames : CallTool(q)
  PROVE  ManagerInv'
  <1> USE InvParts
  <1>1. \A s \in Servers : <<s>> \in Seq(Servers) /\ <<s>> # << >>
    OBVIOUS
  <1>2. ASSUME NEW o \in {"discover", "best_effort", "shutdown"}, Start(o, Order)
        PROVE  ManagerInv'
    <2>1. Order \in Seq(Servers) /\ Order # << >> /\ o \in Operations
      BY McpAssumption DEF McpAssumption, Operations
    <2> QED
      BY <1>2, <2>1, StartInv
  <1>3. ASSUME NEW o \in {"list", "read"}, NEW s \in Servers, Start(o, <<s>>)
        PROVE  ManagerInv'
    BY <1>1, <1>3, StartInv DEF Operations
  <1>4. ASSUME NEW q \in QNames, CallTool(q)
        PROVE  ManagerInv'
    <2>1. CASE routes[q] # NoRoute /\ Start("call", <<routes[q][1]>>)
      <3>1. routes[q] \in Routes
        BY <2>1 DEF ToolType
      <3>2. routes[q][1] \in Servers
        BY <3>1 DEF Routes
      <3> QED
        BY <1>1, <2>1, <3>2, StartInv DEF Operations
    <2>2. CASE /\ op = "idle" /\ Return
               /\ UNCHANGED <<procVars, toolVars, lossVars>>
      <3>1. OpType' /\ TriesCounted' /\ phase' = "check"
        BY <2>2, Returns
      <3>2. \A x \in Servers : ~Here(x, "wait") /\ ~Here(x, "wait")'
        BY <2>2, <3>1 DEF Here
      <3>3. ProcType' /\ PipesSettled' /\ Handshaken'
        BY <2>2, <3>2, PipesUntouched, PartsKept
      <3>4. ToolType' /\ RoutesCurrent' /\ LossType' /\ ProcessesReaped'
        BY <2>2, RoutesKept, PartsKept DEF ProcessesReaped, lossVars
      <3> QED
        BY <3>1, <3>3, <3>4, InvNext
    <2> QED
      BY <1>4, <2>1, <2>2 DEF CallTool
  <1> QED
    BY <1>2, <1>3, <1>4

-----------------------------------------------------------------------------
(* The steps of a process.                                                  *)

LEMMA ProcessSteps ==
  ASSUME ManagerInv, NEW s \in Servers, Others(s), ProcType', UNCHANGED init,
         UNCHANGED <<opVars, toolVars, lossVars>>,
         IF Here(s, "wait") THEN OneInHand(s)'
         ELSE Len(inbox'[s]) = 0 /\ Lines(s, Replies)' = {},
         init[s] /\ proc'[s] = "alive" => s \in greeted',
         ~init[s] /\ proc'[s] = "alive" /\ Lines(s, {"result"})' # {}
              => s \in greeted',
         ~init[s] /\ Len(inbox'[s]) > 0 => Head(inbox'[s]) = "initialize"
  PROVE  ManagerInv'
  <1> USE InvParts
  <1>1. OpType' /\ LossType' /\ ToolType' /\ RoutesCurrent'
    BY PartsKept, RoutesKept
  <1>2. /\ UNCHANGED <<op, todo, phase, tries, initTries, spawned, called>>
        /\ UNCHANGED <<orphans, faults>>
    BY DEF opVars, lossVars
  <1>3. TriesCounted' /\ ProcessesReaped'
    BY <1>2 DEF TriesCounted, ProcessesReaped
  <1>4. \A x : Here(x, "wait")' <=> Here(x, "wait")
    BY <1>2 DEF Here
  <1>5. ASSUME NEW x \in Servers \ {s}
        PROVE  \A kinds : Lines(x, kinds)' = Lines(x, kinds)
    BY DEF Lines, Others
  <1>6. PipesSettled'
    BY <1>4, <1>5 DEF PipesSettled, Others, OneInHand
  <1>7. Handshaken'
    BY <1>5 DEF Handshaken, Others
  <1> QED
    BY <1>1, <1>3, <1>6, <1>7, InvNext

LEMMA ServeInv ==
  ASSUME ManagerInv, NEW s \in Servers, Serve(s)
  PROVE  ManagerInv'
  <1> USE InvParts
  <1>1. PICK reply \in Replies :
          /\ outbox' = [outbox EXCEPT ![s] = Append(@, reply)]
          /\ greeted' = IF Head(inbox[s]) = "initialize" /\ reply = "result"
                        THEN greeted \cup {s} ELSE greeted
    BY DEF Serve
  <1>2. /\ proc[s] = "alive" /\ inbox[s] # << >>
        /\ inbox' = [inbox EXCEPT ![s] = Tail(@)]
        /\ UNCHANGED <<proc, init, opVars, toolVars, lossVars>>
        /\ inbox[s] \in Seq(Asked) /\ outbox[s] \in Seq(Written)
        /\ reply \in Written
    BY DEF Serve, ProcType, Written
  <1>3. Len(inbox[s]) # 0 /\ Len(inbox[s]) \in Nat
    BY <1>2, EmptySeq, LenProperties
  <1>4. Here(s, "wait") /\ Len(inbox[s]) = 1 /\ Lines(s, Replies) = {}
    BY <1>3 DEF PipesSettled, OneInHand
  <1>5. Tail(inbox[s]) \in Seq(Asked) /\ Len(Tail(inbox[s])) = 0
    BY <1>2, <1>4, HeadTailProperties
  <1>6. inbox'[s] = Tail(inbox[s]) /\ outbox'[s] = Append(outbox[s], reply)
    BY <1>1, <1>2 DEF ProcType
  <1>7. Append(outbox[s], reply) \in Seq(Written)
    BY <1>2, AppendProperties
  <1>8. ProcType' /\ Others(s)
    BY <1>1, <1>2, <1>5, <1>7 DEF ProcType, Others
  <1>12. ASSUME NEW kinds
         PROVE  /\ reply \notin kinds => Lines(s, kinds)' = Lines(s, kinds)
                /\ reply \in kinds =>
                     Lines(s, kinds)' = Lines(s, kinds) \cup {Len(outbox[s]) + 1}
    <2> DEFINE q == outbox[s]
    <2>1. q \in Seq(Written) /\ reply \in Written /\ outbox'[s] = Append(q, reply)
      BY <1>2, <1>6
    <2>2. /\ Lines(s, kinds) = Marked(q, kinds)
          /\ Lines(s, kinds)' = Marked(Append(q, reply), kinds)
      BY <2>1, LinesMarked
    <2> HIDE DEF q
    <2>3. /\ reply \notin kinds => Marked(Append(q, reply), kinds) = Marked(q, kinds)
          /\ reply \in kinds => Marked(Append(q, reply), kinds)
                                  = Marked(q, kinds) \cup {Len(q) + 1}
      BY <2>1, MarkedAppend
    <2> QED
      BY <2>2, <2>3 DEF q
  <1>9. OneInHand(s)'
    <2>1. Lines(s, Replies)' = {Len(outbox[s]) + 1}
      BY <1>4, <1>12
    <2> QED
      BY <1>5, <1>6, <2>1 DEF OneInHand
  <1>10. init[s] \/ reply = "result" => s \in greeted'
    <2>1. ~init[s] => Head(inbox[s]) = "initialize"
      BY <1>3 DEF Handshaken
    <2>2. init[s] => s \in greeted
      BY <1>2 DEF Handshaken
    <2> QED
      BY <1>1, <2>1, <2>2
  <1>11. reply # "result" => Lines(s, {"result"})' = {}
    <2> DEFINE K == {"result"}
    <2>1. Lines(s, K) = {}
      BY <1>4 DEF Lines, Replies
    <2>2. reply # "result" => reply \notin K
      OBVIOUS
    <2> HIDE DEF K
    <2>3. reply \notin K => Lines(s, K)' = {}
      BY <1>12, <2>1
    <2> QED
      BY <2>2, <2>3 DEF K
  <1>13. /\ init[s] /\ proc'[s] = "alive" => s \in greeted'
         /\ ~init[s] /\ proc'[s] = "alive" /\ Lines(s, {"result"})' # {}
               => s \in greeted'
    BY <1>10, <1>11
  <1>14. ~init[s] /\ Len(inbox'[s]) > 0 => Head(inbox'[s]) = "initialize"
    BY <1>5, <1>6
  <1>15. /\ IF Here(s, "wait") THEN OneInHand(s)'
            ELSE Len(inbox'[s]) = 0 /\ Lines(s, Replies)' = {}
         /\ UNCHANGED init /\ UNCHANGED <<opVars, toolVars, lossVars>>
    BY <1>2, <1>4, <1>9
  <1> QED
    BY <1>8, <1>13, <1>14, <1>15, ProcessSteps

LEMMA JunkInv ==
  ASSUME ManagerInv, NEW s \in Servers, Junk(s)
  PROVE  ManagerInv'
  <1> USE InvParts
  <1>1. /\ outbox' = [outbox EXCEPT ![s] = Append(@, "junk")]
        /\ UNCHANGED <<proc, init, inbox, greeted, opVars, toolVars, lossVars>>
        /\ outbox[s] \in Seq(Written) /\ "junk" \in Written
    BY DEF Junk, ProcType, Written
  <1>2. outbox'[s] = Append(outbox[s], "junk")
        /\ Append(outbox[s], "junk") \in Seq(Written)
    BY <1>1, AppendProperties DEF ProcType
  <1>3. ProcType' /\ Others(s)
    BY <1>1, <1>2 DEF ProcType, Others
  <1>4. ASSUME NEW kinds, "junk" \notin kinds
        PROVE  Lines(s, kinds)' = Lines(s, kinds)
    BY <1>1, <1>2, <1>4, MarkedAppend, LinesMarked
  <1>5. Lines(s, Replies)' = Lines(s, Replies)
        /\ Lines(s, {"result"})' = Lines(s, {"result"})
    BY <1>4 DEF Replies
  <1>6. IF Here(s, "wait") THEN OneInHand(s)'
        ELSE Len(inbox'[s]) = 0 /\ Lines(s, Replies)' = {}
    BY <1>1, <1>5 DEF PipesSettled, OneInHand
  <1>7. /\ init[s] /\ proc'[s] = "alive" => s \in greeted'
        /\ ~init[s] /\ proc'[s] = "alive" /\ Lines(s, {"result"})' # {}
              => s \in greeted'
        /\ ~init[s] /\ Len(inbox'[s]) > 0 => Head(inbox'[s]) = "initialize"
    BY <1>1, <1>5 DEF Handshaken
  <1> QED
    BY <1>1, <1>3, <1>6, <1>7, ProcessSteps

LEMMA ExitInv ==
  ASSUME ManagerInv, NEW s \in Servers, Exit(s)
  PROVE  ManagerInv'
  <1> USE InvParts
  <1>1. << >> \in Seq(Asked) /\ Len(<< >>) = 0
    BY EmptySeq
  <1>2. /\ proc' = [proc EXCEPT ![s] = "dead"]
        /\ inbox' = [inbox EXCEPT ![s] = << >>]
        /\ greeted' = greeted \ {s}
        /\ UNCHANGED <<init, outbox, opVars, toolVars, lossVars>>
    BY DEF Exit
  <1>3. ProcType' /\ Others(s) /\ proc'[s] = "dead" /\ inbox'[s] = << >>
    BY <1>1, <1>2 DEF ProcType, Others
  <1>4. Lines(s, Replies)' = Lines(s, Replies)
    BY <1>2 DEF Lines
  <1>5. IF Here(s, "wait") THEN OneInHand(s)'
        ELSE Len(inbox'[s]) = 0 /\ Lines(s, Replies)' = {}
    BY <1>1, <1>3, <1>4 DEF PipesSettled, OneInHand
  <1> QED
    BY <1>1, <1>2, <1>3, <1>5, ProcessSteps

LEMMA StutterInv ==
  ASSUME ManagerInv, UNCHANGED vars
  PROVE  ManagerInv'
  <1> USE InvParts
  <1>1. UNCHANGED <<procVars, opVars, toolVars, lossVars>>
    BY DEF vars
  <1>2. ProcType' /\ OpType' /\ LossType' /\ ToolType' /\ RoutesCurrent'
    BY <1>1, PartsKept, RoutesKept
  <1>3. /\ UNCHANGED <<proc, init, inbox, outbox, greeted>>
        /\ UNCHANGED <<op, todo, phase, tries, initTries, spawned, called>>
        /\ UNCHANGED <<orphans, faults>>
    BY <1>1 DEF procVars, opVars, lossVars
  <1>4. TriesCounted' /\ ProcessesReaped'
    BY <1>3 DEF TriesCounted, ProcessesReaped
  <1>5. PipesSettled' /\ Handshaken'
    BY <1>3 DEF PipesSettled, Handshaken, Here, OneInHand, Lines
  <1> QED
    BY <1>2, <1>4, <1>5, InvNext

LEMMA ManagerInit ==
  Init => ManagerInv
  <1> SUFFICES ASSUME Init PROVE ManagerInv
    OBVIOUS
  <1> USE DEF Init
  <1>1. /\ << >> \in Seq(Asked) /\ << >> \in Seq(Written)
        /\ << >> \in Seq(Servers) /\ Len(<< >>) = 0
    BY EmptySeq
  <1>2. MaxPages \in Nat /\ MaxFaults \in Nat
    BY McpAssumption DEF McpAssumption
  <1>3. ProcType /\ OpType /\ ToolType /\ LossType
    BY <1>1, <1>2 DEF ProcType, OpType, ToolType, LossType
  <1>4. \A s \in Servers : ~Here(s, "wait") /\ \A kinds : Lines(s, kinds) = {}
    BY <1>1, LinesMarked, MarkedEmpty DEF Here
  <1>5. PipesSettled /\ Handshaken
    BY <1>1, <1>4 DEF PipesSettled, Handshaken
  <1>6. TriesCounted /\ ProcessesReaped /\ RoutesCurrent
    BY DEF TriesCounted, ProcessesReaped, RoutesCurrent
  <1> QED
    BY <1>3, <1>5, <1>6, TypeParts DEF ManagerInv

LEMMA ManagerStepInv ==
  ManagerInv /\ [Next]_vars => ManagerInv'
  BY CheckInv, SendInv, AcceptInv, RefuseInv, ShutdownInv, CallsInv, ServeInv,
     JunkInv, ExitInv, StutterInv
     DEF Next, ManagerStep

LEMMA ManagerAlways ==
  Spec => []ManagerInv
  BY ManagerInit, ManagerStepInv, PTL DEF Spec

-----------------------------------------------------------------------------
(* At most one line of a pipe is an answer.                                 *)
LEMMA FewMarked ==
  ASSUME NEW S, \A i, j \in S : i = j
  PROVE  IsFiniteSet(S) /\ Cardinality(S) \in 0..1
  <1>1. CASE S = {}
    BY <1>1, FS_EmptySet
  <1>2. CASE S # {}
    <2>1. PICK i : i \in S
      BY <1>2
    <2>2. S = {i}
      BY <2>1
    <2> QED
      BY <2>2, FS_Singleton
  <1> QED
    BY <1>1, <1>2

(* mcp_stdio.rs: nothing of an earlier request is left in the pipes of a   *)
(* process that is kept, so no answer is taken for another request's.      *)
THEOREM CleanPipeInv ==
  Spec => []CleanPipe
  <1>1. ManagerInv => CleanPipe
    <2> SUFFICES ASSUME ManagerInv, NEW s \in Servers
                 PROVE  Unsettled(s) <= IF Here(s, "wait") THEN 1 ELSE 0
      BY DEF CleanPipe
    <2>1. CASE Lines(s, Replies) = {} /\ Len(inbox[s]) \in 0..1
               /\ (Len(inbox[s]) = 1 => Here(s, "wait"))
      <3>1. Unsettled(s) = Len(inbox[s]) + 0
        BY <2>1, FS_EmptySet DEF Unsettled
      <3> QED
        BY <2>1, <3>1
    <2>2. CASE /\ Here(s, "wait") /\ Len(inbox[s]) = 0
               /\ \A i, j \in Lines(s, Replies) : i = j
      <3>1. Cardinality(Lines(s, Replies)) \in 0..1
        BY <2>2, FewMarked
      <3> QED
        BY <2>2, <3>1 DEF Unsettled
    <2> QED
      BY <2>1, <2>2, InvParts DEF PipesSettled, OneInHand
  <1> QED
    BY <1>1, ManagerAlways, PTL

(* No process is sent a request before it has accepted an initialize.      *)
THEOREM HandshakeStep ==
  Spec => HandshakeFirst
  <1> DEFINE Greeted ==
        \A s \in Servers :
          Len(inbox'[s]) > Len(inbox[s]) /\ Last(inbox'[s]) = "request"
              => s \in greeted
  <1>1. ASSUME ManagerInv, [Next]_vars
        PROVE  [Greeted]_vars
    <2> USE <1>1, InvParts
    <2> SUFFICES ASSUME NEW s \in Servers,
                        Len(inbox'[s]) > Len(inbox[s]), Last(inbox'[s]) = "request"
                 PROVE  s \in greeted
      OBVIOUS
    <2>0. /\ inbox \in [Servers -> Seq(Asked)] /\ inbox[s] \in Seq(Asked)
          /\ Len(inbox[s]) \in Nat
      BY LenProperties DEF ProcType
    <2>1. ASSUME NEW x \in Servers, Send(x), proc[x] = "alive"
          PROVE  s \in greeted
      <3>1. inbox' = [inbox EXCEPT ![x] =
                        Append(@, IF init[x] THEN "request" ELSE "initialize")]
        BY <2>1 DEF Send
      <3>2. x = s
        BY <2>0, <3>1
      <3>3. Len(inbox[s]) = 0
        BY <2>1, <3>2 DEF Send, Here, PipesSettled
      <3>4. Last(inbox'[s]) = IF init[s] THEN "request" ELSE "initialize"
        BY <2>0, <3>1, <3>2, <3>3, OneAsked DEF Asked
      <3> QED
        BY <2>1, <3>2, <3>4 DEF Handshaken
    <2>2. CASE inbox' = inbox
      BY <2>0, <2>2
    <2>3. ASSUME NEW x \in Servers,
                 \/ inbox' = [inbox EXCEPT ![x] = << >>]
                 \/ inbox[x] # << >> /\ inbox' = [inbox EXCEPT ![x] = Tail(@)]
          PROVE  FALSE
      <3>1. x = s
        BY <2>0, <2>3
      <3>2. /\ Len(<< >>) = 0
            /\ inbox[s] # << >> => Len(Tail(inbox[s])) = Len(inbox[s]) - 1
        BY <2>0, EmptySeq, HeadTailProperties
      <3> QED
        BY <2>0, <2>3, <3>1, <3>2
    <2>4. ASSUME NEW x \in Servers, NEW state, Replace(x, state)
          PROVE  FALSE
      BY <2>3, <2>4 DEF Replace
    <2>5. ASSUME NEW x \in Servers, NEW e \in {"transport", "timeout", "invalid"},
                 Fail(x, e)
          PROVE  FALSE
      BY <2>4, <2>5 DEF Fail, TryAgain, ResetIfNeeded, ShouldReset, Reset
    <2>6. CASE \E x \in Servers : Check(x) \/ ShutdownServer(x)
      BY <2>2, <2>4, <2>6 DEF Check, ShutdownServer, procVars
    <2>7. CASE \E x \in Servers : Refuse(x) \/ EndOfFile(x) \/ Timeout(x)
      BY <2>2, <2>5, <2>7 DEF Refuse, EndOfFile, Timeout, Consume
    <2>8. CASE \E x \in Servers : Send(x)
      BY <2>1, <2>5, <2>8 DEF Send
    <2>9. CASE \E x \in Servers : Accept(x) \/ Junk(x)
      BY <2>2, <2>9 DEF Accept, Junk, Consume
    <2>10. CASE \E x \in Servers : Serve(x) \/ Exit(x)
      BY <2>3, <2>10 DEF Serve, Exit
    <2>11. CASE \/ \E o \in {"discover", "best_effort", "shutdown"} : Start(o, Order)
                \/ \E o \in {"list", "read"}, x \in Servers : Start(o, <<x>>)
                \/ \E q \in QNames : CallTool(q)
                \/ UNCHANGED vars
      BY <2>2, <2>11 DEF Start, CallTool, vars, procVars
    <2> QED
      BY <1>1, <2>6, <2>7, <2>8, <2>9, <2>10, <2>11 DEF Next, ManagerStep
  <1> HIDE DEF Greeted
  <1>2. ManagerInv /\ [Next]_vars => [Greeted]_vars
    BY <1>1
  <1>3. Spec => [][Greeted]_vars
    BY <1>2, ManagerAlways, PTL DEF Spec
  <1> QED
    BY <1>3 DEF HandshakeFirst, Greeted

(* A tool is called once for a call, and no operation spawns more than      *)
(* four processes for one server, whatever is retried around what.          *)
THEOREM RetriesInv ==
  Spec => []RetriesBounded
  <1>1. ManagerInv => RetriesBounded
    BY InvParts DEF TriesCounted, RetriesBounded, OpType
  <1> QED
    BY <1>1, ManagerAlways, PTL

(* Every process the manager has lost was one it could not kill.            *)
THEOREM ReapedInv ==
  Spec => []ProcessesReaped
  BY ManagerAlways, PTL DEF ManagerInv

(* tool_index only leads to tools that their servers listed last.           *)
THEOREM RoutesInv ==
  Spec => []RoutesCurrent
  BY ManagerAlways, PTL DEF ManagerInv
=============================================================================
