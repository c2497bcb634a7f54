----------------------------- MODULE SettingsProofs -----------------------------
(***************************************************************************)
(* The settings that the terminal program loads are those of the last file *)
(* that says anything of them, for all settings files there may be, and    *)
(* DeepMerge is what deep_merge_objects does.                              *)
(***************************************************************************)
EXTENDS Terminal, Naturals, Sequences, SequenceTheorems, TLAPS

-----------------------------------------------------------------------------
(* Paths and keys.                                                           *)

LEMMA ShortPaths ==
  ASSUME NEW S, NEW a \in S, NEW b \in S
  PROVE  /\ <<a>> \in Seq(S) /\ <<a, b>> \in Seq(S)
         /\ Len(<<a>>) = 1 /\ Len(<<a, b>>) = 2
         /\ Append(<<a>>, b) = <<a, b>>
         /\ SubSeq(<<a, b>>, 1, 1) = <<a>>
         /\ <<a>> # << >>
  <1>1. <<a>> \in Seq(S) /\ <<a, b>> \in Seq(S) /\ Len(<<a>>) = 1 /\ Len(<<a, b>>) = 2
    OBVIOUS
  <1>2. Append(<<a>>, b) = <<a, b>>
    <2> DEFINE p == Append(<<a>>, b)
    <2>1. p \in Seq(S) /\ Len(p) = 2 /\ p[1] = a /\ p[2] = b
      BY <1>1, AppendProperties
    <2>2. \A i \in 1..2 : p[i] = <<a, b>>[i]
      BY <2>1
    <2> QED
      BY <1>1, <2>1, <2>2, SeqEqual
  <1>3. SubSeq(<<a, b>>, 1, 1) = <<a>>
    <2> DEFINE p == SubSeq(<<a, b>>, 1, 1)
    <2>1. p \in Seq(S) /\ Len(p) = 1 /\ p[1] = a
      <3>1. \A i \in 1..1 : <<a, b>>[i] \in S
        OBVIOUS
      <3>2. p \in Seq(S) /\ Len(p) = 1 /\ \A i \in 1..1 : p[i] = <<a, b>>[i]
        BY <3>1, SubSeqProperties
      <3> QED
        BY <3>2
    <2>2. \A i \in 1..1 : p[i] = <<a>>[i]
      BY <2>1
    <2> QED
      BY <1>1, <2>1, <2>2, SeqEqual
  <1> QED
    BY <1>1, <1>2, <1>3

LEMMA AboveRoot == Settings!Above(<< >>) = {}
  BY DEF Settings!Above

LEMMA AboveShort ==
  ASSUME NEW a, NEW b
  PROVE  /\ Settings!Above(<<a>>) = {<< >>}
         /\ Settings!Above(<<a, b>>) = {<< >>, <<a>>}
  <1>2. SubSeq(<<a>>, 1, 0) = << >> /\ SubSeq(<<a, b>>, 1, 0) = << >>
    OBVIOUS
  <1>3. SubSeq(<<a, b>>, 1, 1) = <<a>>
    <2> DEFINE S == {a, b}
    <2>1. a \in S /\ b \in S
      OBVIOUS
    <2> HIDE DEF S
    <2> QED
      BY <2>1, ShortPaths
  <1>4. 0..(Len(<<a>>) - 1) = {0} /\ 0..(Len(<<a, b>>) - 1) = {0, 1}
    OBVIOUS
  <1>5. Settings!Above(<<a>>) = {<< >>}
    BY <1>2, <1>4 DEF Settings!Above
  <1>6. Settings!Above(<<a, b>>) = {<< >>, <<a>>}
    BY <1>2, <1>3, <1>4 DEF Settings!Above
  <1> QED
    BY <1>5, <1>6

LEMMA KeysAre ==
  ASSUME NEW v, DOMAIN v \subseteq Seq(Names), NEW path \in Seq(Names), NEW k
  PROVE  k \in Settings!Keys(v, path) <=> k \in Names /\ Append(path, k) \in DOMAIN v
  <1>1. ASSUME k \in Settings!Keys(v, path)
        PROVE  k \in Names /\ Append(path, k) \in DOMAIN v
    <2>1. PICK p \in DOMAIN v : Len(p) = Len(path) + 1 /\ p = Append(path, p[Len(p)]) /\ k = p[Len(p)]
      BY <1>1 DEF Settings!Keys
    <2>2. p \in Seq(Names) /\ Len(p) \in 1..Len(p)
      BY <2>1, LenProperties
    <2>3. k \in Names
      BY <2>1, <2>2, ElementOfSeq
    <2> QED
      BY <2>1, <2>3
  <1>2. ASSUME k \in Names, Append(path, k) \in DOMAIN v
        PROVE  k \in Settings!Keys(v, path)
    <2> DEFINE p == Append(path, k)
    <2>1. Len(path) \in Nat /\ Len(p) = Len(path) + 1 /\ p[Len(path) + 1] = k
      BY <1>2, LenProperties, AppendProperties
    <2> QED
      BY <1>2, <2>1 DEF Settings!Keys
  <1> QED
    BY <1>1, <1>2

LEMMA KeysOfKey ==
  ASSUME NEW v, DOMAIN v \subseteq Seq(Names), NEW a \in Names, NEW k
  PROVE  k \in Settings!Keys(v, <<a>>) <=> k \in Names /\ <<a, k>> \in DOMAIN v
  <1>1. <<a>> \in Seq(Names)
    BY ShortPaths
  <1>2. ASSUME k \in Names PROVE Append(<<a>>, k) = <<a, k>>
    BY <1>2, ShortPaths
  <1> QED
    BY <1>1, <1>2, KeysAre

\* A value and the same with its leaves known to be from file i differ in no more.
LEMMA StampedParses ==
  ASSUME NEW v, NEW i \in Settings!Files
  PROVE  LET w == Settings!Stamped(v, i)
         IN  /\ DOMAIN w = DOMAIN v
             /\ \A p \in DOMAIN v : w[p] = Settings!Obj <=> v[p] = Settings!Obj
             /\ \A p \in DOMAIN v : w[p].kind = v[p].kind
             /\ \A path : Settings!Keys(w, path) = Settings!Keys(v, path)
             /\ Settings!ServersOf(w) = Settings!ServersOf(v)
  <1> DEFINE w == Settings!Stamped(v, i)
  <1>1. DOMAIN w = DOMAIN v
    BY DEF Settings!Stamped
  <1>2. \A p \in DOMAIN v : w[p] = Settings!Obj <=> v[p] = Settings!Obj
    <2>1. \A p \in DOMAIN v : v[p] = Settings!Obj => w[p] = Settings!Obj
      BY DEF Settings!Stamped
    <2>2. ASSUME NEW p \in DOMAIN v, v[p] # Settings!Obj PROVE w[p] # Settings!Obj
      <3>1. w[p].file = i
        BY <2>2 DEF Settings!Stamped
      <3>2. Settings!Obj.file = 0 /\ i # 0
        BY DEF Settings!Obj, Settings!Files
      <3> QED
        BY <3>1, <3>2
    <2> QED
      BY <2>1, <2>2
  <1>3. \A p \in DOMAIN v : w[p].kind = v[p].kind
    BY DEF Settings!Stamped
  <1>4. \A path : Settings!Keys(w, path) = Settings!Keys(v, path)
    BY <1>1 DEF Settings!Keys
  <1>5. Settings!ServersOf(w) = Settings!ServersOf(v)
    BY <1>4 DEF Settings!ServersOf
  <1> QED
    BY <1>1, <1>2, <1>3, <1>4, <1>5

\* A value parses if and only if the same does with other leaves of the same kinds.
LEMMA SameKinds ==
  ASSUME NEW v, NEW w, DOMAIN w = DOMAIN v,
         \A p \in DOMAIN v : w[p] = Settings!Obj <=> v[p] = Settings!Obj,
         \A p \in DOMAIN v : w[p].kind = v[p].kind,
         Settings!ServersOf(w) = Settings!ServersOf(v),
         \A s \in Settings!ServersOf(v) : <<"mcpServers", s>> \in DOMAIN v
  PROVE  /\ Settings!HooksParse(w) <=> Settings!HooksParse(v)
         /\ Settings!ServersParse(w) <=> Settings!ServersParse(v)
  <1>1. /\ \A p : Settings!Has(w, p) <=> Settings!Has(v, p)
        /\ \A p : Settings!ObjectIfAny(w, p) <=> Settings!ObjectIfAny(v, p)
        /\ \A p : Settings!RightIfAny(w, p) <=> Settings!RightIfAny(v, p)
        /\ \A p, kinds : Settings!Is(w, p, kinds) <=> Settings!Is(v, p, kinds)
    BY DEF Settings!Has, Settings!ObjectIfAny, Settings!RightIfAny, Settings!Is
  <1>2. Settings!HooksParse(w) <=> Settings!HooksParse(v)
    BY <1>1 DEF Settings!HooksParse
  <1>3. Settings!ServersParse(w) <=> Settings!ServersParse(v)
    BY <1>1 DEF Settings!ServersParse
  <1> QED
    BY <1>2, <1>3

LEMMA LastIsLast ==
  ASSUME NEW S \in SUBSET Settings!Files, S # {}
  PROVE  Settings!LastOf(S) \in S /\ \A j \in S : j <= Settings!LastOf(S)
  <1>1. \E i \in S : \A j \in S : j <= i
    <2>1. \A j \in S : j \in 1..5
      BY DEF Settings!Files
    <2>2. CASE 5 \in S
      BY <2>1, <2>2
    <2>3. CASE 5 \notin S /\ 4 \in S
      <3>1. \A j \in S : j <= 4
        BY <2>1, <2>3
      <3> QED
        BY <2>3, <3>1
    <2>4. CASE 5 \notin S /\ 4 \notin S /\ 3 \in S
      <3>1. \A j \in S : j <= 3
        BY <2>1, <2>4
      <3> QED
        BY <2>4, <3>1
    <2>5. CASE 5 \notin S /\ 4 \notin S /\ 3 \notin S
      <3>1. \A j \in S : j \in {1, 2}
        BY <2>1, <2>5
      <3> QED
        BY <3>1
    <2> QED
      BY <2>2, <2>3, <2>4, <2>5
  <1> QED
    BY <1>1 DEF Settings!LastOf

-----------------------------------------------------------------------------
(* Which file has the last word.                                             *)

\* What is known of every file that could be read.
LEMMA TextsAreValues ==
  ASSUME Settings!ConfigTypes, NEW i \in DOMAIN texts
  PROVE  /\ i \in Settings!Files /\ Settings!IsValue(texts[i])
         /\ << >> \in DOMAIN texts[i] /\ DOMAIN texts[i] \subseteq Seq(Names)
  BY TerminalAssumption
  DEF TerminalAssumption, Settings!ConfigLoaderAssumption, Settings!ConfigTypes, Settings!IsValue

\* A file that is there and an object joins those before it, any other does not.
LEMMA LoadedNext ==
  ASSUME Settings!ConfigTypes, NEW n \in Settings!Files
  PROVE  LET joins == n \in DOMAIN texts /\ Settings!IsObject(texts[n])
         IN  /\ Settings!Loaded(n) \subseteq Settings!Files
             /\ \A i \in Settings!Loaded(n) : i < n
             /\ joins  => Settings!Loaded(n + 1) = Settings!Loaded(n) \cup {n}
             /\ ~joins => Settings!Loaded(n + 1) = Settings!Loaded(n)
  <1>1. \A i \in DOMAIN texts : i \in Nat /\ (i < n + 1 <=> i < n \/ i = n)
    BY DEF Settings!ConfigTypes, Settings!Files
  <1> QED
    BY <1>1 DEF Settings!Loaded, Settings!ConfigTypes, Settings!Files

\* The last of some earlier files and n is n.
LEMMA LastWithNext ==
  ASSUME NEW n \in Settings!Files, NEW S \in SUBSET Settings!Files, \A i \in S : i < n
  PROVE  Settings!LastOf(S \cup {n}) = n
  <1> DEFINE last == Settings!LastOf(S \cup {n})
  <1>1. last \in S \cup {n} /\ \A j \in S \cup {n} : j <= last
    BY LastIsLast
  <1>2. n \in Nat /\ \A i \in S : i \in Nat
    BY DEF Settings!Files
  <1> HIDE DEF last
  <1>3. n <= last
    BY <1>1
  <1>4. last \notin S
    <2> SUFFICES ASSUME last \in S PROVE FALSE
      OBVIOUS
    <2>1. last < n /\ last \in Nat
      BY <1>2
    <2> QED
      BY <1>2, <1>3, <2>1
  <1> QED
    BY <1>1, <1>4 DEF last

LEMMA SayerNext ==
  ASSUME Settings!ConfigTypes, NEW n \in DOMAIN texts, Settings!IsObject(texts[n]), NEW p
  PROVE  Settings!LastSayer(n + 1, p)
           = IF Settings!Says(n, p) THEN n ELSE Settings!LastSayer(n, p)
  <1> DEFINE Before == {i \in Settings!Loaded(n) : Settings!Says(i, p)}
             Now    == {i \in Settings!Loaded(n + 1) : Settings!Says(i, p)}
  <1>1. n \in Settings!Files
    BY TextsAreValues
  <1>2. /\ Settings!Loaded(n + 1) = Settings!Loaded(n) \cup {n}
        /\ Settings!Loaded(n) \subseteq Settings!Files /\ \A i \in Settings!Loaded(n) : i < n
    BY <1>1, LoadedNext
  <1>3. CASE Settings!Says(n, p)
    <2>1. Now = Before \cup {n}
      BY <1>2, <1>3
    <2> QED
      BY <1>1, <1>2, <1>3, <2>1, LastWithNext DEF Settings!LastSayer
  <1>4. CASE ~Settings!Says(n, p)
    <2>1. Now = Before
      BY <1>2, <1>4
    <2> QED
      BY <1>4, <2>1 DEF Settings!LastSayer
  <1> QED
    BY <1>3, <1>4

LEMMA DefinerNext ==
  ASSUME Settings!ConfigTypes, NEW n \in DOMAIN texts, Settings!IsObject(texts[n]), NEW s
  PROVE  Settings!LastDefiner(n + 1, s)
           = IF s \in Settings!ServersOf(texts[n]) THEN n ELSE Settings!LastDefiner(n, s)
  <1> DEFINE Before == {i \in Settings!Loaded(n) : s \in Settings!ServersOf(texts[i])}
             Now    == {i \in Settings!Loaded(n + 1) : s \in Settings!ServersOf(texts[i])}
  <1>1. n \in Settings!Files
    BY TextsAreValues
  <1>2. /\ Settings!Loaded(n + 1) = Settings!Loaded(n) \cup {n}
        /\ Settings!Loaded(n) \subseteq Settings!Files /\ \A i \in Settings!Loaded(n) : i < n
    BY <1>1, LoadedNext
  <1>3. CASE s \in Settings!ServersOf(texts[n])
    <2>1. Now = Before \cup {n}
      BY <1>2, <1>3
    <2> QED
      BY <1>1, <1>2, <1>3, <2>1, LastWithNext DEF Settings!LastDefiner
  <1>4. CASE s \notin Settings!ServersOf(texts[n])
    <2>1. Now = Before
      BY <1>2, <1>4
    <2> QED
      BY <1>4, <2>1 DEF Settings!LastDefiner
  <1> QED
    BY <1>3, <1>4

\* Merging the next file into what those before it amount to gives what they
\* amount to with it: it decides the paths it says anything of, and no other.
LEMMA MergeDecides ==
  ASSUME Settings!ConfigTypes, NEW n \in DOMAIN texts, Settings!IsObject(texts[n])
  PROVE  Settings!DeepMerge(Settings!MergedBefore(n), Settings!Stamped(texts[n], n))
           = Settings!MergedBefore(n + 1)
  <1> DEFINE t == Settings!MergedBefore(n)
             v == Settings!Stamped(texts[n], n)
             u == Settings!MergedBefore(n + 1)
             Kept == {p \in DOMAIN t :
                        \A q \in Settings!Above(p) : Settings!Has(v, q) => v[q] = Settings!Obj}
             Before == {p \in Settings!Paths(n) :
                          Settings!Has(texts[Settings!LastSayer(n, p)], p)}
             Now == {p \in Settings!Paths(n + 1) :
                       Settings!Has(texts[Settings!LastSayer(n + 1, p)], p)}
  <1>1. n \in Settings!Files /\ << >> \in DOMAIN texts[n]
    BY TextsAreValues
  <1>2. /\ DOMAIN v = DOMAIN texts[n]
        /\ \A p \in DOMAIN texts[n] : v[p] = Settings!Obj <=> texts[n][p] = Settings!Obj
    BY <1>1, StampedParses
  <1>3. Settings!Loaded(n + 1) = Settings!Loaded(n) \cup {n}
    BY <1>1, LoadedNext
  <1>4. Settings!Paths(n + 1) = Settings!Paths(n) \cup DOMAIN texts[n]
    BY <1>3 DEF Settings!Paths
  <1>5. \A p : Settings!LastSayer(n + 1, p)
                 = IF Settings!Says(n, p) THEN n ELSE Settings!LastSayer(n, p)
    BY SayerNext
  <1>6. \A p : Settings!Says(n, p)
                 <=> p \in DOMAIN v \/ \E q \in Settings!Above(p) :
                                         Settings!Has(v, q) /\ v[q] # Settings!Obj
    BY <1>2 DEF Settings!Says, Settings!Has
  <1>7. /\ DOMAIN t = {<< >>} \cup Before /\ DOMAIN u = {<< >>} \cup Now
        /\ t[<< >>] = Settings!Obj /\ u[<< >>] = Settings!Obj
        /\ \A p \in Before \ {<< >>} :
             t[p] = Settings!Stamped(texts[Settings!LastSayer(n, p)], Settings!LastSayer(n, p))[p]
        /\ \A p \in Now \ {<< >>} :
             u[p] = Settings!Stamped(texts[Settings!LastSayer(n + 1, p)],
                                     Settings!LastSayer(n + 1, p))[p]
    BY DEF Settings!MergedBefore
  <1>8. Settings!Above(<< >>) = {}
    BY AboveRoot
  <1>9. v[<< >>] = Settings!Obj
    BY <1>1, <1>2 DEF Settings!IsObject
  <1> DEFINE m == Settings!DeepMerge(t, v)
  <1>10. /\ DOMAIN m = Kept \cup DOMAIN v
         /\ \A p \in DOMAIN m : m[p] = IF p \in DOMAIN v THEN v[p] ELSE t[p]
    BY DEF Settings!DeepMerge, Settings!Has
  <1> HIDE DEF t, v, u, m
  <1>11. ASSUME NEW p PROVE p \in DOMAIN m <=> p \in DOMAIN u
    <2>1. CASE p = << >>
      BY <1>1, <1>2, <1>7, <1>10, <2>1
    <2>2. CASE p # << >> /\ p \in DOMAIN v
      BY <1>2, <1>4, <1>5, <1>6, <1>7, <1>10, <2>2 DEF Settings!Has
    <2>3. CASE p # << >> /\ p \notin DOMAIN v /\ Settings!Says(n, p)
      BY <1>2, <1>5, <1>6, <1>7, <1>10, <2>3 DEF Settings!Has
    <2>4. CASE p # << >> /\ ~Settings!Says(n, p)
      BY <1>2, <1>4, <1>5, <1>6, <1>7, <1>10, <2>4 DEF Settings!Has
    <2> QED
      BY <2>1, <2>2, <2>3, <2>4
  <1>12. ASSUME NEW p \in DOMAIN m PROVE m[p] = u[p]
    <2>1. CASE p = << >>
      BY <1>1, <1>2, <1>7, <1>9, <1>10, <2>1
    <2>2. CASE p # << >> /\ p \in DOMAIN v
      BY <1>5, <1>6, <1>7, <1>10, <1>11, <2>2 DEF v
    <2>3. CASE p # << >> /\ p \notin DOMAIN v
      BY <1>5, <1>6, <1>7, <1>10, <1>11, <2>3
    <2> QED
      BY <2>1, <2>2, <2>3
  <1>13. m = [p \in DOMAIN m |-> m[p]] /\ u = [p \in DOMAIN u |-> u[p]]
    BY DEF m, u, Settings!DeepMerge, Settings!MergedBefore
  <1>14. m = u
    BY <1>11, <1>12, <1>13
  <1> QED
    BY <1>14 DEF m, u, t, v

\* The same for the servers.
LEMMA ServersDecided ==
  ASSUME Settings!ConfigTypes, NEW n \in DOMAIN texts, Settings!IsObject(texts[n]),
         servers = Settings!ServersBefore(n)
  PROVE  Settings!MergeServers(n, Settings!Stamped(texts[n], n)) = Settings!ServersBefore(n + 1)
  <1> DEFINE v == Settings!Stamped(texts[n], n)
             u == Settings!ServersBefore(n + 1)
             w == Settings!MergeServers(n, v)
  <1>1. n \in Settings!Files
    BY TextsAreValues
  <1>2. Settings!ServersOf(v) = Settings!ServersOf(texts[n])
    BY <1>1, StampedParses
  <1>3. Settings!Loaded(n + 1) = Settings!Loaded(n) \cup {n}
    BY <1>1, LoadedNext
  <1>4. \A s : Settings!LastDefiner(n + 1, s)
                 = IF s \in Settings!ServersOf(texts[n]) THEN n ELSE Settings!LastDefiner(n, s)
    BY DefinerNext
  <1>5. /\ DOMAIN w = DOMAIN servers \cup Settings!ServersOf(texts[n])
        /\ \A s \in DOMAIN w :
             w[s] = IF s \in Settings!ServersOf(texts[n]) THEN Settings!Defined(n, v, s) ELSE servers[s]
        /\ w = [s \in DOMAIN w |-> w[s]]
    BY <1>2 DEF Settings!MergeServers
  <1>6. /\ DOMAIN servers = UNION {Settings!ServersOf(texts[i]) : i \in Settings!Loaded(n)}
        /\ \A s \in DOMAIN servers :
             servers[s] = Settings!Defined(Settings!LastDefiner(n, s),
                            Settings!Stamped(texts[Settings!LastDefiner(n, s)],
                                             Settings!LastDefiner(n, s)), s)
    BY DEF Settings!ServersBefore
  <1>7. /\ DOMAIN u = UNION {Settings!ServersOf(texts[i]) : i \in Settings!Loaded(n + 1)}
        /\ \A s \in DOMAIN u :
             u[s] = Settings!Defined(Settings!LastDefiner(n + 1, s),
                      Settings!Stamped(texts[Settings!LastDefiner(n + 1, s)],
                                       Settings!LastDefiner(n + 1, s)), s)
        /\ u = [s \in DOMAIN u |-> u[s]]
    BY DEF Settings!ServersBefore
  <1> HIDE DEF u, w
  <1>8. DOMAIN w = DOMAIN u
    BY <1>3, <1>5, <1>6, <1>7
  <1>9. ASSUME NEW s \in DOMAIN w PROVE w[s] = u[s]
    <2>1. CASE s \in Settings!ServersOf(texts[n])
      BY <1>4, <1>5, <1>7, <1>8, <2>1
    <2>2. CASE s \notin Settings!ServersOf(texts[n])
      BY <1>4, <1>5, <1>6, <1>7, <1>8, <2>2
    <2> QED
      BY <2>1, <2>2
  <1>10. w = u
    BY <1>5, <1>7, <1>8, <1>9
  <1> QED
    BY <1>10 DEF u, w

-----------------------------------------------------------------------------
(* What each step does.                                                      *)

\* What the files before n amount to is a matter of their texts.
LEMMA OnlyTexts ==
  ASSUME texts' = texts, NEW n
  PROVE  /\ Settings!MergedBefore(n)' = Settings!MergedBefore(n)
         /\ Settings!ServersBefore(n)' = Settings!ServersBefore(n)
         /\ Settings!Loaded(n)' = Settings!Loaded(n)
         /\ Settings!Hopeless' <=> Settings!Hopeless
  <1>1. /\ Settings!MergedBefore(n)' = Settings!MergedBefore(n)
        /\ Settings!ServersBefore(n)' = Settings!ServersBefore(n)
        /\ Settings!Loaded(n)' = Settings!Loaded(n)
    BY DEF Settings!MergedBefore, Settings!ServersBefore, Settings!Loaded,
           Settings!LastSayer, Settings!LastDefiner, Settings!Says, Settings!Paths
  <1>2. Settings!Hopeless' <=> Settings!Hopeless
    BY DEF Settings!Hopeless, Settings!Faulty, Settings!Hides, Settings!Unhides, Settings!Loaded
  <1> QED
    BY <1>1, <1>2

\* No file counts before the first is read.
LEMMA ConfigStarts == Init => Settings!ConfigInv
  <1> SUFFICES ASSUME Settings!LoadInit PROVE Settings!ConfigInv
    BY DEF Init, PartsInit
  <1>1. Settings!ConfigTypes
    BY DEF Settings!LoadInit, Settings!ConfigTypes
  <1>2. Settings!Loaded(1) = {}
    BY <1>1 DEF Settings!Loaded, Settings!ConfigTypes, Settings!Files
  <1>3. Settings!Paths(1) = {}
    BY <1>2 DEF Settings!Paths
  <1>4. Settings!MergedBefore(1) = Settings!NoFields
    BY <1>3 DEF Settings!MergedBefore, Settings!NoFields
  <1>5. UNION {Settings!ServersOf(texts[i]) : i \in Settings!Loaded(1)} = {}
    BY <1>2
  <1>6. Settings!ServersBefore(1) = Settings!Nothing
    BY <1>5 DEF Settings!ServersBefore, Settings!Nothing
  <1> QED
    BY <1>1, <1>2, <1>4, <1>6 DEF Settings!ConfigInv, Settings!LoadInit

\* A path that some file has is one of which some file is the last to speak.
LEMMA SomeoneSays ==
  ASSUME Settings!ConfigTypes, NEW n, NEW p \in Settings!Paths(n)
  PROVE  /\ Settings!LastSayer(n, p) \in Settings!Loaded(n)
         /\ Settings!Says(Settings!LastSayer(n, p), p)
  <1> DEFINE S == {i \in Settings!Loaded(n) : Settings!Says(i, p)}
  <1>1. S # {}
    BY DEF Settings!Paths, Settings!Says, Settings!Has
  <1>2. S \in SUBSET Settings!Files
    BY DEF Settings!Loaded, Settings!ConfigTypes
  <1> HIDE DEF S
  <1>3. Settings!LastOf(S) \in S
    BY <1>1, <1>2, LastIsLast
  <1> QED
    BY <1>3 DEF S, Settings!LastSayer

\* A path of the merged settings has there what it has in the file that decides it.
LEMMA DecidedBy ==
  ASSUME Settings!ConfigTypes, NEW n, NEW p, p # << >>
  PROVE  LET m == Settings!MergedBefore(n)
             i == Settings!LastSayer(n, p)
         IN  /\ p \in DOMAIN m <=> p \in Settings!Paths(n) /\ p \in DOMAIN texts[i]
             /\ p \in DOMAIN m =>
                  /\ i \in Settings!Loaded(n)
                  /\ m[p] = Settings!Obj <=> texts[i][p] = Settings!Obj
                  /\ m[p].kind = texts[i][p].kind
  <1> DEFINE i == Settings!LastSayer(n, p)
             m == Settings!MergedBefore(n)
  <1>1. p \in DOMAIN m <=> p \in Settings!Paths(n) /\ p \in DOMAIN texts[i]
    BY DEF Settings!MergedBefore, Settings!Has
  <1>2. ASSUME p \in DOMAIN m
        PROVE  /\ i \in Settings!Loaded(n)
               /\ m[p] = Settings!Obj <=> texts[i][p] = Settings!Obj
               /\ m[p].kind = texts[i][p].kind
    <2>1. i \in Settings!Loaded(n) /\ i \in Settings!Files
      BY <1>1, <1>2, SomeoneSays DEF Settings!Loaded, Settings!ConfigTypes
    <2>2. m[p] = Settings!Stamped(texts[i], i)[p]
      BY <1>2 DEF Settings!MergedBefore
    <2> HIDE DEF i, m
    <2> QED
      BY <1>1, <1>2, <2>1, <2>2, StampedParses
  <1> QED
    BY <1>1, <1>2

\* Files whose hooks and sections parse one by one have some that parse when
\* merged: what has to be an object, or of the right kind, in each is so in all, and
\* no field of it is lost.  The mode is the exception: the file that decides the
\* default mode may name another, and a later one may have replaced that.
LEMMA ParsedTogether ==
  ASSUME Settings!ConfigTypes, ~Settings!Hopeless
  PROVE  /\ Settings!HooksParse(Settings!MergedBefore(6))
         /\ Settings!SectionsParse(Settings!MergedBefore(6))
  <1> DEFINE m == Settings!MergedBefore(6)
             Decides(p) == Settings!LastSayer(6, p)
  <1>1. ASSUME NEW i \in Settings!Loaded(6)
        PROVE  /\ i \in DOMAIN texts /\ i \in Settings!Files
               /\ << >> \in DOMAIN texts[i] /\ texts[i][<< >>] = Settings!Obj
               /\ Settings!HooksParse(texts[i]) /\ Settings!SectionsParse(texts[i])
    <2>1. i \in DOMAIN texts /\ Settings!IsObject(texts[i]) /\ ~Settings!Faulty(i)
      BY DEF Settings!Loaded, Settings!Hopeless
    <2> QED
      BY <2>1, TextsAreValues DEF Settings!Faulty, Settings!IsObject
  <1>2. ASSUME NEW p, p # << >>
        PROVE  /\ p \in DOMAIN m <=> p \in Settings!Paths(6) /\ p \in DOMAIN texts[Decides(p)]
               /\ p \in DOMAIN m =>
                    /\ Decides(p) \in Settings!Loaded(6)
                    /\ m[p] = Settings!Obj <=> texts[Decides(p)][p] = Settings!Obj
                    /\ m[p].kind = texts[Decides(p)][p].kind
    BY <1>2, DecidedBy
  <1>3. ASSUME NEW p \in Settings!Paths(6)
        PROVE  Decides(p) \in Settings!Loaded(6) /\ Settings!Says(Decides(p), p)
    BY SomeoneSays
  <1> HIDE DEF m, Decides
  <1>4. ASSUME NEW p, p # << >>, \A i \in Settings!Loaded(6) : Settings!ObjectIfAny(texts[i], p)
        PROVE  Settings!ObjectIfAny(m, p)
    BY <1>2, <1>4 DEF Settings!ObjectIfAny, Settings!Has
  <1>5. ASSUME NEW p, p # << >>, \A i \in Settings!Loaded(6) : Settings!RightIfAny(texts[i], p)
        PROVE  Settings!RightIfAny(m, p)
    BY <1>2, <1>5 DEF Settings!RightIfAny, Settings!Has
  <1>6. Settings!HooksParse(m)
    <2>1. Settings!ObjectIfAny(m, <<"hooks">>)
      BY <1>1, <1>4 DEF Settings!HooksParse
    <2>2. ASSUME NEW p \in Settings!HookFields PROVE Settings!RightIfAny(m, p)
      <3>1. p # << >>
        BY DEF Settings!HookFields
      <3> QED
        BY <1>1, <1>5, <3>1 DEF Settings!HooksParse
    <2> QED
      BY <2>1, <2>2 DEF Settings!HooksParse
  <1>7. ASSUME NEW p \in Settings!Sections PROVE Settings!ObjectIfAny(m, p)
    <2>1. p # << >>
      BY DEF Settings!Sections
    <2> QED
      BY <1>1, <1>4, <2>1 DEF Settings!SectionsParse
  <1>8. ASSUME NEW p \in Settings!Fields PROVE Settings!RightIfAny(m, p)
    <2>1. p # << >>
      BY DEF Settings!Fields, Settings!Required
    <2> QED
      BY <1>1, <1>5, <2>1 DEF Settings!SectionsParse
  <1>9. ASSUME Settings!Has(m, <<"oauth">>), NEW p \in Settings!Required
        PROVE  Settings!Has(m, p)
    <2> DEFINE i == Decides(<<"oauth">>)
               j == Decides(p)
    <2>1. i \in Settings!Loaded(6) /\ Settings!Has(texts[i], <<"oauth">>)
      BY <1>2, <1>9 DEF Settings!Has
    <2>2. p \in DOMAIN texts[i]
      BY <1>1, <2>1 DEF Settings!SectionsParse, Settings!Has
    <2>3. p \in Settings!Paths(6)
      BY <2>1, <2>2 DEF Settings!Paths
    <2>4. j \in Settings!Loaded(6) /\ Settings!Says(j, p)
      BY <1>3, <2>3
    <2>5. Settings!Above(p) = {<< >>, <<"oauth">>} /\ p # << >>
      <3>1. PICK k : p = <<"oauth", k>>
        BY DEF Settings!Required
      <3> QED
        BY <3>1, AboveShort
    <2>6. <<"oauth">> \in DOMAIN texts[j] => texts[j][<<"oauth">>] = Settings!Obj
      <3>1. Settings!ObjectIfAny(texts[j], <<"oauth">>)
        BY <1>1, <2>4 DEF Settings!SectionsParse, Settings!Sections
      <3> QED
        BY <3>1 DEF Settings!ObjectIfAny, Settings!Has
    <2>7. p \in DOMAIN texts[j]
      BY <1>1, <2>4, <2>5, <2>6 DEF Settings!Says, Settings!Has
    <2> QED
      BY <1>2, <2>3, <2>5, <2>7 DEF Settings!Has
  <1>10. Settings!ModeParse(m)
    <2> DEFINE named == <<"permissionMode">>
               default == <<"permissions", "defaultMode">>
               i == Decides(default)
               j == Decides(named)
    <2>1. named # << >> /\ default # << >> /\ Settings!Above(named) = {<< >>}
      BY AboveShort
    <2>2. \A k \in Settings!Loaded(6) : Settings!ModeParse(texts[k])
      BY <1>1 DEF Settings!SectionsParse
    <2> HIDE DEF named, default
    <2>3. CASE Settings!ModeNamed(m)
      <3>1. named \in DOMAIN m /\ m[named].kind \in {"right", "wrong"}
        BY <2>3 DEF Settings!ModeNamed, Settings!Is, Settings!Has, named
      <3>2. /\ j \in Settings!Loaded(6) /\ named \in DOMAIN texts[j]
            /\ texts[j][named].kind = m[named].kind
        BY <1>2, <2>1, <3>1
      <3>3. Settings!ModeNamed(texts[j])
        BY <3>1, <3>2 DEF Settings!ModeNamed, Settings!Is, Settings!Has, named
      <3>4. texts[j][named].kind = "right"
        BY <2>2, <3>2, <3>3 DEF Settings!ModeParse, Settings!Is, named
      <3> QED
        BY <2>3, <3>1, <3>2, <3>4 DEF Settings!ModeParse, Settings!Is, Settings!Has, named
    <2>4. CASE ~Settings!ModeNamed(m) /\ Settings!Is(m, default, {"wrong"})
      <3>1. default \in DOMAIN m /\ m[default].kind = "wrong"
        BY <2>4 DEF Settings!Is, Settings!Has
      <3>2. /\ i \in Settings!Loaded(6) /\ default \in DOMAIN texts[i]
            /\ texts[i][default].kind = "wrong"
        BY <1>2, <2>1, <3>1
      <3>3. Settings!Is(texts[i], default, {"wrong"})
        BY <3>2 DEF Settings!Is, Settings!Has
      <3>4. Settings!Is(texts[i], named, {"right"})
        BY <2>2, <3>2, <3>3 DEF Settings!ModeParse, named, default
      <3>5. Settings!Hides(i)
        BY <3>3, <3>4 DEF Settings!Hides, named, default
      <3>6. named \in DOMAIN texts[i] /\ texts[i][named].kind = "right"
        BY <3>4 DEF Settings!Is, Settings!Has
      <3>7. named \in Settings!Paths(6)
        BY <3>2, <3>6 DEF Settings!Paths
      <3>8. j \in Settings!Loaded(6) /\ Settings!Says(j, named)
        BY <1>3, <3>7
      <3>9. named \in DOMAIN texts[j]
        BY <1>1, <2>1, <3>8 DEF Settings!Says, Settings!Has
      <3>10. named \in DOMAIN m /\ m[named].kind = texts[j][named].kind
        BY <1>2, <2>1, <3>7, <3>9
      <3>11. ~Settings!ModeNamed(texts[j])
        BY <2>4, <3>9, <3>10 DEF Settings!ModeNamed, Settings!Is, Settings!Has, named
      <3>12. Settings!Unhides(j)
        BY <3>9, <3>11 DEF Settings!Unhides, Settings!Has, named
      <3>13. i <= j
        <4> DEFINE S == {k \in Settings!Loaded(6) : Settings!Says(k, named)}
        <4>1. S \in SUBSET Settings!Files /\ i \in S
          BY <1>1, <3>2, <3>6 DEF Settings!Says, Settings!Has
        <4> HIDE DEF S
        <4>2. i <= Settings!LastOf(S)
          BY <4>1, LastIsLast
        <4> QED
          BY <4>2 DEF S, Decides, Settings!LastSayer
      <3>14. i # j
        BY <3>6, <3>11 DEF Settings!ModeNamed, Settings!Is, Settings!Has, named
      <3>15. i < j
        <4>1. i \in 1..5 /\ j \in 1..5
          BY <1>1, <3>2, <3>8 DEF Settings!Files
        <4> HIDE DEF i, j
        <4> QED
          BY <3>13, <3>14, <4>1
      <3> QED
        BY <3>2, <3>5, <3>8, <3>12, <3>15 DEF Settings!Hopeless
    <2>5. CASE ~Settings!ModeNamed(m) /\ ~Settings!Is(m, default, {"wrong"})
      BY <2>5 DEF Settings!ModeParse, default
    <2> QED
      BY <2>3, <2>4, <2>5
  <1>11. Settings!SectionsParse(m)
    BY <1>7, <1>8, <1>9, <1>10 DEF Settings!SectionsParse
  <1> QED
    BY <1>6, <1>11 DEF m

\* A step of the loader.
LEMMA ConfigStep ==
  ASSUME Settings!ConfigInv, Settings!LoadNext
  PROVE  Settings!ConfigInv'
  <1>1. Settings!ConfigTypes /\ UNCHANGED texts /\ outcome = "loading"
    BY DEF Settings!ConfigInv, Settings!LoadNext, Settings!Skip, Settings!Merge, Settings!Fail,
           Settings!Finish
  <1>2. /\ \A n : Settings!MergedBefore(n)' = Settings!MergedBefore(n)
        /\ \A n : Settings!ServersBefore(n)' = Settings!ServersBefore(n)
        /\ \A n : Settings!Loaded(n)' = Settings!Loaded(n)
        /\ Settings!Hopeless' <=> Settings!Hopeless
    BY <1>1, OnlyTexts
  <1>3. CASE Settings!Skip
    <2>1. /\ next \in Settings!Files /\ next' = next + 1 /\ UNCHANGED <<merged, servers, outcome>>
          /\ next \notin DOMAIN texts \/ ~Settings!IsObject(texts[next])
      BY <1>3 DEF Settings!Skip
    <2>2. Settings!Loaded(next + 1) = Settings!Loaded(next)
      BY <1>1, <2>1, LoadedNext
    <2>3. /\ Settings!MergedBefore(next + 1) = Settings!MergedBefore(next)
          /\ Settings!ServersBefore(next + 1) = Settings!ServersBefore(next)
      BY <2>2 DEF Settings!MergedBefore, Settings!ServersBefore, Settings!Paths,
                  Settings!LastSayer, Settings!LastDefiner
    <2>4. Settings!ConfigTypes'
      BY <1>1, <2>1 DEF Settings!ConfigTypes, Settings!Files
    <2> QED
      BY <1>1, <1>2, <2>1, <2>2, <2>3, <2>4 DEF Settings!ConfigInv
  <1>4. CASE Settings!Merge
    <2> DEFINE v == Settings!Stamped(texts[next], next)
    <2>1. /\ next \in DOMAIN texts /\ Settings!IsObject(texts[next])
          /\ Settings!HooksParse(v) /\ Settings!ServersParse(v)
          /\ servers' = Settings!MergeServers(next, v)
          /\ merged' = Settings!DeepMerge(merged, v)
          /\ next' = next + 1 /\ UNCHANGED outcome
      BY <1>4 DEF Settings!Merge
    <2>2. next \in Settings!Files
      BY <1>1, <2>1, TextsAreValues
    <2>3. Settings!ConfigTypes'
      BY <1>1, <2>1, <2>2 DEF Settings!ConfigTypes, Settings!Files
    <2>4. Settings!Loaded(next + 1) = Settings!Loaded(next) \cup {next}
      BY <1>1, <2>1, <2>2, LoadedNext
    <2>5. merged' = Settings!MergedBefore(next + 1)
      BY <1>1, <2>1, MergeDecides DEF Settings!ConfigInv
    <2>6. servers' = Settings!ServersBefore(next + 1)
      BY <1>1, <2>1, ServersDecided DEF Settings!ConfigInv
    <2>7. Settings!HooksParse(texts[next]) /\ Settings!ServersParse(texts[next])
      <3>1. /\ DOMAIN v = DOMAIN texts[next]
            /\ \A p \in DOMAIN texts[next] : v[p] = Settings!Obj <=> texts[next][p] = Settings!Obj
            /\ \A p \in DOMAIN texts[next] : v[p].kind = texts[next][p].kind
            /\ Settings!ServersOf(v) = Settings!ServersOf(texts[next])
        BY <2>2, StampedParses
      <3>2. \A s \in Settings!ServersOf(texts[next]) : <<"mcpServers", s>> \in DOMAIN texts[next]
        <4>1. "mcpServers" \in Names
          BY TerminalAssumption DEF TerminalAssumption, Settings!ConfigLoaderAssumption
        <4> QED
          BY <1>1, <2>1, <4>1, TextsAreValues, KeysOfKey DEF Settings!ServersOf
      <3> HIDE DEF v
      <3> QED
        BY <2>1, <3>1, <3>2, SameKinds
    <2>8. \A i \in Settings!Loaded(next + 1) :
             Settings!HooksParse(texts[i]) /\ Settings!ServersParse(texts[i])
      BY <2>4, <2>7 DEF Settings!ConfigInv
    <2> QED
      BY <1>1, <1>2, <2>1, <2>3, <2>5, <2>6, <2>8 DEF Settings!ConfigInv
  <1>5. CASE Settings!Fail
    <2>1. /\ next \in DOMAIN texts /\ outcome' = "error" /\ UNCHANGED <<next, merged, servers>>
          /\ Settings!Faulty(next)
      BY <1>5 DEF Settings!Fail, Settings!Faulty
    <2>2. Settings!ConfigTypes'
      BY <1>1, <2>1 DEF Settings!ConfigTypes
    <2>3. Settings!Hopeless
      BY <2>1 DEF Settings!Hopeless
    <2> QED
      BY <1>1, <1>2, <2>1, <2>2, <2>3 DEF Settings!ConfigInv
  <1>6. CASE Settings!Finish
    <2>1. /\ next \notin Settings!Files /\ UNCHANGED <<next, merged, servers>>
          /\ outcome' = IF Settings!HooksParse(merged) /\ Settings!SectionsParse(merged)
                        THEN "loaded" ELSE "error"
      BY <1>6 DEF Settings!Finish
    <2>2. next = 6
      BY <1>1, <2>1 DEF Settings!ConfigTypes, Settings!Files
    <2>3. Settings!ConfigTypes'
      BY <1>1, <2>1 DEF Settings!ConfigTypes
    <2>4. outcome' = "error" => Settings!Hopeless
      BY <1>1, <2>1, <2>2, ParsedTogether DEF Settings!ConfigInv
    <2> QED
      BY <1>1, <1>2, <2>1, <2>2, <2>3, <2>4 DEF Settings!ConfigInv
  <1> QED
    BY <1>3, <1>4, <1>5, <1>6 DEF Settings!LoadNext

LEMMA ConfigNext ==
  ASSUME Settings!ConfigInv, [Next]_vars
  PROVE  Settings!ConfigInv'
  <1>1. CASE Settings!LoadNext
    BY <1>1, ConfigStep
  <1>2. CASE UNCHANGED configVars
    <2>1. UNCHANGED <<texts, next, merged, servers, outcome>>
      BY <1>2 DEF configVars
    <2>2. /\ Settings!MergedBefore(next)' = Settings!MergedBefore(next)
          /\ Settings!ServersBefore(next)' = Settings!ServersBefore(next)
          /\ Settings!Loaded(next)' = Settings!Loaded(next)
          /\ Settings!Hopeless' <=> Settings!Hopeless
      BY <2>1, OnlyTexts
    <2>3. Settings!ConfigTypes'
      BY <2>1 DEF Settings!ConfigInv, Settings!ConfigTypes
    <2> QED
      BY <2>1, <2>2, <2>3 DEF Settings!ConfigInv
  <1>3. Settings!LoadNext \/ UNCHANGED configVars
    BY DEF Next, OnlyCli, OnlyPlugins, OnlyStream, OnlyLogin, OnlyConfig, vars
  <1> QED
    BY <1>1, <1>2, <1>3

\* The settings in use are, path by path, those of the last settings file that
\* says anything of the path, the servers those of the last file that defines
\* them, and files that load one by one fail together only where one of them names
\* a mode that hides its bad default mode, and a later one has no string there.
THEOREM SettingsKeepPrecedence == Spec => []SettingsByPrecedence
  <1>1. Settings!ConfigInv /\ [Next]_vars => Settings!ConfigInv'
    BY ConfigNext
  <1>2. Settings!ConfigInv => SettingsByPrecedence
    BY DEF Settings!ConfigInv, SettingsByPrecedence, Settings!SettingsByPrecedence
  <1> QED
    BY <1>1, <1>2, ConfigStarts, PTL DEF Spec

-----------------------------------------------------------------------------
(* deep_merge_objects calls itself for a key that both objects have an       *)
(* object at; DeepMerge says in one go what comes of that.                   *)

\* What is below a key.
LEMMA BelowKey ==
  ASSUME NEW k \in Names, NEW r \in Seq(Names)
  PROVE  /\ <<k>> \o r \in Seq(Names) /\ <<k>> \o r # << >>
         /\ SubSeq(<<k>> \o r, 2, Len(<<k>> \o r)) = r
         /\ <<k>> \in Settings!Above(<<k>> \o r) \cup {<<k>> \o r}
         /\ r # << >> => <<k>> \in Settings!Above(<<k>> \o r)
  <1> DEFINE p == <<k>> \o r
  <1>1. <<k>> \in Seq(Names) /\ Len(<<k>>) = 1 /\ Len(r) \in Nat
    BY ShortPaths, LenProperties
  <1>2. /\ p \in Seq(Names) /\ Len(p) = 1 + Len(r) /\ p[1] = k
        /\ \A i \in 1..Len(r) : p[i + 1] = r[i]
    <2>1. /\ p \in Seq(Names) /\ Len(p) = Len(<<k>>) + Len(r)
          /\ \A i \in 1..Len(<<k>>) + Len(r) :
               p[i] = IF i <= Len(<<k>>) THEN <<k>>[i] ELSE r[i - Len(<<k>>)]
      BY <1>1, ConcatProperties
    <2> HIDE DEF p
    <2>2. \A i \in 1..(1 + Len(r)) : p[i] = IF i <= 1 THEN <<k>>[i] ELSE r[i - 1]
      BY <1>1, <2>1
    <2>3. ASSUME NEW i \in 1..Len(r) PROVE p[i + 1] = r[i]
      <3>1. i + 1 \in 1..(1 + Len(r)) /\ ~(i + 1 <= 1) /\ (i + 1) - 1 = i
        BY <1>1
      <3> QED
        BY <2>2, <3>1
    <2> QED
      BY <1>1, <2>1, <2>2, <2>3
  <1> HIDE DEF p
  <1>3. p # << >>
    BY <1>1, <1>2, EmptySeq
  <1>4. SubSeq(p, 2, Len(p)) = r
    <2> DEFINE q == SubSeq(p, 2, Len(p))
    <2>1. \A i \in 2..Len(p) : p[i] \in Names
      BY <1>1, <1>2, ElementOfSeq
    <2>2. /\ q \in Seq(Names) /\ Len(q) = IF 2 <= Len(p) THEN Len(p) - 2 + 1 ELSE 0
          /\ \A i \in 1..(Len(p) - 2 + 1) : q[i] = p[2 + i - 1]
      BY <1>1, <1>2, <2>1, SubSeqProperties
    <2> HIDE DEF q
    <2>3. Len(q) = Len(r)
      BY <1>1, <1>2, <2>2
    <2>4. ASSUME NEW i \in 1..Len(r) PROVE q[i] = r[i]
      <3>1. i \in 1..(Len(p) - 2 + 1) /\ 2 + i - 1 = i + 1
        BY <1>1, <1>2
      <3> QED
        BY <1>2, <2>2, <3>1
    <2>5. q = r
      BY <2>2, <2>3, <2>4, SeqEqual
    <2> QED
      BY <2>5 DEF q
  <1>5. ASSUME r # << >> PROVE <<k>> \in Settings!Above(p)
    <2> DEFINE q == SubSeq(p, 1, 1)
    <2>1. Len(r) >= 1
      BY <1>5, EmptySeq
    <2>2. \A i \in 1..1 : p[i] \in Names
      BY <1>2
    <2>3. q \in Seq(Names) /\ Len(q) = 1 /\ q[1] = p[1]
      <3>1. /\ q \in Seq(Names) /\ Len(q) = IF 1 <= 1 THEN 1 - 1 + 1 ELSE 0
            /\ \A i \in 1..(1 - 1 + 1) : q[i] = p[1 + i - 1]
        BY <2>2, SubSeqProperties
      <3> QED
        BY <3>1
    <2> HIDE DEF q
    <2>4. \A i \in 1..Len(q) : q[i] = <<k>>[i]
      BY <1>2, <2>3
    <2>5. q = <<k>>
      BY <1>1, <2>3, <2>4, SeqEqual
    <2>6. 1 \in 0..(Len(p) - 1)
      BY <1>1, <1>2, <2>1
    <2> QED
      BY <2>5, <2>6 DEF q, Settings!Above
  <1>6. ASSUME r = << >> PROVE p = <<k>>
    BY <1>1, <1>6, ConcatEmptySeq DEF p
  <1> QED
    BY <1>2, <1>3, <1>4, <1>5, <1>6 DEF p

LEMMA PartsBelowKey ==
  ASSUME NEW k \in Names, NEW r \in Seq(Names), NEW m \in 0..Len(r)
  PROVE  SubSeq(<<k>> \o r, 1, m + 1) = <<k>> \o SubSeq(r, 1, m)
  <1> DEFINE p == <<k>> \o r
             q == SubSeq(r, 1, m)
             u == SubSeq(p, 1, m + 1)
             w == <<k>> \o q
  <1>1. <<k>> \in Seq(Names) /\ Len(<<k>>) = 1 /\ <<k>>[1] = k /\ Len(r) \in Nat /\ m \in Nat
    BY ShortPaths, LenProperties
  <1>2. /\ Len(p) = 1 + Len(r)
        /\ \A i \in 1..(1 + Len(r)) : p[i] = IF i <= 1 THEN k ELSE r[i - 1]
    <2>1. /\ Len(p) = Len(<<k>>) + Len(r)
          /\ \A i \in 1..Len(<<k>>) + Len(r) :
               p[i] = IF i <= Len(<<k>>) THEN <<k>>[i] ELSE r[i - Len(<<k>>)]
      BY <1>1, ConcatProperties
    <2> HIDE DEF p
    <2> QED
      BY <1>1, <2>1
  <1>3. /\ q \in Seq(Names) /\ Len(q) = m
        /\ \A i \in 1..m : q[i] = r[i]
    <2>1. \A i \in 1..m : r[i] \in Names
      BY <1>1, ElementOfSeq
    <2>2. /\ q \in Seq(Names) /\ Len(q) = IF 1 <= m THEN m - 1 + 1 ELSE 0
          /\ \A i \in 1..(m - 1 + 1) : q[i] = r[1 + i - 1]
      BY <1>1, <2>1, SubSeqProperties
    <2> HIDE DEF q
    <2> QED
      BY <1>1, <2>2
  <1>4. /\ u \in Seq(Names) /\ Len(u) = m + 1
        /\ \A i \in 1..(m + 1) : u[i] = IF i <= 1 THEN k ELSE r[i - 1]
    <2> HIDE DEF p
    <2>1. \A i \in 1..(m + 1) : p[i] \in Names
      <3>1. ASSUME NEW i \in 1..(m + 1), ~(i <= 1) PROVE r[i - 1] \in Names
        <4>1. i - 1 \in 1..Len(r)
          BY <1>1, <3>1
        <4> QED
          BY <4>1, ElementOfSeq
      <3> QED
        BY <1>1, <1>2, <3>1
    <2>2. /\ u \in Seq(Names) /\ Len(u) = IF 1 <= m + 1 THEN m + 1 - 1 + 1 ELSE 0
          /\ \A i \in 1..(m + 1 - 1 + 1) : u[i] = p[1 + i - 1]
      BY <1>1, <2>1, SubSeqProperties
    <2> HIDE DEF u
    <2> QED
      BY <1>1, <1>2, <2>2
  <1>5. /\ w \in Seq(Names) /\ Len(w) = m + 1
        /\ \A i \in 1..(m + 1) : w[i] = IF i <= 1 THEN k ELSE r[i - 1]
    <2> HIDE DEF q
    <2>1. /\ w \in Seq(Names) /\ Len(w) = Len(<<k>>) + Len(q)
          /\ \A i \in 1..Len(<<k>>) + Len(q) :
               w[i] = IF i <= Len(<<k>>) THEN <<k>>[i] ELSE q[i - Len(<<k>>)]
      BY <1>1, <1>3, ConcatProperties
    <2> HIDE DEF w
    <2>2. ASSUME NEW i \in 1..(m + 1), ~(i <= 1) PROVE q[i - 1] = r[i - 1]
      <3>1. i - 1 \in 1..m
        BY <1>1, <2>2
      <3> QED
        BY <1>3, <3>1
    <2> QED
      BY <1>1, <1>3, <2>1, <2>2
  <1> HIDE DEF u, w
  <1>6. u = w
    BY <1>1, <1>4, <1>5, SeqEqual
  <1> QED
    BY <1>6 DEF u, w

\* The paths above one below a key: the root, and those that are below the key.
LEMMA AboveBelowKey ==
  ASSUME NEW k \in Names, NEW r \in Seq(Names)
  PROVE  Settings!Above(<<k>> \o r) = {<< >>} \cup {<<k>> \o a : a \in Settings!Above(r)}
  <1> DEFINE p == <<k>> \o r
  <1>1. Len(r) \in Nat /\ Len(p) = 1 + Len(r)
    BY ShortPaths, LenProperties, ConcatProperties
  <1>2. SubSeq(p, 1, 0) = << >>
    BY SubSeqEmpty
  <1>3. \A m \in 0..(Len(r) - 1) : SubSeq(p, 1, m + 1) = <<k>> \o SubSeq(r, 1, m)
    BY <1>1, PartsBelowKey
  <1> HIDE DEF p
  <1>4. ASSUME NEW n \in 0..(Len(p) - 1)
        PROVE  SubSeq(p, 1, n) \in {<< >>} \cup {<<k>> \o a : a \in Settings!Above(r)}
    <2>1. CASE n = 0
      BY <1>2, <2>1
    <2>2. CASE n # 0
      <3>1. n - 1 \in 0..(Len(r) - 1) /\ (n - 1) + 1 = n
        BY <1>1, <2>2
      <3>2. SubSeq(p, 1, n) = <<k>> \o SubSeq(r, 1, n - 1)
        BY <1>3, <3>1
      <3> QED
        BY <3>1, <3>2 DEF Settings!Above
    <2> QED
      BY <2>1, <2>2
  <1>5. ASSUME NEW m \in 0..(Len(r) - 1)
        PROVE  <<k>> \o SubSeq(r, 1, m) \in Settings!Above(p)
    <2>1. m + 1 \in 0..(Len(p) - 1)
      BY <1>1
    <2> QED
      BY <1>3, <2>1 DEF Settings!Above
  <1>6. << >> \in Settings!Above(p)
    <2>1. 0 \in 0..(Len(p) - 1)
      BY <1>1
    <2> QED
      BY <1>2, <2>1 DEF Settings!Above
  <1>7. Settings!Above(p) \subseteq {<< >>} \cup {<<k>> \o a : a \in Settings!Above(r)}
    BY <1>4 DEF Settings!Above
  <1>8. {<<k>> \o a : a \in Settings!Above(r)} \subseteq Settings!Above(p)
    BY <1>5 DEF Settings!Above
  <1> QED
    BY <1>6, <1>7, <1>8 DEF p

\* Everything on the way to a path is a path.
LEMMA AboveIsPath ==
  ASSUME NEW p \in Seq(Names), NEW q \in Settings!Above(p)
  PROVE  q \in Seq(Names)
  <1>1. PICK n \in 0..(Len(p) - 1) : q = SubSeq(p, 1, n)
    BY DEF Settings!Above
  <1>2. Len(p) \in Nat /\ n \in Int
    BY LenProperties
  <1>3. \A i \in 1..n : i \in 1..Len(p)
    BY <1>2
  <1>4. \A i \in 1..n : p[i] \in Names
    BY <1>3, ElementOfSeq
  <1> QED
    BY <1>1, <1>2, <1>4, SubSeqProperties

LEMMA StartsWithKey ==
  ASSUME NEW k \in Names, NEW p \in Seq(Names), <<k>> \in Settings!Above(p) \cup {p}
  PROVE  /\ SubSeq(p, 2, Len(p)) \in Seq(Names)
         /\ p = <<k>> \o SubSeq(p, 2, Len(p))
  <1> DEFINE r == SubSeq(p, 2, Len(p))
  <1>1. Len(p) \in Nat /\ Len(<<k>>) = 1 /\ <<k>>[1] = k
    BY LenProperties
  <1>2. Len(p) >= 1 /\ p[1] = k
    <2>1. CASE p = <<k>>
      <3>1. Len(p) = 1 /\ p[1] = k
        BY ONLY <2>1
      <3> QED
        BY <3>1
    <2>2. CASE <<k>> \in Settings!Above(p)
      <3>1. PICK n \in 0..(Len(p) - 1) : <<k>> = SubSeq(p, 1, n)
        BY <2>2 DEF Settings!Above
      <3>2. \A i \in 1..n : p[i] \in Names
        <4>1. \A i \in 1..n : i \in 1..Len(p)
          BY <1>1
        <4> QED
          BY <4>1, ElementOfSeq
      <3>3. /\ Len(SubSeq(p, 1, n)) = IF 1 <= n THEN n - 1 + 1 ELSE 0
            /\ \A i \in 1..(n - 1 + 1) : SubSeq(p, 1, n)[i] = p[1 + i - 1]
        BY <3>2, SubSeqProperties
      <3>4. n = 1
        BY <1>1, <3>1, <3>3
      <3>5. <<k>>[1] = p[1]
        BY <3>1, <3>3, <3>4
      <3> QED
        BY <1>1, <3>4, <3>5
    <2> QED
      BY <2>1, <2>2
  <1>3. p = <<p[1]>> \o r
    <2>1. SubSeq(p, 1, Len(p)) = <<p[1]>> \o SubSeq(p, 1 + 1, Len(p))
      BY <1>1, <1>2, SubSeqRecursiveFirst
    <2>2. SubSeq(p, 1, Len(p)) = p
      BY SubSeqFull
    <2> QED
      BY <2>1, <2>2
  <1>4. r \in Seq(Names)
    <2>1. \A i \in 2..Len(p) : p[i] \in Names
      BY <1>1, ElementOfSeq
    <2> QED
      BY <1>1, <2>1, SubSeqProperties
  <1> QED
    BY <1>2, <1>3, <1>4

\* What is under a key of a value.
LEMMA UnderKey ==
  ASSUME NEW v, DOMAIN v \subseteq Seq(Names), NEW k \in Names
  PROVE  LET u == Settings!Under(v, <<k>>)
         IN  /\ \A r : r \in DOMAIN u <=> r \in Seq(Names) /\ <<k>> \o r \in DOMAIN v
             /\ \A r \in DOMAIN u : u[r] = v[<<k>> \o r]
             /\ u = [r \in DOMAIN u |-> u[r]]
  <1> DEFINE u == Settings!Under(v, <<k>>)
             Within == {p \in DOMAIN v : <<k>> \in Settings!Above(p) \cup {p}}
  <1>1. Len(<<k>>) + 1 = 2
    OBVIOUS
  <1>2. u = [r \in {SubSeq(p, 2, Len(p)) : p \in Within} |-> v[<<k>> \o r]]
    BY <1>1 DEF Settings!Under
  <1>3. ASSUME NEW r PROVE r \in DOMAIN u <=> r \in Seq(Names) /\ <<k>> \o r \in DOMAIN v
    <2>1. ASSUME NEW p \in Within, r = SubSeq(p, 2, Len(p))
          PROVE  r \in Seq(Names) /\ <<k>> \o r \in DOMAIN v
      BY <2>1, StartsWithKey
    <2>2. ASSUME r \in Seq(Names), <<k>> \o r \in DOMAIN v
          PROVE  \E p \in Within : r = SubSeq(p, 2, Len(p))
      <3>1. /\ SubSeq(<<k>> \o r, 2, Len(<<k>> \o r)) = r
            /\ <<k>> \in Settings!Above(<<k>> \o r) \cup {<<k>> \o r}
        BY <2>2, BelowKey
      <3> QED
        BY <2>2, <3>1
    <2> QED
      BY <1>2, <2>1, <2>2
  <1> QED
    BY <1>2, <1>3

\* It is a value again.
LEMMA UnderIsValue ==
  ASSUME NEW v, Settings!IsValue(v), NEW k \in Names, <<k>> \in DOMAIN v
  PROVE  Settings!IsValue(Settings!Under(v, <<k>>))
  <1> DEFINE u == Settings!Under(v, <<k>>)
  <1>1. DOMAIN v \subseteq Seq(Names)
    BY DEF Settings!IsValue
  <1>2. /\ \A r : r \in DOMAIN u <=> r \in Seq(Names) /\ <<k>> \o r \in DOMAIN v
        /\ \A r \in DOMAIN u : u[r] = v[<<k>> \o r]
    BY <1>1, UnderKey
  <1> HIDE DEF u
  <1>3. << >> \in DOMAIN u
    <2>1. << >> \in Seq(Names) /\ <<k>> \o << >> = <<k>>
      BY ShortPaths, EmptySeq, ConcatEmptySeq
    <2> QED
      BY <1>2, <2>1
  <1>4. ASSUME NEW r \in DOMAIN u, NEW q \in Settings!Above(r)
        PROVE  q \in DOMAIN u /\ u[q] = Settings!Obj
    <2>1. r \in Seq(Names) /\ <<k>> \o r \in DOMAIN v
      BY <1>2
    <2>2. q \in Seq(Names)
      BY <2>1, AboveIsPath
    <2>3. <<k>> \o q \in Settings!Above(<<k>> \o r)
      BY <2>1, AboveBelowKey
    <2>4. <<k>> \o q \in DOMAIN v /\ v[<<k>> \o q] = Settings!Obj
      BY <2>1, <2>3 DEF Settings!IsValue
    <2> QED
      BY <1>2, <2>2, <2>4
  <1>5. Settings!IsValue(u)
    BY <1>2, <1>3, <1>4 DEF Settings!IsValue
  <1> QED
    BY <1>5 DEF u

\* For a key that the source has an object at and the target too, the merged
\* object has what deep_merge_objects makes of the two; for any other key of the
\* source it has what is there, and for the keys the source does not have, what
\* the target has.
THEOREM MergesKeyByKey ==
  ASSUME NEW t, NEW s, Settings!IsValue(t), Settings!IsValue(s),
         Settings!IsObject(t), Settings!IsObject(s), NEW k \in Names
  PROVE  LET m      == Settings!DeepMerge(t, s)
             there  == Settings!Has(t, <<k>>) /\ t[<<k>>] = Settings!Obj
             coming == Settings!Has(s, <<k>>) /\ s[<<k>>] = Settings!Obj
         IN  /\ Settings!IsObject(m)
             /\ Settings!Has(m, <<k>>) <=> Settings!Has(t, <<k>>) \/ Settings!Has(s, <<k>>)
             /\ Settings!Under(m, <<k>>)
                  = IF there /\ coming
                      THEN Settings!DeepMerge(Settings!Under(t, <<k>>), Settings!Under(s, <<k>>))
                    ELSE IF Settings!Has(s, <<k>>) THEN Settings!Under(s, <<k>>)
                    ELSE Settings!Under(t, <<k>>)
  <1> DEFINE m  == Settings!DeepMerge(t, s)
             tk == Settings!Under(t, <<k>>)
             sk == Settings!Under(s, <<k>>)
             mk == Settings!Under(m, <<k>>)
             At(r) == <<k>> \o r
  <1>1. /\ DOMAIN t \subseteq Seq(Names) /\ DOMAIN s \subseteq Seq(Names)
        /\ << >> \in DOMAIN t /\ << >> \in DOMAIN s
        /\ t[<< >>] = Settings!Obj /\ s[<< >>] = Settings!Obj
        /\ \A p \in DOMAIN t : \A q \in Settings!Above(p) : q \in DOMAIN t /\ t[q] = Settings!Obj
        /\ \A p \in DOMAIN s : \A q \in Settings!Above(p) : q \in DOMAIN s /\ s[q] = Settings!Obj
    BY DEF Settings!IsValue, Settings!IsObject
  <1>2. /\ \A p : p \in DOMAIN m <=>
                 \/ p \in DOMAIN s
                 \/ /\ p \in DOMAIN t
                    /\ \A q \in Settings!Above(p) : q \in DOMAIN s => s[q] = Settings!Obj
        /\ \A p \in DOMAIN m : m[p] = IF p \in DOMAIN s THEN s[p] ELSE t[p]
    BY DEF Settings!DeepMerge, Settings!Has
  <1>3. DOMAIN m \subseteq Seq(Names)
    BY <1>1, <1>2
  <1>4. Settings!IsObject(m)
    BY <1>1, <1>2 DEF Settings!IsObject
  <1>5. Settings!Has(m, <<k>>) <=> Settings!Has(t, <<k>>) \/ Settings!Has(s, <<k>>)
    <2>1. Settings!Above(<<k>>) = {<< >>}
      BY AboveShort
    <2> QED
      BY <1>1, <1>2, <2>1 DEF Settings!Has
  <1> HIDE DEF m
  <1>6. /\ \A r : r \in DOMAIN mk <=> r \in Seq(Names) /\ At(r) \in DOMAIN m
        /\ \A r \in DOMAIN mk : mk[r] = m[At(r)]
        /\ mk = [r \in DOMAIN mk |-> mk[r]]
    BY <1>3, UnderKey
  <1>7. /\ \A r : r \in DOMAIN tk <=> r \in Seq(Names) /\ At(r) \in DOMAIN t
        /\ \A r \in DOMAIN tk : tk[r] = t[At(r)]
        /\ tk = [r \in DOMAIN tk |-> tk[r]]
    BY <1>1, UnderKey
  <1>8. /\ \A r : r \in DOMAIN sk <=> r \in Seq(Names) /\ At(r) \in DOMAIN s
        /\ \A r \in DOMAIN sk : sk[r] = s[At(r)]
        /\ sk = [r \in DOMAIN sk |-> sk[r]]
    BY <1>1, UnderKey
  <1>9. \A r \in Seq(Names) :
          Settings!Above(At(r)) = {<< >>} \cup {At(a) : a \in Settings!Above(r)}
    BY AboveBelowKey
  <1>10. \A r \in Seq(Names) : /\ r # << >> => <<k>> \in Settings!Above(At(r))
                               /\ r = << >> => At(r) = <<k>>
    <2>1. At(<< >>) = <<k>>
      BY ShortPaths, ConcatEmptySeq
    <2> QED
      BY <2>1, BelowKey
  <1> HIDE DEF At, mk, tk, sk
  <1>11. CASE <<k>> \notin DOMAIN s
    <2>1. \A r \in Seq(Names) : At(r) \notin DOMAIN s
      BY <1>1, <1>10, <1>11
    <2>2. ASSUME NEW r \in Seq(Names) PROVE At(r) \in DOMAIN m <=> At(r) \in DOMAIN t
      <3>1. \A q \in Settings!Above(At(r)) : q \in DOMAIN s => s[q] = Settings!Obj
        <4>1. \A a \in Settings!Above(r) : a \in Seq(Names)
          BY AboveIsPath
        <4> QED
          BY <1>1, <1>9, <2>1, <4>1
      <3> QED
        BY <1>2, <2>1, <3>1
    <2>3. mk = tk
      BY <1>2, <1>6, <1>7, <2>1, <2>2
    <2> QED
      BY <1>4, <1>5, <1>11, <2>3 DEF m, mk, tk, Settings!Has
  <1>12. CASE <<k>> \in DOMAIN s /\ ~(s[<<k>>] = Settings!Obj /\ <<k>> \in DOMAIN t /\ t[<<k>>] = Settings!Obj)
    <2>1. ASSUME NEW r \in Seq(Names) PROVE At(r) \in DOMAIN m <=> At(r) \in DOMAIN s
      <3>1. CASE r = << >>
        BY <1>2, <1>10, <1>12, <3>1
      <3>2. CASE r # << >>
        BY <1>1, <1>2, <1>10, <1>12, <3>2
      <3> QED
        BY <3>1, <3>2
    <2>2. mk = sk
      BY <1>2, <1>6, <1>8, <2>1
    <2> QED
      BY <1>4, <1>5, <1>12, <2>2 DEF m, mk, sk, Settings!Has
  <1>13. CASE /\ <<k>> \in DOMAIN s /\ s[<<k>>] = Settings!Obj
              /\ <<k>> \in DOMAIN t /\ t[<<k>>] = Settings!Obj
    <2> DEFINE d == Settings!DeepMerge(tk, sk)
    <2>1. /\ \A r : r \in DOMAIN d <=>
                  \/ r \in DOMAIN sk
                  \/ /\ r \in DOMAIN tk
                     /\ \A a \in Settings!Above(r) : a \in DOMAIN sk => sk[a] = Settings!Obj
          /\ \A r \in DOMAIN d : d[r] = IF r \in DOMAIN sk THEN sk[r] ELSE tk[r]
          /\ d = [r \in DOMAIN d |-> d[r]]
      BY DEF Settings!DeepMerge, Settings!Has
    <2> HIDE DEF d
    <2>2. ASSUME NEW r \in Seq(Names)
          PROVE  (\A q \in Settings!Above(At(r)) : q \in DOMAIN s => s[q] = Settings!Obj)
                   <=> \A a \in Settings!Above(r) : a \in DOMAIN sk => sk[a] = Settings!Obj
      <3>1. \A a \in Settings!Above(r) : a \in Seq(Names)
        BY AboveIsPath
      <3> QED
        BY <1>1, <1>8, <1>9, <3>1
    <2>3. \A r : r \in DOMAIN mk <=> r \in DOMAIN d
      BY <1>2, <1>6, <1>7, <1>8, <2>1, <2>2
    <2>4. \A r \in DOMAIN mk : mk[r] = d[r]
      BY <1>2, <1>6, <1>7, <1>8, <2>1, <2>3
    <2>5. mk = d
      BY <1>6, <2>1, <2>3, <2>4
    <2> QED
      BY <1>4, <1>5, <1>13, <2>5 DEF m, mk, tk, sk, d, Settings!Has
  <1> QED
    BY <1>11, <1>12, <1>13
=============================================================================
