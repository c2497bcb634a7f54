-------------------------- MODULE ControlServiceProofs --------------------------
(* Theorems about ControlService for every value of its constants.          *)
EXTENDS ControlService, FiniteSetTheorems, TLAPS

Places == {"idle", "admit", "flag", "insert", "reload", "record",
           "cancel", "release", "count", "complete"}
QueueType ==
    /\ state \in [JobId -> {"ABSENT", "PENDING", "RUNNING"} \cup Terminal]
    /\ key \in [JobId -> AllKeys \cup {NoKey}]
    /\ queueDrain \in BOOLEAN
QuotaType ==
    /\ concurrent \in 0..QuotaCap
    /\ reservations \subseteq {j \in JobId : state[j] # "ABSENT"}
DrainType ==
    /\ drain \in {"Active", "Draining", "Complete"}
    /\ expired \in BOOLEAN
    /\ server \in {"serving", "waiting", "closing", "stopped"}
    /\ streams \subseteq Watchers
CallType ==
    /\ cpc \in [Clients -> Places]
    /\ want \in [Clients -> AllKeys \cup {NoKey}]
    /\ target \in [Clients -> 0..MaxJobs]
    /\ active \in [Clients -> Nat]

LEMMA TypeParts ==
  TypeOK <=> QueueType /\ QuotaType /\ DrainType /\ CallType
               /\ faults \in 0..MaxFaults
  BY Zenon DEF TypeOK, QueueType, QuotaType, DrainType, CallType, Places

LEMMA QueueCardinality ==
  \A S : Queue!Cardinality(S) = Cardinality(S)
  BY DEF Queue!Cardinality, Cardinality

LEMMA JobIdFinite ==
  /\ JobId \subseteq Nat \ {0} /\ JobId \subseteq 0..MaxJobs
  /\ IsFiniteSet(JobId)
  <1>1. JobId = 1..MaxJobs /\ MaxJobs \in Nat
    BY ControlAssumption DEF JobId, Queue!Ids, ControlAssumption
  <1> QED
    BY <1>1, FS_Interval

(* The queue only moves a job on: what it accepts was absent, what it      *)
(* finishes was not, and a finished job stays as it is.                    *)
LEMMA QueueMoves ==
  ASSUME QueueType, NEW j \in JobId,
         Queue!Accept(j) \/ Queue!Start(j) \/ Queue!Finish(j) \/ Queue!Cancel(j)
  PROVE  /\ state' \in [JobId -> {"ABSENT", "PENDING", "RUNNING"} \cup Terminal]
         /\ \A i \in JobId : state[i] # "ABSENT" => state'[i] # "ABSENT"
         /\ \A i \in JobId : state[i] \in Terminal => state'[i] = state[i]
         /\ Queue!Accept(j) => state'[j] = "PENDING"
         /\ \A i \in Unfinished' :
              i \in Unfinished \/ (Queue!Accept(j) /\ i = j)
  <1> USE DEF QueueType, Terminal
  <1>1. \E s \in {"PENDING", "RUNNING"} \cup Terminal :
           /\ state' = [state EXCEPT ![j] = s]
           /\ state[j] \notin Terminal
           /\ Queue!Accept(j) => s = "PENDING"
           /\ Queue!Accept(j) \/ j \in Unfinished
    BY DEF Queue!Accept, Queue!Start, Queue!Finish, Queue!Cancel,
           Unfinished, Queue!Unfinished, JobId
  <1> QED
    BY <1>1 DEF Unfinished, Queue!Unfinished, JobId

LEMMA GotoType ==
  ASSUME CallType, NEW c \in Clients, NEW place \in Places, Goto(c, place),
         want' \in [Clients -> AllKeys \cup {NoKey}],
         target' \in [Clients -> 0..MaxJobs],
         active' \in [Clients -> Nat]
  PROVE  /\ CallType'
         /\ cpc'[c] = place
         /\ \A d \in Clients \ {c} : cpc'[d] = cpc[d]
  BY DEF CallType, Goto, AllKeys

LEMMA ReturnType ==
  ASSUME CallType, NEW c \in Clients, Return(c)
  PROVE  /\ CallType'
         /\ cpc'[c] = "idle"
         /\ \A d \in Clients \ {c} :
              cpc'[d] = cpc[d] /\ want'[d] = want[d] /\ target'[d] = target[d]
  BY ControlAssumption
     DEF CallType, Return, Goto, AllKeys, Places, ControlAssumption

-----------------------------------------------------------------------------
(* Counting.                                                                *)

(* A job that was unpaid, or paid by nothing that is left, stays within.   *)
LEMMA UnpaidWithin ==
  ASSUME NEW X,
         \A j \in Unfinished' :
            j \in Unfinished \/ j \in Inserted' \/ j \in reservations',
         \A j \in reservations : j \in reservations' \/ j \notin Unfinished',
         \A d \in Clients : cpc[d] \in {"reload", "record"} =>
            \/ cpc'[d] \in {"reload", "record"} /\ target'[d] = target[d]
            \/ target[d] \in X \cup reservations'
  PROVE  Unpaid' \subseteq Unpaid \cup X
  <1> SUFFICES ASSUME NEW j \in Unpaid', j \notin X
               PROVE  j \in Unpaid
    OBVIOUS
  <1>1. /\ j \in Unfinished' /\ j \notin reservations' /\ j \notin Inserted'
    BY Zenon DEF Unpaid
  <1>2. j \in Unfinished /\ j \notin reservations
    BY <1>1
  <1>3. ASSUME j \in Inserted PROVE FALSE
    <2>1. PICK d \in Clients : cpc[d] \in {"reload", "record"} /\ target[d] = j
      BY <1>3 DEF Inserted
    <2>2. cpc'[d] \in {"reload", "record"} /\ target'[d] = j
      BY <1>1, <2>1
    <2>3. j \in Inserted'
      BY <2>2 DEF Inserted
    <2> QED
      BY <1>1, <2>3
  <1> QED
    BY <1>2, <1>3 DEF Unpaid

LEMMA FiniteParts ==
  ASSUME TypeOK
  PROVE  /\ IsFiniteSet(reservations) /\ Cardinality(reservations) \in Nat
         /\ IsFiniteSet(Unfinished) /\ Cardinality(Unfinished) \in Nat
         /\ IsFiniteSet(Unpaid) /\ Cardinality(Unpaid) \in Nat
         /\ faults \in Nat /\ concurrent \in Nat
         /\ IsFiniteSet(Admitted) => Cardinality(Admitted) \in Nat
  <1>1. reservations \subseteq JobId
    BY DEF TypeOK
  <1>2. Unfinished \subseteq JobId /\ Unpaid \subseteq Unfinished
    BY DEF Unfinished, Queue!Unfinished, JobId, Unpaid
  <1>3. /\ IsFiniteSet(reservations) /\ IsFiniteSet(Unfinished)
        /\ IsFiniteSet(Unpaid)
    BY <1>1, <1>2, JobIdFinite, FS_Subset
  <1>4. faults \in Nat /\ concurrent \in Nat
    BY ControlAssumption DEF TypeOK, ControlAssumption
  <1> QED
    BY <1>3, <1>4, FS_CardinalityType

(* Steps that take nothing and give nothing back.                          *)
LEMMA SameUnits ==
  ASSUME TypeOK, TypeOK', UnitsSuffice,
         Unpaid' \subseteq Unpaid, Admitted' = Admitted,
         UNCHANGED quotaVars, faults' >= faults
  PROVE  UnitsSuffice'
  <1>1. Cardinality(Unpaid') <= Cardinality(Unpaid)
    BY FiniteParts, FS_Subset
  <1>2. /\ Cardinality(Unpaid') \in Nat /\ faults' \in Nat
    BY FiniteParts, ControlAssumption, FS_Subset, FS_CardinalityType
       DEF TypeOK, ControlAssumption
  <1>3. reservations' = reservations /\ concurrent' = concurrent
    BY DEF quotaVars
  <1>4. UnitsSuffice' =
          /\ IsFiniteSet(Admitted')
          /\ Cardinality(reservations') + Cardinality(Admitted') <= concurrent'
          /\ Cardinality(Unpaid') + Cardinality(reservations')
               + Cardinality(Admitted') <= concurrent' + faults'
    BY DEF UnitsSuffice
  <1> QED
    BY <1>1, <1>2, <1>3, <1>4, FiniteParts DEF UnitsSuffice

(* A call that gives up its unit: the unit goes back, unless it is left     *)
(* behind to pay for a job, or the error is counted.                        *)
LEMMA UnitGivenUp ==
  ASSUME TypeOK, TypeOK', UnitsSuffice, NEW c \in Admitted, NEW t,
         Admitted' = Admitted \ {c}, UNCHANGED reservations,
         \/ Unpaid' \subseteq Unpaid /\ QuotaRelease /\ faults' >= faults
         \/ Unpaid' \subseteq Unpaid \cup {t} /\ QuotaRelease
              /\ faults' = faults + 1
         \/ Unpaid' \subseteq Unpaid \cup {t} /\ UNCHANGED <<concurrent, faults>>
  PROVE  UnitsSuffice'
  <1> DEFINE u  == Cardinality(Unpaid)
             v  == Cardinality(Unpaid')
             r  == Cardinality(reservations)
             a  == Cardinality(Admitted)
  <1>1. /\ u \in Nat /\ r \in Nat /\ a \in Nat
        /\ concurrent \in Nat /\ faults \in Nat
        /\ IsFiniteSet(Admitted) /\ IsFiniteSet(Unpaid)
    BY FiniteParts DEF UnitsSuffice
  <1>2. IsFiniteSet(Admitted') /\ Cardinality(Admitted') = a - 1
    BY <1>1, FS_RemoveElement
  <1>3. IsFiniteSet(Unpaid \cup {t}) /\ Cardinality(Unpaid \cup {t}) <= u + 1
    <2>1. /\ IsFiniteSet(Unpaid \cup {t})
          /\ Cardinality(Unpaid \cup {t})
               = IF t \in Unpaid THEN u ELSE u + 1
      BY <1>1, FS_AddElement
    <2> QED
      BY <1>1, <2>1
  <1>4. /\ v \in Nat /\ faults' \in Nat
        /\ Unpaid' \subseteq Unpaid => v <= u
        /\ Unpaid' \subseteq Unpaid \cup {t} => v <= u + 1
    <2>1. Unpaid' \subseteq Unpaid \cup {t}
      OBVIOUS
    <2>2. IsFiniteSet(Unpaid') /\ v <= Cardinality(Unpaid \cup {t})
      BY <1>3, <2>1, FS_Subset
    <2>3. v \in Nat /\ Cardinality(Unpaid \cup {t}) \in Nat
      BY <1>3, <2>2, FS_CardinalityType
    <2>4. Unpaid' \subseteq Unpaid => v <= u
      BY <1>1, FS_Subset
    <2>5. faults' \in Nat
      BY ControlAssumption DEF TypeOK, ControlAssumption
    <2> QED
      BY <1>1, <1>3, <2>2, <2>3, <2>4, <2>5
  <1>5. a >= 1
    <2>1. a # 0
      BY <1>1, FS_EmptySet
    <2> QED
      BY <1>1, <2>1
  <1>6. r + a <= concurrent /\ u + r + a <= concurrent + faults
    BY DEF UnitsSuffice
  <1>7. QuotaRelease => concurrent' = concurrent - 1
    BY <1>1, <1>5, <1>6 DEF QuotaRelease
  <1>8. UnitsSuffice' =
          /\ IsFiniteSet(Admitted')
          /\ Cardinality(reservations') + Cardinality(Admitted') <= concurrent'
          /\ v + Cardinality(reservations') + Cardinality(Admitted')
               <= concurrent' + faults'
    BY DEF UnitsSuffice
  <1>9. Cardinality(reservations') = r
    OBVIOUS
  <1> HIDE DEF u, v, r, a
  <1>10. \/ v <= u /\ concurrent' = concurrent - 1 /\ faults' >= faults
         \/ v <= u + 1 /\ concurrent' = concurrent - 1 /\ faults' = faults + 1
         \/ v <= u + 1 /\ concurrent' = concurrent /\ faults' = faults
    BY <1>4, <1>7
  <1>11. r + (a - 1) <= concurrent' /\ v + r + (a - 1) <= concurrent' + faults'
    BY <1>1, <1>4, <1>5, <1>6, <1>10
  <1> QED
    BY <1>2, <1>8, <1>9, <1>11

-----------------------------------------------------------------------------
(* What the steps of one call leave alone.                                  *)

Others(c) ==
    \A d \in Clients \ {c} :
        cpc'[d] = cpc[d] /\ want'[d] = want[d] /\ target'[d] = target[d]
JobsStay ==
    \A j \in JobId : /\ state[j] # "ABSENT" => state'[j] # "ABSENT"
                     /\ state[j] \in Terminal => state'[j] = state[j]
Named(c) ==
    /\ cpc[c] \in {"admit", "flag", "insert"} => want[c] # NoKey
    /\ cpc[c] \in {"reload", "record", "cancel"} =>
          target[c] \in JobId /\ state[target[c]] # "ABSENT"
    /\ cpc[c] = "release" =>
          target[c] \in JobId /\ state[target[c]] \in Terminal
Keyed == \A j \in JobId : key[j] # NoKey => state[j] # "ABSENT"

UnitPlaces == {"flag", "insert", "reload", "record"}

LEMMA TargetsParts ==
  Targets <=> Keyed /\ \A c \in Clients : Named(c)
  BY DEF Targets, Keyed, Named

LEMMA NamedKept ==
  ASSUME NEW d \in Clients, Named(d), JobsStay,
         cpc'[d] = cpc[d] /\ want'[d] = want[d] /\ target'[d] = target[d]
  PROVE  Named(d)'
  BY DEF Named, JobsStay

LEMMA TargetsKept ==
  ASSUME Targets, NEW c \in Clients, Others(c), JobsStay, Keyed', Named(c)'
  PROVE  Targets'
  <1>1. ASSUME NEW d \in Clients PROVE Named(d)'
    <2>1. CASE d = c
      BY <2>1
    <2>2. CASE d # c
      BY <2>2, NamedKept, TargetsParts DEF Others
    <2> QED
      BY <2>1, <2>2
  <1>2. Targets' <=> Keyed' /\ \A d \in Clients : Named(d)'
    BY DEF Targets, Keyed, Named
  <1> QED
    BY <1>1, <1>2

LEMMA AdmittedMoves ==
  ASSUME NEW c \in Clients, Others(c)
  PROVE  /\ (c \in Admitted') = (c \in Admitted) => Admitted' = Admitted
         /\ c \notin Admitted' => Admitted' = Admitted \ {c}
         /\ c \in Admitted' => Admitted' = Admitted \cup {c}
  BY DEF Others, Admitted

LEMMA QueueAlone ==
  ASSUME UNCHANGED <<state, key>>
  PROVE  JobsStay /\ (Keyed => Keyed') /\ Unfinished' = Unfinished
  BY DEF JobsStay, Keyed, Unfinished, Queue!Unfinished

(* A step of the call c that admits nothing and drops no unit.             *)
LEMMA QuietCall ==
  ASSUME ReservationInv, TypeOK', NEW c \in Clients, Others(c),
         JobsStay, Keyed', Named(c)',
         UNCHANGED quotaVars, faults' >= faults,
         (c \in Admitted') = (c \in Admitted),
         \A j \in Unfinished' : j \in Unfinished \/ j \in Inserted',
         cpc[c] \in {"reload", "record"} =>
            cpc'[c] \in {"reload", "record"} /\ target'[c] = target[c]
  PROVE  ReservationInv'
  <1>1. Targets'
    BY TargetsKept DEF ReservationInv
  <1>2. Admitted' = Admitted
    BY AdmittedMoves
  <1>3. Unpaid' \subseteq Unpaid \cup {}
    <2>1. \A d \in Clients : cpc[d] \in {"reload", "record"} =>
             cpc'[d] \in {"reload", "record"} /\ target'[d] = target[d]
      BY DEF Others
    <2>2. \A j \in reservations : j \in reservations'
      BY DEF quotaVars
    <2> QED
      BY <2>1, <2>2, UnpaidWithin
  <1>4. UnitsSuffice'
    BY <1>2, <1>3, SameUnits DEF ReservationInv
  <1> QED
    BY <1>1, <1>4 DEF ReservationInv

(* A call that ends and gives its unit up.                                  *)
LEMMA CallEnds ==
  ASSUME ReservationInv, TypeOK', NEW c \in Admitted, Return(c),
         UNCHANGED <<state, key, reservations>>,
         \/ /\ cpc[c] \notin {"reload", "record"}
            /\ QuotaRelease /\ faults' >= faults
         \/ QuotaRelease /\ faults' = faults + 1
         \/ UNCHANGED <<concurrent, faults>>
  PROVE  ReservationInv'
  <1>0. c \in Clients /\ CallType
    BY TypeParts DEF Admitted, ReservationInv
  <1>1. cpc'[c] = "idle" /\ Others(c)
    BY <1>0, ReturnType DEF Others
  <1>2. Named(c)'
    BY <1>1 DEF Named
  <1>3. Targets'
    BY <1>0, <1>1, <1>2, QueueAlone, TargetsKept, TargetsParts DEF ReservationInv
  <1>4. Admitted' = Admitted \ {c}
    BY <1>0, <1>1, AdmittedMoves DEF Admitted
  <1>5. \A j \in Unfinished' : j \in Unfinished
    BY QueueAlone
  <1>6. Unpaid' \subseteq Unpaid \cup {target[c]}
    <2>1. \A d \in Clients : cpc[d] \in {"reload", "record"} =>
             \/ cpc'[d] \in {"reload", "record"} /\ target'[d] = target[d]
             \/ target[d] \in {target[c]} \cup reservations'
      BY <1>1 DEF Others
    <2> QED
      BY <1>5, <2>1, UnpaidWithin
  <1>7. ASSUME cpc[c] \notin {"reload", "record"}
        PROVE  Unpaid' \subseteq Unpaid
    <2>1. \A d \in Clients : cpc[d] \in {"reload", "record"} =>
             \/ cpc'[d] \in {"reload", "record"} /\ target'[d] = target[d]
             \/ target[d] \in {} \cup reservations'
      BY <1>1, <1>7 DEF Others
    <2>2. Unpaid' \subseteq Unpaid \cup {}
      BY <1>5, <2>1, UnpaidWithin
    <2> QED
      BY <2>2
  <1>8. UnitsSuffice'
    BY <1>4, <1>6, <1>7, UnitGivenUp DEF ReservationInv
  <1> QED
    BY <1>3, <1>8 DEF ReservationInv

-----------------------------------------------------------------------------
(* The steps of a call.                                                     *)

LEMMA QueueTypeKept ==
  ASSUME TypeOK, UNCHANGED queueVars
  PROVE  /\ QueueType' /\ (QuotaType' <=> concurrent' \in 0..QuotaCap
                             /\ reservations' \subseteq
                                  {j \in JobId : state[j] # "ABSENT"})
         /\ JobsStay /\ (Keyed => Keyed') /\ Unfinished' = Unfinished
  <1>1. QueueType /\ UNCHANGED <<state, key, queueDrain>>
    BY TypeParts DEF queueVars
  <1> QED
    BY <1>1, QueueAlone DEF QueueType, QuotaType

LEMMA SomeCounts ==
  /\ MaxFaults \in Nat /\ QuotaCap \in Nat \ {0}
  /\ TypeOK => faults \in 0..MaxFaults /\ concurrent \in 0..QuotaCap
  BY ControlAssumption DEF ControlAssumption, TypeOK

LEMMA TypeNext ==
  TypeOK' <=> QueueType' /\ QuotaType' /\ DrainType' /\ CallType'
               /\ faults' \in 0..MaxFaults
  BY Zenon DEF TypeOK, QueueType, QuotaType, DrainType, CallType, Places

(* A step of the call c that leaves the queue and the quota alone.          *)
LEMMA QuietStep ==
  ASSUME ReservationInv, NEW c \in Clients, Others(c), CallType', DrainType',
         UNCHANGED <<queueVars, quotaVars>>,
         faults' \in 0..MaxFaults, faults' >= faults,
         Named(c)', (cpc'[c] \in UnitPlaces) = (cpc[c] \in UnitPlaces),
         cpc[c] \in {"reload", "record"} =>
            cpc'[c] \in {"reload", "record"} /\ target'[c] = target[c]
  PROVE  ReservationInv'
  <1>0. (c \in Admitted') = (c \in Admitted)
    BY DEF Admitted, UnitPlaces
  <1>1. TypeOK /\ Targets
    BY DEF ReservationInv
  <1>2. QuotaType /\ Keyed
    BY <1>1, TypeParts, TargetsParts
  <1>3. QuotaType' /\ UNCHANGED quotaVars
    BY <1>1, <1>2, QueueTypeKept DEF QuotaType, quotaVars
  <1>4. TypeOK'
    BY <1>1, <1>3, QueueTypeKept, TypeNext
  <1>5. JobsStay /\ Keyed' /\ \A j \in Unfinished' : j \in Unfinished
    BY <1>1, <1>2, QueueTypeKept
  <1> QED
    BY <1>0, <1>3, <1>4, <1>5, QuietCall

LEMMA DrainKept ==
  TypeOK /\ UNCHANGED drainVars => DrainType'
  BY TypeParts DEF DrainType, drainVars

LEMMA FindInv ==
  ASSUME ReservationInv, NEW c \in Clients, NEW k \in KeysOf[c],
         SubmitFind(c, k)
  PROVE  ReservationInv'
  <1>1. TypeOK /\ Targets /\ cpc[c] = "idle" /\ UNCHANGED <<queueVars, quotaVars, drainVars>>
    BY DEF SubmitFind, Call, ReservationInv
  <1>2. faults' \in 0..MaxFaults /\ faults' >= faults
    BY <1>1, SomeCounts DEF SubmitFind, Fault
  <1>3. CallType
    BY <1>1, TypeParts
  <1>4. CASE Return(c)
    <2>1. CallType' /\ cpc'[c] = "idle" /\ Others(c)
      BY <1>3, <1>4, ReturnType DEF Others
    <2> QED
      BY <1>1, <1>2, <2>1, DrainKept, QuietStep DEF Named, UnitPlaces
  <1>5. CASE Goto(c, "admit") /\ want' = [want EXCEPT ![c] = k]
               /\ UNCHANGED <<target, active>>
    <2>1. k \in AllKeys /\ k # NoKey
      BY ControlAssumption DEF AllKeys, ControlAssumption
    <2>2. want' \in [Clients -> AllKeys \cup {NoKey}] /\ want'[c] = k
      BY <1>3, <1>5, <2>1 DEF CallType
    <2>3. CallType' /\ cpc'[c] = "admit"
      BY <1>3, <1>5, <2>2, GotoType DEF Places, CallType
    <2>4. Others(c)
      BY <1>3, <1>5, <2>2 DEF Others, Goto, CallType
    <2> QED
      BY <1>1, <1>2, <2>1, <2>2, <2>3, <2>4, DrainKept, QuietStep
         DEF Named, UnitPlaces
  <1> QED
    BY <1>4, <1>5 DEF SubmitFind

LEMMA Moves ==
  ASSUME CallType, NEW c \in Clients, NEW place \in Places, Goto(c, place),
         UNCHANGED <<want, active>>,
         \/ UNCHANGED target
         \/ \E t \in 0..MaxJobs : target' = [target EXCEPT ![c] = t]
  PROVE  /\ CallType' /\ cpc'[c] = place /\ want'[c] = want[c]
         /\ Others(c)
  <1>1. target' \in [Clients -> 0..MaxJobs]
        /\ \A d \in Clients \ {c} : target'[d] = target[d]
    BY DEF CallType
  <1>2. want' \in [Clients -> AllKeys \cup {NoKey}] /\ active' \in [Clients -> Nat]
    BY DEF CallType
  <1> QED
    BY <1>1, <1>2, GotoType DEF Others

LEMMA Released ==
  ASSUME TypeOK, QuotaRelease
  PROVE  concurrent' \in 0..QuotaCap
  BY SomeCounts DEF QuotaRelease

LEMMA Erred ==
  ASSUME TypeOK, Fault
  PROVE  faults' \in 0..MaxFaults /\ faults' = faults + 1
  BY SomeCounts DEF Fault

LEMMA EndType ==
  ASSUME TypeOK, NEW c \in Clients, Return(c),
         UNCHANGED <<queueVars, reservations, drainVars>>,
         concurrent' \in 0..QuotaCap, faults' \in 0..MaxFaults
  PROVE  TypeOK'
  <1>1. CallType' /\ DrainType' /\ QueueType'
    BY TypeParts, ReturnType, DrainKept, QueueTypeKept
  <1>2. QuotaType'
    BY TypeParts, QueueTypeKept DEF QuotaType
  <1> QED
    BY <1>1, <1>2, TypeNext

(* An error of queue.submit.                                                *)
LEMMA ErrorInv ==
  ASSUME ReservationInv, NEW c \in Admitted, SubmitError(c),
         UNCHANGED <<queueVars, reservations, drainVars>>,
         \/ cpc[c] \notin {"reload", "record"} /\ UNCHANGED faults
         \/ Fault
  PROVE  ReservationInv'
  <1>1. TypeOK /\ c \in Clients /\ Return(c) /\ QuotaRelease
    BY DEF ReservationInv, Admitted, SubmitError
  <1>2. concurrent' \in 0..QuotaCap /\ UNCHANGED <<state, key, reservations>>
    BY <1>1, Released DEF queueVars
  <1>3. faults' \in 0..MaxFaults /\ (faults' = faults \/ faults' = faults + 1)
    BY <1>1, SomeCounts, Erred
  <1>4. TypeOK'
    BY <1>1, <1>2, <1>3, EndType
  <1>5. \/ cpc[c] \notin {"reload", "record"} /\ faults' >= faults
        \/ faults' = faults + 1
    BY <1>1, SomeCounts, Erred
  <1> QED
    BY <1>1, <1>2, <1>4, <1>5, CallEnds

LEMMA AdmitInv ==
  ASSUME ReservationInv, NEW c \in Clients, SubmitAdmit(c)
  PROVE  ReservationInv'
  <1>1. /\ TypeOK /\ Targets /\ UnitsSuffice /\ CallType /\ QuotaType
        /\ cpc[c] = "admit" /\ UNCHANGED <<queueVars, reservations, drainVars, faults>>
    BY TypeParts DEF SubmitAdmit, ReservationInv
  <1>2. faults' \in 0..MaxFaults /\ faults' >= faults
    BY <1>1, SomeCounts
  <1>3. CASE Return(c) /\ UNCHANGED concurrent
    <2>1. CallType' /\ cpc'[c] = "idle" /\ Others(c)
      BY <1>1, <1>3, ReturnType DEF Others
    <2>2. UNCHANGED <<queueVars, quotaVars, drainVars>>
      BY <1>1, <1>3 DEF quotaVars
    <2> QED
      BY <1>1, <1>2, <2>1, <2>2, DrainKept, QuietStep DEF Named, UnitPlaces
  <1>4. CASE /\ HasCapacity /\ concurrent' = concurrent + 1
             /\ Goto(c, "flag") /\ UNCHANGED <<want, target, active>>
    <2>1. CallType' /\ cpc'[c] = "flag" /\ want'[c] = want[c] /\ Others(c)
      BY <1>1, <1>4, Moves DEF Places
    <2>2. concurrent' \in 0..QuotaCap
      BY <1>1, <1>4, SomeCounts DEF HasCapacity
    <2>3. TypeOK'
      <3>1. DrainType' /\ QueueType'
        BY <1>1, DrainKept, QueueTypeKept
      <3>2. QuotaType'
        BY <1>1, <2>2, QueueTypeKept DEF QuotaType
      <3> QED
        BY <1>2, <2>1, <3>1, <3>2, TypeNext
    <2>4. Named(c)'
      BY <1>1, <2>1 DEF Targets, Named
    <2>5. Targets'
      BY <1>1, <2>1, <2>4, QueueTypeKept, TargetsKept, TargetsParts
    <2>6. Admitted' = Admitted \cup {c} /\ c \notin Admitted
      BY <1>1, <2>1, AdmittedMoves DEF Admitted
    <2>7. IsFiniteSet(Admitted') /\ Cardinality(Admitted') = Cardinality(Admitted) + 1
      BY <1>1, <2>6, FS_AddElement DEF UnitsSuffice
    <2>8. Unpaid' \subseteq Unpaid \cup {}
      <3>1. \A d \in Clients : cpc[d] \in {"reload", "record"} =>
               cpc'[d] \in {"reload", "record"} /\ target'[d] = target[d]
        BY <1>1, <2>1 DEF Others
      <3>2. \A j \in Unfinished' : j \in Unfinished
        BY <1>1, QueueTypeKept
      <3> QED
        BY <1>1, <3>1, <3>2, UnpaidWithin
    <2>9. Cardinality(Unpaid') \in Nat /\ Cardinality(Unpaid') <= Cardinality(Unpaid)
      BY <1>1, <2>3, <2>8, FiniteParts, FS_Subset, FS_CardinalityType
    <2>10. UnitsSuffice' =
            /\ IsFiniteSet(Admitted')
            /\ Cardinality(reservations') + Cardinality(Admitted') <= concurrent'
            /\ Cardinality(Unpaid') + Cardinality(reservations')
                 + Cardinality(Admitted') <= concurrent' + faults'
      BY DEF UnitsSuffice
    <2>11. UnitsSuffice'
      BY <1>1, <1>4, <2>7, <2>9, <2>10, FiniteParts DEF UnitsSuffice
    <2> QED
      BY <2>3, <2>5, <2>11 DEF ReservationInv
  <1> QED
    BY <1>3, <1>4 DEF SubmitAdmit

LEMMA FlagInv ==
  ASSUME ReservationInv, NEW c \in Clients, SubmitFlag(c)
  PROVE  ReservationInv'
  <1>1. /\ TypeOK /\ Targets /\ CallType /\ c \in Admitted
        /\ cpc[c] = "flag" /\ UNCHANGED <<queueVars, reservations, drainVars, faults>>
    BY TypeParts DEF SubmitFlag, ReservationInv, Admitted
  <1>2. CASE SubmitError(c)
    BY <1>1, <1>2, ErrorInv
  <1>3. CASE Goto(c, "insert") /\ UNCHANGED <<concurrent, want, target, active>>
    <2>1. CallType' /\ cpc'[c] = "insert" /\ want'[c] = want[c] /\ Others(c)
      BY <1>1, <1>3, Moves DEF Places
    <2>2. UNCHANGED <<queueVars, quotaVars>> /\ DrainType'
      BY <1>1, <1>3, DrainKept DEF quotaVars
    <2>3. faults' \in 0..MaxFaults /\ faults' >= faults
      BY <1>1, SomeCounts
    <2>4. Named(c)'
      BY <1>1, <2>1 DEF Targets, Named
    <2> QED
      BY <1>1, <2>1, <2>2, <2>3, <2>4, QuietStep DEF UnitPlaces
  <1> QED
    BY <1>2, <1>3 DEF SubmitFlag

(* Accepted or found, the job is the one the call now stands for.          *)
LEMMA InsertInv ==
  ASSUME ReservationInv, NEW c \in Clients, SubmitInsert(c)
  PROVE  ReservationInv'
  <1>1. /\ TypeOK /\ Targets /\ CallType /\ QueueType /\ c \in Admitted
        /\ cpc[c] = "insert" /\ UNCHANGED <<queueDrain, reservations, drainVars>>
        /\ want[c] # NoKey /\ want[c] \in AllKeys
    BY TypeParts
       DEF SubmitInsert, ReservationInv, Admitted, Targets, CallType
  <1>2. ASSUME NEW j \in JobsOf(want[c]),
               target' = [target EXCEPT ![c] = j], Goto(c, "reload"),
               UNCHANGED <<state, key, concurrent, want, active, faults>>
        PROVE  ReservationInv'
    <2>0. j \in JobId /\ state[j] # "ABSENT"
      BY <1>1 DEF JobsOf, Targets
    <2>1. CallType' /\ cpc'[c] = "reload" /\ Others(c)
      BY <1>1, <1>2, <2>0, JobIdFinite, Moves DEF Places
    <2>2. target'[c] = j
      BY <1>1, <1>2 DEF CallType
    <2>3. UNCHANGED <<queueVars, quotaVars>> /\ DrainType'
      BY <1>1, <1>2, DrainKept DEF quotaVars, queueVars
    <2>4. faults' \in 0..MaxFaults /\ faults' >= faults
      BY <1>1, <1>2, SomeCounts
    <2>5. Named(c)'
      BY <1>2, <2>0, <2>1, <2>2 DEF Named
    <2> QED
      BY <1>1, <2>1, <2>3, <2>4, <2>5, QuietStep DEF UnitPlaces
  <1>3. ASSUME NEW j \in JobId, Queue!Accept(j),
               key' = [key EXCEPT ![j] = want[c]],
               target' = [target EXCEPT ![c] = j], Goto(c, "reload"),
               UNCHANGED <<concurrent, want, active, faults>>
        PROVE  ReservationInv'
    <2>1. CallType' /\ cpc'[c] = "reload" /\ Others(c)
      BY <1>1, <1>3, JobIdFinite, Moves DEF Places
    <2>2. target'[c] = j /\ j \in Inserted'
      BY <1>1, <1>3, <2>1 DEF CallType, Inserted
    <2>3. /\ state' \in [JobId -> {"ABSENT", "PENDING", "RUNNING"} \cup Terminal]
          /\ JobsStay /\ state'[j] = "PENDING"
          /\ \A i \in Unfinished' : i \in Unfinished \/ i = j
      BY <1>1, <1>3, QueueMoves DEF JobsStay
    <2>4. QueueType'
      BY <1>1, <1>3, <2>3 DEF QueueType
    <2>5. Keyed'
      BY <1>1, <1>3, <2>3 DEF Keyed, Targets, JobsStay, QueueType
    <2>6. Named(c)'
      BY <1>3, <2>1, <2>2, <2>3 DEF Named
    <2>7. UNCHANGED quotaVars /\ DrainType'
      BY <1>1, <1>3, DrainKept DEF quotaVars
    <2>8. QuotaType'
      BY <1>1, <2>3, <2>7, TypeParts DEF QuotaType, quotaVars, JobsStay
    <2>9. TypeOK' /\ faults' >= faults
      BY <1>1, <1>3, <2>1, <2>4, <2>7, <2>8, TypeNext, SomeCounts
    <2>10. (c \in Admitted') = (c \in Admitted)
      BY <1>1, <2>1 DEF Admitted
    <2>11. \A i \in Unfinished' : i \in Unfinished \/ i \in Inserted'
      BY <2>2, <2>3
    <2> QED
      BY <1>1, <2>1, <2>3, <2>5, <2>6, <2>7, <2>9, <2>10, <2>11, QuietCall
  <1>4. ASSUME SubmitError(c), UNCHANGED <<state, key>>,
               UNCHANGED faults \/ Fault
        PROVE  ReservationInv'
    BY <1>1, <1>4, ErrorInv DEF queueVars
  <1> QED
    BY <1>2, <1>3, <1>4 DEF SubmitInsert

LEMMA ReloadInv ==
  ASSUME ReservationInv, NEW c \in Clients, SubmitReload(c)
  PROVE  ReservationInv'
  <1>1. /\ TypeOK /\ Targets /\ CallType /\ c \in Admitted
        /\ cpc[c] = "reload" /\ UNCHANGED <<queueVars, reservations, drainVars>>
    BY TypeParts DEF SubmitReload, ReservationInv, Admitted
  <1>2. CASE Fault /\ SubmitError(c)
    BY <1>1, <1>2, ErrorInv
  <1>3. CASE Goto(c, "record") /\ UNCHANGED <<concurrent, want, target, active, faults>>
    <2>1. CallType' /\ cpc'[c] = "record" /\ Others(c)
      BY <1>1, <1>3, Moves DEF Places
    <2>2. UNCHANGED <<queueVars, quotaVars>> /\ DrainType'
      BY <1>1, <1>3, DrainKept DEF quotaVars
    <2>3. faults' \in 0..MaxFaults /\ faults' >= faults
      BY <1>1, <1>3, SomeCounts
    <2>4. Named(c)' /\ target'[c] = target[c]
      BY <1>1, <1>3, <2>1 DEF Targets, Named, queueVars
    <2> QED
      BY <1>1, <2>1, <2>2, <2>3, <2>4, QuietStep DEF UnitPlaces
  <1> QED
    BY <1>2, <1>3 DEF SubmitReload

(* The unit of the call becomes the job's: or is lost, if it had one.      *)
LEMMA RecordInv ==
  ASSUME ReservationInv, NEW c \in Clients, SubmitRecord(c)
  PROVE  ReservationInv'
  <1>1. /\ TypeOK /\ Targets /\ CallType /\ UnitsSuffice /\ QuotaType
        /\ cpc[c] = "record" /\ c \in Admitted
        /\ UNCHANGED <<queueVars, concurrent, drainVars, faults>>
        /\ Return(c) /\ reservations' = reservations \cup {target[c]}
    BY TypeParts DEF SubmitRecord, ReservationInv, Admitted
  <1>2. target[c] \in JobId /\ state[target[c]] # "ABSENT"
    BY <1>1 DEF Targets
  <1>3. CallType' /\ cpc'[c] = "idle" /\ Others(c)
    BY <1>1, ReturnType DEF Others
  <1>4. TypeOK'
    <2>1. QuotaType'
      BY <1>1, <1>2, QueueTypeKept DEF QuotaType
    <2> QED
      BY <1>1, <1>3, <2>1, DrainKept, QueueTypeKept, TypeNext, SomeCounts
  <1>5. Targets'
    BY <1>1, <1>3, QueueTypeKept, TargetsKept, TargetsParts DEF Named
  <1>6. Admitted' = Admitted \ {c}
    BY <1>3, AdmittedMoves DEF Admitted
  <1>7. /\ IsFiniteSet(Admitted')
        /\ Cardinality(Admitted') = Cardinality(Admitted) - 1
    BY <1>1, <1>6, FS_RemoveElement DEF UnitsSuffice
  <1>8. /\ Cardinality(reservations') \in Nat
        /\ Cardinality(reservations') <= Cardinality(reservations) + 1
    <2>1. Cardinality(reservations') \in {Cardinality(reservations),
                                           Cardinality(reservations) + 1}
      BY <1>1, FiniteParts, FS_AddElement
    <2> QED
      BY <1>1, <2>1, FiniteParts
  <1>9. Unpaid' \subseteq Unpaid \cup {}
    <2>1. \A d \in Clients : cpc[d] \in {"reload", "record"} =>
             \/ cpc'[d] \in {"reload", "record"} /\ target'[d] = target[d]
             \/ target[d] \in {} \cup reservations'
      BY <1>1, <1>3 DEF Others
    <2>2. \A j \in Unfinished' : j \in Unfinished
      BY <1>1, QueueTypeKept
    <2> QED
      BY <1>1, <2>1, <2>2, UnpaidWithin
  <1>10. Cardinality(Unpaid') \in Nat /\ Cardinality(Unpaid') <= Cardinality(Unpaid)
    BY <1>1, <1>4, <1>9, FiniteParts, FS_Subset, FS_CardinalityType
  <1>11. UnitsSuffice' =
          /\ IsFiniteSet(Admitted')
          /\ Cardinality(reservations') + Cardinality(Admitted') <= concurrent'
          /\ Cardinality(Unpaid') + Cardinality(reservations')
               + Cardinality(Admitted') <= concurrent' + faults'
    BY DEF UnitsSuffice
  <1>12. UnitsSuffice'
    BY <1>1, <1>7, <1>8, <1>10, <1>11, FiniteParts DEF UnitsSuffice
  <1> QED
    BY <1>4, <1>5, <1>12 DEF ReservationInv

LEMMA StatusInv ==
  ASSUME ReservationInv, NEW c \in Clients, NEW j \in JobId,
         StatusRead(c, j) \/ CancelRead(c, j)
  PROVE  ReservationInv'
  <1>1. /\ TypeOK /\ CallType /\ cpc[c] = "idle"
        /\ UNCHANGED <<queueVars, quotaVars, drainVars, want, active, faults>>
        /\ target' = [target EXCEPT ![c] = j]
    BY TypeParts DEF StatusRead, CancelRead, Call, ReservationInv
  <1>2. target'[c] = j
    BY <1>1 DEF CallType
  <1>3. DrainType' /\ faults' \in 0..MaxFaults /\ faults' >= faults
    BY <1>1, DrainKept, SomeCounts
  <1>4. CASE StatusRead(c, j)
    <2>1. CallType' /\ cpc'[c] = "release" /\ Others(c)
      BY <1>1, <1>4, JobIdFinite, Moves DEF Places, StatusRead
    <2>2. Named(c)'
      BY <1>1, <1>2, <1>4, <2>1 DEF Named, StatusRead, queueVars
    <2> QED
      BY <1>1, <1>3, <2>1, <2>2, QuietStep DEF UnitPlaces
  <1>5. CASE CancelRead(c, j)
    <2>1. CallType' /\ cpc'[c] = "cancel" /\ Others(c)
      BY <1>1, <1>5, JobIdFinite, Moves DEF Places, CancelRead
    <2>2. Named(c)'
      BY <1>1, <1>2, <1>5, <2>1
         DEF Named, CancelRead, queueVars, Unfinished, Queue!Unfinished
    <2> QED
      BY <1>1, <1>3, <2>1, <2>2, QuietStep DEF UnitPlaces
  <1> QED
    BY <1>4, <1>5

LEMMA CancelInv ==
  ASSUME ReservationInv, NEW c \in Clients, CancelUpdate(c)
  PROVE  ReservationInv'
  <1>1. /\ TypeOK /\ CallType /\ Targets /\ cpc[c] = "cancel"
        /\ QueueType /\ Keyed
        /\ UNCHANGED <<key, queueDrain, quotaVars, drainVars>>
        /\ target[c] \in JobId /\ state[target[c]] # "ABSENT"
    BY TypeParts, TargetsParts DEF CancelUpdate, ReservationInv, Targets
  <1>2. CASE /\ Queue!Cancel(target[c]) /\ Goto(c, "release")
             /\ UNCHANGED <<want, target, active, faults>>
    <2>1. CallType' /\ cpc'[c] = "release" /\ Others(c) /\ target' = target
      BY <1>1, <1>2, Moves DEF Places
    <2>2. /\ state' \in [JobId -> {"ABSENT", "PENDING", "RUNNING"} \cup Terminal]
          /\ JobsStay
      BY <1>1, <1>2, QueueMoves DEF JobsStay
    <2>3. /\ state'[target[c]] \in Terminal
          /\ \A i \in Unfinished' : i \in Unfinished
      BY <1>1, <1>2
         DEF QueueType, Queue!Cancel, Terminal, Unfinished, Queue!Unfinished
    <2>4. QueueType' /\ Keyed'
      BY <1>1, <2>2 DEF QueueType, Keyed, JobsStay
    <2>5. UNCHANGED quotaVars /\ DrainType' /\ QuotaType'
      BY <1>1, <2>2, DrainKept, TypeParts DEF QuotaType, quotaVars, JobsStay
    <2>6. TypeOK' /\ faults' >= faults
      BY <1>1, <1>2, <2>1, <2>4, <2>5, TypeNext, SomeCounts
    <2>7. Named(c)'
      BY <1>1, <2>1, <2>3 DEF Named
    <2>8. (c \in Admitted') = (c \in Admitted)
      BY <1>1, <2>1 DEF Admitted
    <2> QED
      BY <1>1, <2>1, <2>2, <2>3, <2>4, <2>5, <2>6, <2>7, <2>8, QuietCall
  <1>3. CASE /\ target[c] \notin Unfinished /\ Goto(c, "release")
             /\ UNCHANGED <<state, want, target, active, faults>>
    <2>1. CallType' /\ cpc'[c] = "release" /\ Others(c) /\ target' = target
      BY <1>1, <1>3, Moves DEF Places
    <2>2. state'[target[c]] \in Terminal
      BY <1>1, <1>3
         DEF QueueType, Terminal, Unfinished, Queue!Unfinished, JobId
    <2>3. Named(c)'
      BY <1>1, <2>1, <2>2 DEF Named
    <2>4. UNCHANGED <<queueVars, quotaVars>> /\ DrainType'
      BY <1>1, <1>3, DrainKept DEF queueVars
    <2>5. faults' \in 0..MaxFaults /\ faults' >= faults
      BY <1>1, <1>3, SomeCounts
    <2> QED
      BY <1>1, <2>1, <2>3, <2>4, <2>5, QuietStep DEF UnitPlaces
  <1>4. CASE Fault /\ Return(c) /\ UNCHANGED state
    <2>1. CallType' /\ cpc'[c] = "idle" /\ Others(c)
      BY <1>1, <1>4, ReturnType DEF Others
    <2>2. UNCHANGED <<queueVars, quotaVars>> /\ DrainType'
      BY <1>1, <1>4, DrainKept DEF queueVars
    <2>3. faults' \in 0..MaxFaults /\ faults' >= faults
      BY <1>1, <1>4, SomeCounts DEF Fault
    <2> QED
      BY <1>1, <2>1, <2>2, <2>3, QuietStep DEF Named, UnitPlaces
  <1> QED
    BY <1>2, <1>3, <1>4 DEF CancelUpdate

(* Both the reservation and its unit go.                                    *)
LEMMA ReleaseInv ==
  ASSUME ReservationInv, NEW c \in Clients, ReleaseReservation(c)
  PROVE  ReservationInv'
  <1>1. /\ TypeOK /\ CallType /\ Targets /\ UnitsSuffice /\ QuotaType
        /\ cpc[c] = "release" /\ c \notin Admitted
        /\ Return(c) /\ UNCHANGED <<queueVars, drainVars, faults>>
        /\ target[c] \in JobId /\ state[target[c]] \in Terminal
    BY TypeParts DEF ReleaseReservation, ReservationInv, Targets, Admitted
  <1>2. CallType' /\ cpc'[c] = "idle" /\ Others(c) /\ DrainType'
        /\ faults' \in 0..MaxFaults /\ faults' = faults
    BY <1>1, ReturnType, DrainKept, SomeCounts DEF Others
  <1>3. CASE UNCHANGED quotaVars
    BY <1>1, <1>2, <1>3, SomeCounts, QuietStep DEF Named, UnitPlaces
  <1>4. CASE /\ target[c] \in reservations
             /\ reservations' = reservations \ {target[c]}
             /\ QuotaRelease
    <2>1. TypeOK'
      <3>1. QuotaType'
        BY <1>1, <1>4, Released, QueueTypeKept DEF QuotaType
      <3> QED
        BY <1>1, <1>2, <3>1, QueueTypeKept, TypeNext
    <2>2. Targets'
      BY <1>1, <1>2, QueueTypeKept, TargetsKept, TargetsParts DEF Named
    <2>3. Admitted' = Admitted
      BY <1>1, <1>2, AdmittedMoves DEF Admitted
    <2>4. /\ Cardinality(reservations') = Cardinality(reservations) - 1
          /\ Cardinality(reservations') \in Nat
      BY <1>1, <1>4, FiniteParts, FS_RemoveElement, FS_CardinalityType
    <2>5. Unpaid' \subseteq Unpaid \cup {}
      <3>1. \A d \in Clients : cpc[d] \in {"reload", "record"} =>
               cpc'[d] \in {"reload", "record"} /\ target'[d] = target[d]
        BY <1>1, <1>2 DEF Others
      <3>2. \A j \in Unfinished' : j \in Unfinished
        BY <1>1, QueueTypeKept
      <3>3. target[c] \notin Unfinished'
        BY <1>1, QueueTypeKept DEF Unfinished, Queue!Unfinished, Terminal
      <3> QED
        BY <1>4, <3>1, <3>2, <3>3, UnpaidWithin
    <2>6. Cardinality(Unpaid') \in Nat /\ Cardinality(Unpaid') <= Cardinality(Unpaid)
      BY <1>1, <2>1, <2>5, FiniteParts, FS_Subset, FS_CardinalityType
    <2>7. concurrent' = concurrent - 1
      BY <1>1, <1>4, <2>4, FiniteParts DEF UnitsSuffice, QuotaRelease
    <2>8. UnitsSuffice' =
            /\ IsFiniteSet(Admitted')
            /\ Cardinality(reservations') + Cardinality(Admitted') <= concurrent'
            /\ Cardinality(Unpaid') + Cardinality(reservations')
                 + Cardinality(Admitted') <= concurrent' + faults'
      BY DEF UnitsSuffice
    <2>9. UnitsSuffice'
      BY <1>1, <1>2, <2>3, <2>4, <2>6, <2>7, <2>8, FiniteParts DEF UnitsSuffice
    <2> QED
      BY <2>1, <2>2, <2>9 DEF ReservationInv
  <1> QED
    BY <1>3, <1>4 DEF ReleaseReservation

LEMMA DisconnectInv ==
  ASSUME ReservationInv, NEW c \in Clients, Disconnect(c)
  PROVE  ReservationInv'
  <1>1. /\ TypeOK /\ CallType /\ Return(c)
        /\ UNCHANGED <<queueVars, quotaVars, drainVars, faults>>
    BY TypeParts DEF Disconnect, ReservationInv
  <1>2. CallType' /\ cpc'[c] = "idle" /\ Others(c) /\ DrainType'
        /\ faults' \in 0..MaxFaults /\ faults' >= faults
    BY <1>1, ReturnType, DrainKept, SomeCounts DEF Others
  <1>3. CASE c \in Admitted
    <2>1. UNCHANGED <<state, key, concurrent, reservations>>
      BY <1>1 DEF queueVars, quotaVars
    <2>2. TypeOK'
      BY <1>1, <2>1, EndType, SomeCounts
    <2> QED
      BY <1>1, <1>3, <2>1, <2>2, CallEnds
  <1>4. CASE c \notin Admitted
    BY <1>1, <1>2, <1>4, QuietStep DEF Named, UnitPlaces, Admitted
  <1> QED
    BY <1>3, <1>4

LEMMA DrainInv ==
  ASSUME ReservationInv, NEW c \in Clients,
         \/ \E enable \in DrainRequests : DrainCall(c, enable)
         \/ DrainCount(c) \/ DrainComplete(c)
  PROVE  ReservationInv'
  <1>1. TypeOK /\ CallType /\ DrainType /\ QueueType /\ QuotaType
    BY TypeParts DEF ReservationInv
  <1>2. CASE DrainComplete(c)
    <2>1. CallType' /\ cpc'[c] = "idle" /\ Others(c)
      BY <1>1, <1>2, ReturnType DEF Others, DrainComplete
    <2>2. DrainType' /\ UNCHANGED <<queueVars, quotaVars>>
          /\ faults' \in 0..MaxFaults /\ faults' >= faults
      BY <1>1, <1>2, SomeCounts DEF DrainComplete, DrainType
    <2> QED
      BY <1>2, <2>1, <2>2, QuietStep DEF Named, UnitPlaces, DrainComplete
  <1>3. CASE DrainCount(c)
    <2>1. active' \in [Clients -> Nat]
      BY <1>1, <1>3, FiniteParts DEF DrainCount, CallType
    <2>2. CallType' /\ cpc'[c] = "complete"
      BY <1>1, <1>3, <2>1, GotoType DEF Places, DrainCount, CallType
    <2>3. Others(c)
      BY <1>1, <1>3 DEF Others, Goto, CallType, DrainCount
    <2>4. DrainType' /\ UNCHANGED <<queueVars, quotaVars>>
          /\ faults' \in 0..MaxFaults /\ faults' >= faults
      BY <1>1, <1>3, DrainKept, SomeCounts DEF DrainCount, Fault
    <2> QED
      BY <1>3, <2>2, <2>3, <2>4, QuietStep DEF Named, UnitPlaces, DrainCount
  <1>4. ASSUME NEW enable \in DrainRequests, DrainCall(c, enable)
        PROVE  ReservationInv'
    <2>1. CallType' /\ cpc'[c] = "count" /\ Others(c) /\ cpc[c] = "idle"
      BY <1>1, <1>4, Moves DEF Places, DrainCall, Call
    <2>2. DrainType' /\ queueDrain' \in BOOLEAN
      BY <1>1, <1>4 DEF DrainCall, DrainStart, DrainType, QueueType
    <2>3. UNCHANGED <<state, key, quotaVars, faults>>
      BY <1>4 DEF DrainCall
    <2>4. JobsStay /\ Keyed' /\ Unfinished' = Unfinished
      BY <2>3, QueueAlone, TargetsParts DEF ReservationInv
    <2>5. TypeOK' /\ faults' >= faults
      <3>1. QueueType' /\ QuotaType'
        BY <1>1, <2>2, <2>3 DEF QueueType, QuotaType, quotaVars
      <3> QED
        BY <1>1, <2>1, <2>2, <2>3, <3>1, TypeNext, SomeCounts
    <2>6. (c \in Admitted') = (c \in Admitted)
      BY <2>1 DEF Admitted
    <2> QED
      BY <2>1, <2>3, <2>4, <2>5, <2>6, QuietCall DEF Named
  <1> QED
    BY <1>2, <1>3, <1>4

-----------------------------------------------------------------------------
(* The steps of no call.                                                    *)

LEMMA NoCallInv ==
  ASSUME ReservationInv, UNCHANGED <<key, quotaVars, callVars>>,
         QueueType', DrainType', JobsStay,
         \A j \in Unfinished' : j \in Unfinished,
         faults' \in 0..MaxFaults, faults' >= faults
  PROVE  ReservationInv'
  <1>1. TypeOK /\ Targets /\ UnitsSuffice
    BY DEF ReservationInv
  <1>2. /\ UNCHANGED <<cpc, want, target, active>>
        /\ UNCHANGED <<concurrent, reservations>>
    BY DEF callVars, quotaVars
  <1>3. TypeOK'
    <2>1. CallType' /\ QuotaType'
      BY <1>1, <1>2, TypeParts DEF CallType, QuotaType, JobsStay, AllKeys
    <2> QED
      BY <2>1, TypeNext
  <1>4. Targets'
    <2>1. Keyed'
      BY <1>1, TargetsParts DEF Keyed, JobsStay
    <2>2. ASSUME NEW d \in Clients PROVE Named(d)'
      BY <1>1, <1>2, NamedKept, TargetsParts
    <2> QED
      BY <2>1, <2>2 DEF Targets, Keyed, Named
  <1>5. Admitted' = Admitted
    BY <1>2 DEF Admitted
  <1>6. Unpaid' \subseteq Unpaid \cup {}
    BY <1>2, UnpaidWithin
  <1>7. UnitsSuffice'
    BY <1>1, <1>3, <1>5, <1>6, SameUnits
  <1> QED
    BY <1>3, <1>4, <1>7 DEF ReservationInv

LEMMA ServerInv ==
  ASSUME ReservationInv,
         \/ WorkerStep \/ DeadlinePasses \/ CtrlC \/ ShutdownPoll
         \/ ServerStops \/ UNCHANGED vars
         \/ \E c \in Clients : StreamOpen(c) \/ StreamClose(c)
  PROVE  ReservationInv'
  <1>1. TypeOK /\ DrainType /\ QueueType
    BY TypeParts DEF ReservationInv
  <1>2. CASE WorkerStep
    <2>1. PICK j \in JobId : Queue!Start(j) \/ Queue!Finish(j)
      BY <1>2 DEF WorkerStep
    <2>2. UNCHANGED <<key, queueDrain, quotaVars, drainVars, callVars, faults>>
      BY <1>2 DEF WorkerStep
    <2>3. ~Queue!Accept(j)
      BY <1>1, <2>1 DEF Queue!Accept, Queue!Start, Queue!Finish
    <2>4. /\ state' \in [JobId -> {"ABSENT", "PENDING", "RUNNING"} \cup Terminal]
          /\ JobsStay /\ \A i \in Unfinished' : i \in Unfinished
      BY <1>1, <2>1, <2>3, QueueMoves DEF JobsStay
    <2>5. QueueType' /\ DrainType' /\ faults' \in 0..MaxFaults /\ faults' >= faults
      BY <1>1, <2>2, <2>4, DrainKept, SomeCounts DEF QueueType
    <2> QED
      BY <2>2, <2>4, <2>5, NoCallInv
  <1>3. CASE \/ DeadlinePasses \/ CtrlC \/ ShutdownPoll \/ ServerStops
             \/ \E c \in Clients : StreamOpen(c) \/ StreamClose(c)
    <2>1. UNCHANGED <<state, key, quotaVars, callVars>>
      BY <1>3 DEF DeadlinePasses, CtrlC, ShutdownPoll, ServerStops, StreamOpen,
         StreamClose, queueVars
    <2>2. DrainType' /\ queueDrain' \in BOOLEAN
      BY <1>1, <1>3
         DEF DeadlinePasses, CtrlC, ShutdownPoll, ServerStops, StreamOpen,
             StreamClose, queueVars, DrainType, DrainStart, QueueType
    <2>3. faults' \in 0..MaxFaults /\ faults' >= faults
      BY <1>1, <1>3, SomeCounts
         DEF DeadlinePasses, CtrlC, ShutdownPoll, ServerStops, StreamOpen,
             StreamClose, Fault
    <2>4. QueueType'
      BY <1>1, <2>1, <2>2 DEF QueueType
    <2>5. JobsStay /\ Unfinished' = Unfinished
      BY <2>1, QueueAlone
    <2> QED
      BY <2>1, <2>2, <2>3, <2>4, <2>5, NoCallInv
  <1>4. CASE UNCHANGED vars
    <2>1. UNCHANGED <<queueVars, quotaVars, drainVars, callVars, faults>>
      BY <1>4 DEF vars
    <2>2. QueueType' /\ DrainType' /\ JobsStay /\ Unfinished' = Unfinished
          /\ UNCHANGED key
      BY <1>1, <2>1, QueueTypeKept, DrainKept DEF queueVars
    <2>3. faults' \in 0..MaxFaults /\ faults' >= faults
      BY <1>1, <2>1, SomeCounts
    <2> QED
      BY <2>1, <2>2, <2>3, NoCallInv
  <1> QED
    BY <1>2, <1>3, <1>4

LEMMA ReservationInit ==
  Init => ReservationInv
  <1> SUFFICES ASSUME Init PROVE ReservationInv
    OBVIOUS
  <1> USE DEF Init
  <1>1. TypeOK
    <2>1. QueueType
      BY DEF QueueType
    <2>2. QuotaType /\ faults \in 0..MaxFaults
      BY SomeCounts DEF QuotaType
    <2>3. DrainType
      BY DEF DrainType
    <2>4. CallType
      BY ControlAssumption DEF CallType, Places, ControlAssumption
    <2> QED
      BY <2>1, <2>2, <2>3, <2>4, TypeParts
  <1>2. Targets
    BY DEF Targets
  <1>3. Admitted = {} /\ Unpaid = {} /\ reservations = {}
    BY DEF Admitted, Unpaid, Unfinished, Queue!Unfinished, JobId
  <1>4. UnitsSuffice
    BY <1>3, FS_EmptySet DEF UnitsSuffice
  <1> QED
    BY <1>1, <1>2, <1>4 DEF ReservationInv

LEMMA ReservationStep ==
  ReservationInv /\ [Next]_vars => ReservationInv'
  BY FindInv, AdmitInv, FlagInv, InsertInv, ReloadInv, RecordInv, StatusInv,
     CancelInv, ReleaseInv, DisconnectInv, DrainInv, ServerInv
     DEF Next, ClientStep

-----------------------------------------------------------------------------
(* Each call stands for one job at most.                                    *)
LEMMA InsertedBounded ==
  ASSUME ReservationInv
  PROVE  /\ IsFiniteSet(Inserted) /\ Cardinality(Inserted) \in Nat
         /\ Cardinality(Inserted) <= Cardinality(Admitted)
  <1> DEFINE D == {d \in Clients : cpc[d] \in {"reload", "record"}}
             f == [d \in D |-> target[d]]
  <1>1. IsFiniteSet(Admitted) /\ Cardinality(Admitted) \in Nat
    BY FiniteParts DEF ReservationInv, UnitsSuffice
  <1>2. D \subseteq Admitted
    BY DEF Admitted
  <1>3. IsFiniteSet(D) /\ Cardinality(D) \in Nat
        /\ Cardinality(D) <= Cardinality(Admitted)
    BY <1>1, <1>2, FS_Subset, FS_CardinalityType
  <1>4. f \in Surjection(D, Inserted)
    BY DEF Surjection, Inserted
  <1>5. IsFiniteSet(Inserted) /\ Cardinality(Inserted) <= Cardinality(D)
    BY <1>3, <1>4, FS_Surjection
  <1> QED
    BY <1>1, <1>3, <1>5, FS_CardinalityType

LEMMA InvSuffices ==
  ReservationInv => QuotaNotUndercounted
  <1> SUFFICES ASSUME ReservationInv PROVE QuotaNotUndercounted
    OBVIOUS
  <1> DEFINE u == Cardinality(Unpaid)
             r == Cardinality(reservations)
             a == Cardinality(Admitted)
             i == Cardinality(Inserted)
             Held == reservations \cup Inserted
             All  == Unpaid \cup Held
  <1>1. /\ u \in Nat /\ r \in Nat /\ a \in Nat /\ i \in Nat /\ i <= a
        /\ concurrent \in Nat /\ faults \in Nat /\ concurrent <= QuotaCap
        /\ QuotaCap \in Nat
        /\ IsFiniteSet(Unpaid) /\ IsFiniteSet(reservations)
        /\ IsFiniteSet(Inserted)
    BY FiniteParts, InsertedBounded, SomeCounts DEF ReservationInv, UnitsSuffice
  <1>2. r + a <= concurrent /\ u + r + a <= concurrent + faults
    BY DEF ReservationInv, UnitsSuffice
  <1>3. /\ IsFiniteSet(Held)
        /\ Cardinality(Held) = r + i - Cardinality(reservations \cap Inserted)
        /\ Cardinality(reservations \cap Inserted) \in Nat
    BY <1>1, FS_Union, FS_Intersection, FS_CardinalityType
  <1>4. /\ IsFiniteSet(All)
        /\ Cardinality(All) = u + Cardinality(Held) - Cardinality(Unpaid \cap Held)
        /\ Cardinality(Unpaid \cap Held) \in Nat
    BY <1>1, <1>3, FS_Union, FS_Intersection, FS_CardinalityType
  <1>5. Unfinished \subseteq All
    BY DEF Unpaid
  <1>6. /\ Cardinality(Unfinished) \in Nat
        /\ Cardinality(Unfinished) <= Cardinality(All)
    BY <1>4, <1>5, FS_Subset, FS_CardinalityType
  <1> HIDE DEF u, r, a, i, Held, All
  <1>7. Cardinality(Unfinished) <= QuotaCap + faults
    BY <1>1, <1>2, <1>3, <1>4, <1>6
  <1> QED
    BY <1>2, <1>7 DEF QuotaNotUndercounted, r, a

(* server.rs: no unit of the quota is given back twice, and the jobs that  *)
(* are unfinished stay within the cap, one more for every database error,  *)
(* whatever calls overlap and whichever of them are dropped.               *)
THEOREM QuotaInv ==
  Spec => []QuotaNotUndercounted
  <1>1. Spec => []ReservationInv
    BY ReservationInit, ReservationStep, PTL DEF Spec
  <1> QED
    BY <1>1, InvSuffices, PTL

(* release_reservation_if_terminal: a reservation is only given up for a   *)
(* job that is finished at that moment, not one that was when it was read. *)
THEOREM ReservationKept ==
  Spec => ReservationUntilTerminal
  <1> DEFINE Given == \A j \in reservations \ reservations' : state[j] \in Terminal
  <1>1. Spec => []ReservationInv
    BY ReservationInit, ReservationStep, PTL DEF Spec
  <1>2. ASSUME ReservationInv, [Next]_vars
        PROVE  [Given]_vars
    <2>1. CASE \E c \in Clients : ReleaseReservation(c)
      <3>1. PICK c \in Clients : ReleaseReservation(c)
        BY <2>1
      <3>2. state[target[c]] \in Terminal
        BY <1>2, <3>1 DEF ReleaseReservation, ReservationInv, Targets
      <3>3. reservations \ reservations' \subseteq {target[c]}
        BY <3>1 DEF ReleaseReservation, quotaVars
      <3> QED
        BY <3>2, <3>3
    <2>2. CASE ~\E c \in Clients : ReleaseReservation(c)
      <3>1. reservations \subseteq reservations'
        BY <1>2, <2>2
           DEF Next, ClientStep, vars, quotaVars, SubmitFind, SubmitAdmit,
               SubmitFlag, SubmitInsert, SubmitReload, SubmitRecord, StatusRead,
               CancelRead, CancelUpdate, Disconnect, DrainCall, DrainCount,
               DrainComplete, WorkerStep, DeadlinePasses, CtrlC, ShutdownPoll,
               ServerStops, StreamOpen, StreamClose
      <3> QED
        BY <3>1
    <2> QED
      BY <2>1, <2>2
  <1> HIDE DEF Given
  <1>3. ReservationInv /\ [Next]_vars => [Given]_vars
    BY <1>2
  <1>4. Spec => [][Given]_vars
    BY <1>1, <1>3, PTL DEF Spec
  <1> QED
    BY <1>4 DEF ReservationUntilTerminal, Given
=============================================================================
