--------------------------- MODULE Server_proofs ----------------------------
(***************************************************************************)
(* What the client keeps of the server, and the server of the client: for  *)
(* any controls, devices, readings, subscriptions and losses nothing is    *)
(* handled or created twice, nothing is posted to another, and what is     *)
(* subscribed to, pushed and reported is what happened.                    *)
(***************************************************************************)
EXTENDS ControlPoller, Metering, Registration, SubscriptionSync, SubscriptionChain,
        NotificationPush, Reporting, Integers, SequenceTheorems, FiniteSetTheorems,
        WellFoundedInduction, TLAPS

-----------------------------------------------------------------------------
(***************************************************************************)
(* Sets of numbers.                                                        *)
(***************************************************************************)
\* The order of the numbers as a set of pairs.
NatLess == {ss \in Nat \X Nat : ss[1] < ss[2]}

\* The order of the numbers has no endless descent.
LEMMA NatLessIsWellFounded == IsWellFoundedOn(NatLess, Nat)
<1>1. OpToRel(<, Nat) = NatLess
  BY Zenon DEF OpToRel, NatLess
<1>2. QED
  BY <1>1, NatLessThanWellFounded

\* A set of numbers has a smallest one.
LEMMA SmallestExists ==
    ASSUME NEW S \in SUBSET Nat, S # {}
    PROVE  \E x \in S : \A y \in S : x =< y
<1>1. \E x \in S : \A y \in S : ~ (<<y, x>> \in NatLess)
  BY NatLessIsWellFounded, WFMin
<1>2. PICK x \in S : \A y \in S : ~ (<<y, x>> \in NatLess)
  BY <1>1
<1>3. \A y \in S : ~ (y < x)
  BY <1>2 DEF NatLess
<1>4. QED
  BY <1>3

\* A bounded one has a largest one.
LEMMA LargestExists ==
    ASSUME NEW n \in Nat, NEW S \in SUBSET (0..n), S # {}
    PROVE  \E x \in S : \A y \in S : x >= y
<1> DEFINE T == {n - x : x \in S}
<1>1. T \in SUBSET Nat /\ T # {}
  <2>1. \A x \in S : n - x \in Nat
    OBVIOUS
  <2>2. PICK x : x \in S
    OBVIOUS
  <2>3. n - x \in T
    BY <2>2
  <2>4. QED
    BY <2>1, <2>3
<1>2. PICK t \in T : \A u \in T : t =< u
  BY <1>1, SmallestExists
<1>3. PICK x \in S : t = n - x
  OBVIOUS
<1>4. \A y \in S : n - x =< n - y
  BY <1>2, <1>3
<1>5. QED
  BY <1>4

-----------------------------------------------------------------------------
(***************************************************************************)
(* The polling of controls.                                                *)
(***************************************************************************)
CpBehaviour == CpInit /\ [][CpNext]_cpVars

\* What is left of a batch has no control twice and none that is marked, except the one whose
\* callback is awaited; and the marks are the last controls that were handled.
Remaining ==
    /\ cpBatch \in Seq(CpControls) /\ IsInjective(cpBatch)
    /\ cpTask \in {"handle", "callback"} => cpBatch # << >>
    /\ cpTask = "handle" => Range(cpBatch) \cap Range(cpProcessed) = {}
    /\ cpTask = "callback" =>
           \A i \in DOMAIN cpBatch : i > 1 => cpBatch[i] \notin Range(cpProcessed)

Marks == cpProcessed \in Seq(CpControls) /\ cpLast = cpProcessed

CpInv == Remaining /\ Marks /\ PollerSafe

\* A list of the server is a sequence.
LEMMA ListsAreSequences == ASSUME NEW s \in Lists PROVE s \in Seq(CpControls) /\ IsInjective(s)
BY DEF Lists, Injection

\* What follows the first control of a batch has no control twice and not the first one.
LEMMA TailOfBatch ==
    ASSUME NEW s \in Seq(CpControls), s # << >>, IsInjective(s)
    PROVE  /\ Tail(s) \in Seq(CpControls) /\ IsInjective(Tail(s))
           /\ Head(s) \in CpControls /\ Head(s) = s[1] /\ 1 \in DOMAIN s
           /\ \A i \in DOMAIN Tail(s) : i + 1 \in DOMAIN s /\ i + 1 > 1 /\ Tail(s)[i] = s[i + 1]
           /\ (Tail(s) = << >>) <=> (Len(s) = 1)
           /\ \A i \in DOMAIN s : i > 1 => s[i] # Head(s)
<1>1. Len(s) \in Nat \ {0} /\ DOMAIN s = 1..Len(s) /\ \A i \in 1..Len(s) : s[i] \in CpControls
  BY EmptySeq
<1>2. /\ Tail(s) \in Seq(CpControls) /\ Len(Tail(s)) = Len(s) - 1
      /\ DOMAIN Tail(s) = 1..(Len(s) - 1) /\ \A i \in 1..(Len(s) - 1) : Tail(s)[i] = s[i + 1]
  BY <1>1, HeadTailProperties
<1>3. Head(s) = s[1]
  BY <1>1
<1>4. IsInjective(Tail(s))
  BY <1>1, <1>2 DEF IsInjective
<1>5. (Tail(s) = << >>) <=> (Len(s) = 1)
  <2>1. Tail(s) # << >> => Len(Tail(s)) \in Nat \ {0}
    BY <1>2, EmptySeq
  <2>2. Tail(s) = << >> => Len(Tail(s)) = 0
    BY EmptySeq
  <2>3. QED
    BY <1>1, <1>2, <2>1, <2>2
<1>6. QED
  BY <1>1, <1>2, <1>3, <1>4, <1>5 DEF IsInjective

\* The marks that are left are the new one and old ones.
LEMMA MarksThatAreLeft ==
    ASSUME NEW s \in Seq(CpControls), NEW c \in CpControls,
           NEW t, t = IF Len(Append(s, c)) > Retention THEN Tail(Append(s, c)) ELSE Append(s, c)
    PROVE  t \in Seq(CpControls) /\ Range(t) \subseteq Range(s) \cup {c}
<1> DEFINE all == Append(s, c)
<1>1. all \in Seq(CpControls) /\ all # << >>
  BY AppendProperties
<1>2. \A i \in DOMAIN all : all[i] \in Range(s) \cup {c}
  BY DEF Range
<1>3. CASE t = all
  BY <1>1, <1>2, <1>3 DEF Range
<1>4. CASE t = Tail(all)
  <2> HIDE DEF all
  <2>1. Tail(all) \in Seq(CpControls)
        /\ \A i \in DOMAIN Tail(all) : i + 1 \in DOMAIN all /\ Tail(all)[i] = all[i + 1]
    BY <1>1
  <2>2. QED
    BY <1>2, <1>4, <2>1 DEF Range
<1>5. QED
  BY <1>3, <1>4

\* Both ways to remember the last controls are the same.
LEMMA LastIsMarked ==
    ASSUME NEW s \in Seq(CpControls), NEW c \in CpControls
    PROVE  LastOf(Append(s, c)) =
               IF Len(Append(s, c)) > Retention THEN Tail(Append(s, c)) ELSE Append(s, c)
BY DEF LastOf

\* Nothing is marked or left at first.
LEMMA CpInitially == CpInit => CpInv
BY DEF CpInit, CpInv, Remaining, Marks, PollerSafe, IsInjective, Range


\* Every step hands over what is not marked and marks what is handed over.
LEMMA CpPreserved == CpInv /\ [CpNext]_cpVars => CpInv'
<1> SUFFICES ASSUME CpInv, [CpNext]_cpVars PROVE CpInv'
  OBVIOUS
<1> USE DEF CpInv, Remaining, Marks, PollerSafe
<1>1. CASE CpStart \/ CpWakes
  BY <1>1 DEF CpStart, CpWakes, cpHistory
<1>2. CASE CpGot
  <2>1. CASE \E new \in Lists :
                /\ Range(new) \cap Range(cpProcessed) = {}
                /\ cpBatch' = new
                /\ cpTask' = IF new = << >> THEN "sleep" ELSE "handle"
                /\ UNCHANGED cpPath
    BY <1>2, <2>1, ListsAreSequences DEF CpGot, cpHistory
  <2>2. CASE ~(\E new \in Lists :
                /\ Range(new) \cap Range(cpProcessed) = {}
                /\ cpBatch' = new
                /\ cpTask' = IF new = << >> THEN "sleep" ELSE "handle"
                /\ UNCHANGED cpPath)
    BY <1>2, <2>2 DEF CpGot, cpHistory
  <2>3. QED
    BY <2>1, <2>2
<1>3. CASE CpHandled
  <2> DEFINE c == Head(cpBatch)
  <2>1. /\ cpBatch \in Seq(CpControls) /\ cpBatch # << >> /\ IsInjective(cpBatch)
        /\ c \in CpControls /\ c = cpBatch[1] /\ 1 \in DOMAIN cpBatch
        /\ \A i \in DOMAIN cpBatch : i > 1 => cpBatch[i] # c
    BY <1>3, TailOfBatch DEF CpHandled
  <2> HIDE DEF c
  <2>2. cpProcessed' \in Seq(CpControls) /\ Range(cpProcessed') \subseteq Range(cpProcessed) \cup {c}
    BY <1>3, <2>1, MarksThatAreLeft DEF CpHandled, Marked, c
  <2>3. cpLast' = cpProcessed'
    BY <1>3, <2>1, LastIsMarked DEF CpHandled, Marked, c
  <2>4. \A i \in DOMAIN cpBatch : cpBatch[i] \notin Range(cpProcessed)
    BY <1>3 DEF CpHandled, Range
  <2>5. cpRepeated' = {}
    BY <1>3, <2>1, <2>4 DEF CpHandled, Again, c
  <2>6. QED
    BY <1>3, <2>1, <2>2, <2>3, <2>4, <2>5 DEF CpHandled
<1>4. CASE CpHandlingRaises
  <2>1. /\ Tail(cpBatch) \in Seq(CpControls) /\ IsInjective(Tail(cpBatch))
        /\ (Tail(cpBatch) = << >>) <=> (Len(cpBatch) = 1)
        /\ \A i \in DOMAIN Tail(cpBatch) : i + 1 \in DOMAIN cpBatch /\ Tail(cpBatch)[i] = cpBatch[i + 1]
        /\ Head(cpBatch) = cpBatch[1] /\ 1 \in DOMAIN cpBatch
    BY <1>4, TailOfBatch DEF CpHandlingRaises
  <2>2. Range(Tail(cpBatch)) \cap Range(cpProcessed) = {}
    BY <1>4, <2>1 DEF CpHandlingRaises, Range
  <2>3. Head(cpBatch) \notin Range(cpLast)
    BY <1>4, <2>1 DEF CpHandlingRaises, Range
  <2>4. QED
    BY <1>4, <2>1, <2>2, <2>3 DEF CpHandlingRaises, Again, AfterOne
<1>5. CASE CpCalledBack
  <2>1. /\ Tail(cpBatch) \in Seq(CpControls) /\ IsInjective(Tail(cpBatch))
        /\ (Tail(cpBatch) = << >>) <=> (Len(cpBatch) = 1)
        /\ \A i \in DOMAIN Tail(cpBatch) :
               i + 1 \in DOMAIN cpBatch /\ i + 1 > 1 /\ Tail(cpBatch)[i] = cpBatch[i + 1]
    BY <1>5, TailOfBatch DEF CpCalledBack
  <2>2. Range(Tail(cpBatch)) \cap Range(cpProcessed) = {}
    BY <1>5, <2>1 DEF CpCalledBack, Range
  <2>3. QED
    BY <1>5, <2>1, <2>2 DEF CpCalledBack, AfterOne, cpHistory
<1>6. CASE CpStop \/ CpSchedulerStopped
  <2>1. ASSUME CpStop PROVE CpInv'
    <3>1. << >> \in Seq(CpControls) /\ IsInjective(<< >>)
      BY DEF IsInjective
    <3>2. QED
      BY <2>1, <3>1 DEF CpStop, cpHistory
  <2>2. ASSUME CpSchedulerStopped PROVE CpInv'
    BY <2>2 DEF CpSchedulerStopped, cpHistory
  <2>3. QED
    BY <1>6, <2>1, <2>2
<1>7. CASE UNCHANGED cpVars
  BY <1>7 DEF cpVars, cpHistory
<1>8. QED
  BY <1>1, <1>2, <1>3, <1>4, <1>5, <1>6, <1>7 DEF CpNext

\* What follows the first control of a list is a list.
LEMMA TailOfList ==
    ASSUME NEW s \in Lists, s # << >>
    PROVE  Tail(s) \in Lists
<1>1. PICK n \in 0..Cardinality(CpControls) : s \in Injection(1..n, CpControls)
  BY DEF Lists
<1>2. s \in [1..n -> CpControls] /\ s \in Seq(CpControls) /\ IsInjective(s) /\ Cardinality(CpControls) \in Nat
  BY <1>1, PollerAssumption, FS_CardinalityType DEF Injection
<1>3. Len(s) = n /\ n # 0
  BY <1>2, EmptySeq
<1>4. Tail(s) \in Seq(CpControls) /\ Len(Tail(s)) = n - 1 /\ IsInjective(Tail(s))
  BY <1>2, <1>3, TailOfBatch, HeadTailProperties
<1>5. Tail(s) \in Injection(1..(n - 1), CpControls)
  <2> DEFINE t == Tail(s)
             m == n - 1
  <2>1. t \in Seq(CpControls) /\ Len(t) = m /\ IsInjective(t)
    BY <1>4
  <2> HIDE DEF t, m
  <2>2. t \in [1..m -> CpControls]
    BY <2>1
  <2>3. t \in Injection(1..m, CpControls)
    BY <2>1, <2>2 DEF Injection
  <2>4. QED
    BY <2>3 DEF t, m
<1>6. n - 1 \in 0..Cardinality(CpControls)
  BY <1>2, <1>3
<1>7. QED
  BY <1>5, <1>6 DEF Lists

\* The list without controls is one.
LEMMA NoList == << >> \in Lists
<1>1. 0 \in 0..Cardinality(CpControls)
  BY PollerAssumption, FS_CardinalityType
<1>2. << >> \in Injection(1..0, CpControls)
  BY DEF Injection, IsInjective
<1>3. QED
  BY <1>1, <1>2 DEF Lists

\* The marks are never more than are to be remembered.
LEMMA MarksAreBounded ==
    ASSUME NEW s \in Seq(CpControls), Len(s) <= Retention, NEW c \in CpControls,
           NEW t, t = IF Len(Append(s, c)) > Retention THEN Tail(Append(s, c)) ELSE Append(s, c)
    PROVE  Len(t) <= Retention
<1>1. Len(s) \in Nat /\ Len(Append(s, c)) = Len(s) + 1 /\ Append(s, c) \in Seq(CpControls) /\ Append(s, c) # << >>
  BY AppendProperties
<1>2. Len(Tail(Append(s, c))) = Len(s)
  BY <1>1, HeadTailProperties
<1>3. QED
  BY <1>1, <1>2, PollerAssumption

\* Every step keeps the types of the poller.
LEMMA CpTypesKept == CpInv /\ CpTypeOK /\ [CpNext]_cpVars => CpTypeOK'
<1> SUFFICES ASSUME CpInv, CpTypeOK, [CpNext]_cpVars PROVE CpTypeOK'
  OBVIOUS
<1> USE DEF CpTypeOK, CpPaths
<1>1. CASE CpStart \/ CpWakes
  <2>1. cpScheduler' \in BOOLEAN
    BY <1>1, Zenon DEF CpStart, CpWakes
  <2>2. QED
    BY <1>1, <2>1 DEF CpStart, CpWakes, cpHistory
<1>2. CASE CpGot
  <2>1. UNCHANGED <<cpProcessed, cpScheduler, cpStops, cpHistory>>
    BY <1>2 DEF CpGot
  <2>2. \/ cpBatch' \in Lists /\ cpTask' \in {"sleep", "handle"} /\ cpPath' = cpPath
        \/ /\ cpBatch' = cpBatch
           /\ cpPath' \in CpPaths /\ cpTask' \in {"get", "sleep"}
    BY <1>2 DEF CpGot
  <2>3. QED
    BY <2>1, <2>2 DEF cpHistory
<1>3. CASE CpHandled
  <2> DEFINE c == Head(cpBatch)
  <2>1. cpBatch # << >> /\ c \in CpControls
    BY <1>3, TailOfBatch DEF CpHandled, CpInv, Remaining
  <2> HIDE DEF c
  <2>2. Marked(c) \in Seq(CpControls) /\ Len(Marked(c)) <= Retention
    BY <2>1, MarksThatAreLeft, MarksAreBounded DEF Marked
  <2>3. cpProcessed' = Marked(c) /\ cpLast' = Marked(c)
    BY <1>3, <2>1, LastIsMarked DEF CpHandled, CpInv, Marks, Marked, c
  <2>4. cpRepeated' \subseteq CpControls
    BY <1>3, <2>1 DEF CpHandled, Again, c
  <2>5. cpTask' = "callback" /\ UNCHANGED <<cpPath, cpBatch, cpScheduler, cpStops>>
    BY <1>3 DEF CpHandled
  <2>6. QED
    BY <2>2, <2>3, <2>4, <2>5
<1>4. CASE CpHandlingRaises \/ CpCalledBack
  <2>1. cpBatch # << >> /\ Head(cpBatch) \in CpControls /\ Tail(cpBatch) \in Lists
    BY <1>4, TailOfBatch, TailOfList DEF CpHandlingRaises, CpCalledBack, CpInv, Remaining
  <2>2. cpRepeated' \subseteq CpControls
    BY <1>4, <2>1 DEF CpHandlingRaises, CpCalledBack, Again, cpHistory
  <2>3. cpBatch' \in Lists /\ cpTask' \in {"sleep", "handle"}
    BY <1>4, <2>1 DEF CpHandlingRaises, CpCalledBack, AfterOne
  <2>4. UNCHANGED <<cpPath, cpProcessed, cpScheduler, cpStops, cpLast>>
    BY <1>4 DEF CpHandlingRaises, CpCalledBack, cpHistory
  <2>5. QED
    BY <2>2, <2>3, <2>4
<1>5. CASE CpStop
  BY <1>5, NoList, PollerAssumption DEF CpStop, cpHistory
<1>6. CASE CpSchedulerStopped
  <2>1. cpScheduler' \in BOOLEAN
    BY <1>6, Zenon DEF CpSchedulerStopped
  <2>2. QED
    BY <1>6, <2>1 DEF CpSchedulerStopped, cpHistory
<1>7. CASE UNCHANGED cpVars
  BY <1>7 DEF cpVars, cpHistory
<1>8. QED
  BY <1>1, <1>2, <1>3, <1>4, <1>5, <1>6, <1>7 DEF CpNext

\* The poller starts within its types.
LEMMA CpTypesInitially == CpInit => CpTypeOK
<1> SUFFICES ASSUME CpInit PROVE CpTypeOK
  OBVIOUS
<1>1. cpScheduler \in BOOLEAN
  BY Zenon DEF CpInit
<1>2. Len(cpProcessed) <= Retention /\ cpStops \in 0..CpStops
  BY PollerAssumption, EmptySeq DEF CpInit
<1>3. QED
  BY <1>1, <1>2, NoList DEF CpInit, CpTypeOK, CpPaths

\* A control that is still remembered is never handed over again, and nothing is handled after
\* the scheduler was stopped; for any controls, lists, retention and restarts.
THEOREM PollerIsSafe == CpBehaviour => [](CpTypeOK /\ PollerSafe)
<1>1. CpInv => PollerSafe
  BY DEF CpInv
<1>2. QED
  BY <1>1, CpInitially, CpPreserved, CpTypesInitially, CpTypesKept, PTL DEF CpBehaviour

-----------------------------------------------------------------------------
(***************************************************************************)
(* The registration.                                                       *)
(***************************************************************************)
RgBehaviour == RgInit /\ [][RgNext]_rgVars

\* A DER is made only for an EndDevice that has none, and only EndDevices have one.
OneDer ==
    /\ \A d \in Devices : rgDers[d] <= 1 /\ (rgDers[d] > 0 => d \in Range(rgServer))
    /\ rgAt = "create" => rgKnown \in Devices /\ rgDers[rgKnown] = 0
    /\ rgAt \in {"save", "saveNew"} => rgEdev \in Devices
    /\ rgAt = "saveDer" => rgDer \in Devices

\* The client registers when the server has nothing, or when a list was missed or not kept.
OneDevice ==
    /\ Len(rgServer) <= 1 + rgMissed /\ rgMissed <= rgFaults
    /\ rgAt = "register" => Len(rgServer) <= rgMissed

\* While nothing is lost, everything that is known or remembered is there.
StillThere ==
    rgKept =>
        /\ rgKnown # Nothing => rgKnown \in Range(rgServer)
        /\ rgDerRows \subseteq Range(rgServer)

\* How far the client has come as long as nothing went wrong.
OnCourse ==
    rgFaults = 0 =>
        /\ rgKept /\ rgMissed = 0
        /\ rgAt \notin {"ders", "create", "created", "saveDer"} => Range(rgRows) \subseteq rgDerRows
        /\ rgAt \in {"ders", "create", "created", "saveDer"} =>
               Range(rgRows) \subseteq rgDerRows \cup {rgEdev}
        /\ rgAt = "validate" => rgEdev \in Range(rgRows) /\ rgDer = rgEdev
        /\ rgAt \in {"save", "saveNew", "ders", "create", "created"} => rgKnown = rgEdev /\ rgEdev # Nothing
        /\ rgAt \in {"saveDer", "up"} => rgDer = rgEdev /\ rgEdev # Nothing

RgInv == RgTypeOK /\ OneDer /\ OneDevice /\ StillThere /\ OnCourse /\ RegistrationSafe

\* What a list without repetitions becomes when something new is added to it.
LEMMA Extended ==
    ASSUME NEW S, NEW s \in Seq(S), IsInjective(s), NEW d \in S, d \notin Range(s)
    PROVE  /\ Append(s, d) \in Seq(S) /\ IsInjective(Append(s, d))
           /\ Range(Append(s, d)) = Range(s) \cup {d} /\ Len(Append(s, d)) = Len(s) + 1
<1> DEFINE t == Append(s, d)
<1>1. /\ t \in Seq(S) /\ Len(t) = Len(s) + 1 /\ Len(s) \in Nat
      /\ DOMAIN s = 1..Len(s) /\ DOMAIN t = 1..Len(s) + 1
      /\ t[Len(s) + 1] = d /\ \A i \in 1..Len(s) : t[i] = s[i]
  BY AppendProperties
<1> HIDE DEF t
<1>2. IsInjective(t)
  BY <1>1 DEF IsInjective, Range
<1>3. Range(t) = Range(s) \cup {d}
  BY <1>1 DEF Range
<1>4. QED
  BY <1>1, <1>2, <1>3 DEF t

\* The first of a list that is not empty is in it, and is all of it when there is only one.
LEMMA Leading ==
    ASSUME NEW S, NEW s \in Seq(S), s # << >>
    PROVE  /\ Head(s) \in S /\ Head(s) \in Range(s)
           /\ Len(s) <= 1 => \A d \in Range(s) : d = Head(s)
<1>1. Len(s) \in Nat \ {0} /\ DOMAIN s = 1..Len(s) /\ \A i \in 1..Len(s) : s[i] \in S
  BY EmptySeq
<1>2. Head(s) = s[1]
  BY <1>1
<1>3. QED
  BY <1>1, <1>2 DEF Range

\* The empty list, and a list of one.
LEMMA RangeOfEmpty == Range(<< >>) = {} /\ IsInjective(<< >>) /\ Len(<< >>) = 0
<1>1. Range(<< >>) = {}
  BY DEF Range
<1>2. IsInjective(<< >>)
  BY DEF IsInjective
<1>3. QED
  BY <1>1, <1>2

\* A list of one.
LEMMA ListOfOne ==
    ASSUME NEW S, NEW d \in S PROVE <<d>> \in Seq(S) /\ IsInjective(<<d>>) /\ Len(<<d>>) = 1
BY DEF IsInjective

\* What is in a list of S is in S.
LEMMA InRange == ASSUME NEW S, NEW s \in Seq(S) PROVE Range(s) \subseteq S
BY DEF Range

\* Nothing is registered at first.
LEMMA RgInitially == RgInit => RgInv
<1> SUFFICES ASSUME RgInit PROVE RgInv
  OBVIOUS
<1> USE RegistrationAssumption, RangeOfEmpty
<1>1. rgServer \in Seq(Devices) /\ IsInjective(rgServer) /\ Len(rgServer) <= 1
  <2>1. rgServer = << >> \/ \E d \in Devices : rgServer = <<d>>
    <3>1. rgServer \in {<< >>} \cup {<<d>> : d \in Devices}
      BY DEF RgInit
    <3>2. QED
      BY <3>1
  <2>2. CASE rgServer = << >>
    BY <2>2
  <2>3. ASSUME NEW d \in Devices, rgServer = <<d>>
        PROVE  rgServer \in Seq(Devices) /\ IsInjective(rgServer) /\ Len(rgServer) <= 1
    <3>1. <<d>> \in Seq(Devices) /\ IsInjective(<<d>>) /\ Len(<<d>>) = 1
      BY ListOfOne
    <3>2. QED
      BY <2>3, <3>1
  <2>4. QED
    BY <2>1, <2>2, <2>3
<1>2. RgTypeOK
  BY <1>1 DEF RgInit, RgTypeOK
<1>3. QED
  BY <1>1, <1>2 DEF RgInit, RgInv, OneDer, OneDevice, StillThere, OnCourse, RegistrationSafe,
                    RegisteredOnce, UsesWhatExists, HasDer

\* Every request and every answer keeps what is known of the registration.
LEMMA RgPreserved == RgInv /\ [RgNext]_rgVars => RgInv'
<1> SUFFICES ASSUME RgInv, [RgNext]_rgVars PROVE RgInv'
  OBVIOUS
<1> USE RegistrationAssumption, RangeOfEmpty
<1> USE DEF RgInv, OneDer, OneDevice, StillThere, OnCourse, RegistrationSafe,
            RegisteredOnce, UsesWhatExists, HasDer, RgTypeOK
<1> USE DEF rgRemote, rgDb, rgLocal, rgCounts, RgGo, Fault, NoFault, Uncounted
<1>1. CASE RgStart
  BY <1>1 DEF RgStart
<1>2. CASE LoadCached
  <2>1. CASE rgRows = << >>
    BY <1>2, <2>1 DEF LoadCached
  <2>2. CASE rgRows # << >>
    <3>1. Head(rgRows) \in Devices /\ Head(rgRows) \in Range(rgRows)
      BY <2>2, Leading
    <3>2. QED
      BY <1>2, <2>2, <3>1 DEF LoadCached
  <2>3. QED
    BY <2>1, <2>2
<1>3. CASE Validate
  <2>1. PICK found \in Devices \cup {Nothing} :
           /\ Asked(found)
           /\ rgKnown' = IF found = Nothing THEN rgKnown ELSE found
           /\ IF found = rgEdev
              THEN rgAt' = "up" /\ UNCHANGED <<rgEdev, rgDer>>
              ELSE rgAt' = "find" /\ rgEdev' = Nothing /\ rgDer' = Nothing
    BY <1>3 DEF Validate
  <2>2. found # Nothing => found \in Range(rgServer)
    BY <2>1, Leading DEF Asked
  <2>3. QED
    BY <1>3, <2>1, <2>2 DEF Validate, Asked
<1>4. CASE Find
  <2>1. PICK found \in Devices \cup {Nothing} :
           /\ Asked(found)
           /\ IF found = Nothing
              THEN rgAt' = "register" /\ UNCHANGED <<rgEdev, rgKnown>>
              ELSE rgAt' = "save" /\ rgEdev' = found /\ rgKnown' = found
    BY <1>4 DEF Find
  <2>2. found # Nothing => found \in Range(rgServer)
    BY <2>1, Leading DEF Asked
  <2>3. QED
    BY <1>4, <2>1, <2>2, EmptySeq DEF Find, Asked
<1>5. CASE Register
  <2>1. ASSUME NEW d \in Devices \ Range(rgServer),
               rgServer' = Append(rgServer, d), rgDers' = [rgDers EXCEPT ![d] = 0],
               \/ rgAt' = "location" /\ rgLocation' = d /\ NoFault
               \/ rgAt' = "up" /\ Fault /\ UNCHANGED rgLocation
        PROVE  RgInv'
    <3>1. /\ rgServer' \in Seq(Devices) /\ IsInjective(rgServer')
          /\ Range(rgServer') = Range(rgServer) \cup {d} /\ Len(rgServer') = Len(rgServer) + 1
      BY <2>1, Extended
    <3>2. QED
      BY <1>5, <2>1, <3>1 DEF Register
  <2>2. CASE rgAt' = "up" /\ Fault /\ UNCHANGED <<rgRemote, rgLocation>>
    BY <1>5, <2>2 DEF Register
  <2>3. QED
    BY <1>5, <2>1, <2>2 DEF Register
<1>6. CASE Located
  BY <1>6, InRange DEF Located
<1>7. CASE SaveEndDevice
  <2>1. CASE /\ rgRows' = Append(rgRows, rgEdev) /\ rgEdev \notin Range(rgRows) /\ NoFault
             /\ rgAt' = "ders" /\ UNCHANGED <<rgEdev, rgMissed>>
    <3>1. /\ rgRows' \in Seq(Devices) /\ IsInjective(rgRows')
          /\ Range(rgRows') = Range(rgRows) \cup {rgEdev}
      BY <1>7, <2>1, Extended DEF SaveEndDevice
    <3>2. QED
      BY <1>7, <2>1, <3>1 DEF SaveEndDevice
  <2>2. CASE rgAt' = "ders" /\ UNCHANGED <<rgRows, rgEdev, rgMissed>> /\ rgEdev \in Range(rgRows) /\ NoFault
    BY <1>7, <2>2 DEF SaveEndDevice
  <2>3. CASE SaveFails /\ UNCHANGED rgRows
    BY <1>7, <2>3 DEF SaveEndDevice, SaveFails
  <2>4. QED
    BY <1>7, <2>1, <2>2, <2>3 DEF SaveEndDevice
<1>8. CASE ListDers
  BY <1>8, InRange DEF ListDers
<1>9. CASE CreateDer
  BY <1>9, InRange DEF CreateDer
<1>10. CASE DerLocated
  BY <1>10, InRange DEF DerLocated
<1>11. CASE SaveDer
  BY <1>11 DEF SaveDer
<1>12. CASE RgStop \/ RgCrash
  BY <1>12 DEF RgStop, RgCrash
<1>13. CASE ClearAll
  BY <1>13 DEF ClearAll
<1>14. CASE ServerReset
  <2>1. /\ rgServer' = << >> /\ rgServer' \in Seq(Devices) /\ Range(rgServer') = {}
        /\ IsInjective(rgServer') /\ Len(rgServer') = 0
    BY <1>14 DEF ServerReset
  <2>2. rgDers' \in [Devices -> 0..2] /\ \A d \in Devices : rgDers'[d] = 0
    BY <1>14 DEF ServerReset
  <2>3. rgKept' = FALSE /\ rgFaults < RgFaults /\ rgFaults' = rgFaults + 1 /\ UNCHANGED <<rgDb, rgAt, rgLocal, rgWrapper, rgStarts, rgMissed>>
    BY <1>14 DEF ServerReset
  <2>4. RgTypeOK'
    <3>1. rgFaults \in 0..RgFaults
      OBVIOUS
    <3>2. rgFaults' \in 0..RgFaults
      BY ONLY <3>1, <2>3, RegistrationAssumption
    <3>3. QED
      BY <2>1, <2>2, <2>3, <3>2
  <2>5. OneDer'
    BY <2>1, <2>2, <2>3
  <2>6. OneDevice' /\ StillThere' /\ OnCourse' /\ RegistrationSafe'
    BY <2>1, <2>2, <2>3
  <2>7. QED
    BY <2>4, <2>5, <2>6
<1>15. CASE UNCHANGED rgVars
  BY <1>15 DEF rgVars
<1>16. QED
  BY <1>1, <1>2, <1>3, <1>4, <1>5, <1>6, <1>7, <1>8, <1>9, <1>10, <1>11, <1>12, <1>13, <1>14, <1>15
  DEF RgNext

\* The server is asked to create a device once, and once more for each list that was not had or
\* whose EndDevice was not saved, what the client goes on with exists, and without
\* faults it reports for a DER; for any devices, lists and numbers of faults.
THEOREM RegistrationIsSafe == RgBehaviour => [](RgTypeOK /\ RegistrationSafe)
<1>1. RgInv => RgTypeOK /\ RegistrationSafe
  BY DEF RgInv
<1>2. QED
  BY <1>1, RgInitially, RgPreserved, PTL DEF RgBehaviour

-----------------------------------------------------------------------------
(***************************************************************************)
(* The metering.                                                           *)
(***************************************************************************)
MtBehaviour == MtInit /\ [][MtNext]_mtVars

\* No mRID is kept while the MUP is looked for or made.
NoneWhileMaking == mtAt \in {"recover", "create", "describe"} => mtMrids = {}

\* The mRIDs are asked for with the mRID of the MUP in use.
SameMup == mtMup # NoMup => mtMrid = mtMup

MtInv == NoneWhileMaking /\ SameMup /\ MridsBelong

\* What is known of a MUP and what is read of it are mRIDs of that MUP.
LEMMA UpdatedBelong ==
    ASSUME NEW m, NEW old, NEW mrids, \A r \in old : r[1] = m
    PROVE  \A r \in Updated(old, Of(mrids, m)) : r[1] = m
BY DEF Updated, Of

\* No mRID is known at first.
LEMMA MtInitially == MtInit => MtInv
BY DEF MtInit, MtInv, NoneWhileMaking, SameMup, MridsBelong

\* Every request, answer, crash and loss keeps the mRIDs of one MUP apart from those of another.
LEMMA MtPreserved == MtInv /\ [MtNext]_mtVars => MtInv'
<1> SUFFICES ASSUME MtInv, [MtNext]_mtVars PROVE MtInv'
  OBVIOUS
<1> USE DEF MtInv, NoneWhileMaking, SameMup, MridsBelong
<1>1. CASE MtStart
  BY <1>1 DEF MtStart, Of
<1>2. CASE MtVerify
  BY <1>2, UpdatedBelong DEF MtVerify, FetchReadings, Registration
<1>3. CASE MtRecover
  BY <1>3, UpdatedBelong DEF MtRecover, Registration, database
<1>4. CASE MtFill
  BY <1>4, UpdatedBelong DEF MtFill, Registration
<1>5. CASE MtCreate
  BY <1>5 DEF MtCreate, Registration
<1>6. CASE MtDescribe
  BY <1>6, UpdatedBelong DEF MtDescribe, Registration, database
<1>7. CASE MtUpload
  <2>1. PICK mrids \in IF Missing(mtMrids) = {} THEN {mtMrids} ELSE Recovered :
        \/ Post(mrids)
        \/ RegisterAgain
    BY <1>7 DEF MtUpload
  <2>2. \A r \in mrids : r[1] = mtMup
    BY <1>7, <2>1 DEF MtUpload, Recovered, Of
  <2>3. QED
    BY <1>7, <2>1, <2>2 DEF MtUpload, Post, RegisterAgain
<1>8. CASE MtCrash
  BY <1>8 DEF MtCrash
<1>9. CASE ServerChanges \/ ServerLoses \/ UNCHANGED mtVars
  BY <1>9 DEF ServerChanges, ServerLoses, mtVars, clientSide
<1>10. QED
  BY <1>1, <1>2, <1>3, <1>4, <1>5, <1>6, <1>7, <1>8, <1>9 DEF MtNext, MtStep

\* Readings of what is stored and cached are pairs of a MUP and a key.
LEMMA ReadingsAreReadings ==
    ASSUME NEW d \in SUBSET (Mups \X Keys), NEW r \in SUBSET (Mups \X Keys), NEW m
    PROVE  /\ Of(r, m) \in SUBSET (Mups \X Keys)
           /\ Updated(d, Of(r, m)) \in SUBSET (Mups \X Keys)
           /\ Updated(d, r) \in SUBSET (Mups \X Keys)
BY DEF Of, Updated

\* So is what is saved of them.
LEMMA SavedAreReadings ==
    ASSUME MtTypeOK, NEW r \in SUBSET (Mups \X Keys), NEW m
    PROVE  /\ Saved(m, Of(r, m)) \in SUBSET (Mups \X Keys)
           /\ Saved(m, r) \in SUBSET (Mups \X Keys)
<1>1. Of(mtCached, m) \in SUBSET (Mups \X Keys) /\ Of(r, m) \in SUBSET (Mups \X Keys)
  BY DEF Of, MtTypeOK
<1>2. /\ Updated(Of(mtCached, m), Of(r, m)) \in SUBSET (Mups \X Keys)
      /\ Updated(Of(mtCached, m), r) \in SUBSET (Mups \X Keys)
  BY <1>1, ReadingsAreReadings
<1>3. QED
  BY <1>2 DEF Saved, MtTypeOK

\* Of some MUPs one is the newest and one the oldest.
LEMMA LargestMup ==
    ASSUME NEW n \in Nat, NEW S \in SUBSET (0..n), S # {}
    PROVE  Max(S) \in S /\ Min(S) \in S
<1>1. (\E x \in S : \A y \in S : x >= y) /\ (\E x \in S : \A y \in S : x =< y)
  <2>1. \E x \in S : \A y \in S : x >= y
    BY LargestExists
  <2>2. S \in SUBSET Nat
    OBVIOUS
  <2>3. QED
    BY <2>1, <2>2, SmallestExists
<1>2. QED
  BY <1>1 DEF Max, Min

\* Every step keeps the types of the metering.
LEMMA MtTypesKept == MtTypeOK /\ [MtNext]_mtVars => MtTypeOK'
<1> SUFFICES ASSUME MtTypeOK, [MtNext]_mtVars PROVE MtTypeOK'
  OBVIOUS
<1> DEFINE Readings == Mups \X Keys
           Sides == /\ mtAt' \in {"down", "verify", "recover", "fill", "create", "describe", "idle", "off"}
                    /\ mtStarted' \in BOOLEAN
                    /\ mtLast' \in {"none", "failed", "partial", "complete"}
                    /\ mtUp' \in BOOLEAN
           Data == /\ mtMup' \in Mups \cup {NoMup} /\ mtMrid' \in Mups \cup {NoMup}
                   /\ mtMrids' \subseteq Mups \X Keys
                   /\ mtRows' \subseteq Mups /\ mtCached' \subseteq Mups \X Keys
                   /\ mtServer' \subseteq Mups /\ mtStored' \subseteq Mups \X Keys
           Counts == mtPartial' \in 0..PartialThreshold /\ mtLosses' \in 0..MaxLosses
<1>a. Mups \subseteq 0..(MaxLosses + 1) /\ MaxLosses + 1 \in Nat
      /\ PartialThreshold \in Nat /\ MaxLosses \in Nat
  BY MtAssumption DEF Mups
<1>b. mtServer \subseteq Mups /\ mtRows \subseteq Mups /\ mtStored \subseteq Mups \X Keys
      /\ mtMrids \subseteq Mups \X Keys /\ mtCached \subseteq Mups \X Keys
      /\ mtMup \in Mups \cup {NoMup} /\ mtMrid \in Mups \cup {NoMup}
  BY DEF MtTypeOK
<1>f. \A m : /\ Of(mtStored, m) \subseteq Mups \X Keys
             /\ Updated(mtMrids, Of(mtStored, m)) \subseteq Mups \X Keys
             /\ Saved(m, Of(mtStored, m)) \subseteq Mups \X Keys
  BY <1>b, ReadingsAreReadings, SavedAreReadings
<1>c. ASSUME mtStored' \subseteq Mups \X Keys
      PROVE  \A m : /\ Updated(mtMrids, Of(mtStored', m)) \subseteq Mups \X Keys
                    /\ Saved(m, Of(mtStored', m)) \subseteq Mups \X Keys
  BY <1>b, <1>c, ReadingsAreReadings, SavedAreReadings
<1>d. ASSUME NEW m \in Mups, StoreReadings(m) PROVE mtStored' \subseteq Mups \X Keys
  BY <1>b, <1>d DEF StoreReadings, AllOf
<1>e. Sides /\ Data /\ Counts => MtTypeOK'
  BY DEF MtTypeOK
<1>1. CASE MtStart
  <2>1. mtRows # {} => Min(mtRows) \in Mups
    BY <1>a, <1>b, LargestMup
  <2>2. Sides
    BY <1>1, Zenon DEF MtStart, MtTypeOK, world
  <2>3. Data
    BY <1>1, <1>b, <2>1 DEF MtStart, Of, database, server
  <2>4. Counts
    BY <1>1, <1>a DEF MtStart, MtTypeOK, world
  <2>5. QED
    BY <1>e, <2>2, <2>3, <2>4
<1>2. CASE MtVerify
  <2>1. Sides
    BY <1>2, Zenon DEF MtVerify, Registration, MtTypeOK, world
  <2>2. mtMrids' \subseteq Mups \X Keys /\ mtCached' \subseteq Mups \X Keys /\ mtMup' \in {mtMup, NoMup}
    BY <1>2, <1>b, <1>f DEF MtVerify, FetchReadings
  <2>3. Data
    BY <1>2, <1>b, <2>2 DEF MtVerify, server
  <2>4. Counts
    BY <1>2 DEF MtVerify, MtTypeOK, world
  <2>5. QED
    BY <1>e, <2>1, <2>3, <2>4
<1>3. CASE MtRecover
  <2>1. Sides
    BY <1>3, Zenon DEF MtRecover, Registration, MtTypeOK
  <2>2. mtServer # {} => Max(mtServer) \in Mups
    BY <1>a, <1>b, LargestMup
  <2>3. Data
    BY <1>3, <1>b, <1>f, <2>2 DEF MtRecover, server, database
  <2>4. Counts
    BY <1>3, <1>a DEF MtRecover, MtTypeOK
  <2>5. QED
    BY <1>e, <2>1, <2>3, <2>4
<1>4. CASE MtFill
  <2>1. Sides
    BY <1>4, Zenon DEF MtFill, Registration, MtTypeOK, world
  <2>2. mtStored' \subseteq Mups \X Keys
    BY <1>4, <1>b DEF MtFill, StoreReadings, AllOf
  <2>3. mtMrids' \subseteq Mups \X Keys /\ mtCached' \subseteq Mups \X Keys
    BY <1>4, <1>b, <1>c, <2>2 DEF MtFill
  <2>4. Data
    BY <1>4, <1>b, <2>2, <2>3 DEF MtFill
  <2>5. Counts
    BY <1>4 DEF MtFill, MtTypeOK, world
  <2>6. QED
    BY <1>e, <2>1, <2>4, <2>5
<1>5. CASE MtCreate
  <2>1. Sides
    BY <1>5, Zenon DEF MtCreate, Registration, MtTypeOK, world
  <2>2. PICK m \in Mups :
           \/ mtServer' = mtServer \cup {m} /\ mtMup' = m /\ mtMrid' = m
           \/ mtServer' \in {mtServer, mtServer \cup {m}} /\ mtMup' = NoMup /\ mtMrid' = mtMrid
    BY <1>5 DEF MtCreate
  <2>3. Data
    BY <1>5, <1>b, <2>2 DEF MtCreate, database
  <2>4. Counts
    BY <1>5 DEF MtCreate, MtTypeOK, world
  <2>5. QED
    BY <1>e, <2>1, <2>3, <2>4
<1>6. CASE MtDescribe
  <2>1. Sides
    BY <1>6, Zenon DEF MtDescribe, Registration, MtTypeOK, world
  <2>2. mtStored' \subseteq Mups \X Keys
    BY <1>6, <1>b DEF MtDescribe, StoreReadings, AllOf
  <2>3. mtMrids' \subseteq Mups \X Keys /\ mtCached' \subseteq Mups \X Keys
    BY <1>6, <1>b, <1>c, <2>2 DEF MtDescribe, database
  <2>7. Answered(mtMup) => mtMup \in Mups
    BY <1>b DEF Answered
  <2>8. mtRows' \subseteq Mups
    BY <1>6, <1>b, <2>7 DEF MtDescribe, database
  <2>9. mtMup' \in {mtMup, NoMup} /\ UNCHANGED <<mtMrid, mtServer>>
    BY <1>6 DEF MtDescribe
  <2>4. Data
    BY <1>b, <2>2, <2>3, <2>8, <2>9
  <2>5. Counts
    BY <1>6 DEF MtDescribe, MtTypeOK, world
  <2>6. QED
    BY <1>e, <2>1, <2>4, <2>5
<1>7. CASE MtUpload
  <2>1. PICK mrids \in IF Missing(mtMrids) = {} THEN {mtMrids} ELSE Recovered :
            \/ Post(mrids) /\ (mtPartial' = 0 \/ (mtPartial < PartialThreshold /\ mtPartial' = mtPartial + 1))
            \/ RegisterAgain
    BY <1>7 DEF MtUpload
  <2>2. mrids \subseteq Mups \X Keys
    BY <1>b, <2>1 DEF Recovered, Of
  <2>3. Sides
    <3>1. /\ mtAt' \in {mtAt, "recover"} /\ mtStarted' \in {mtStarted, FALSE}
          /\ mtLast' \in {mtLast, "none", "failed", "partial", "complete"}
      BY <2>1, Zenon DEF Post, RegisterAgain
    <3>2. mtUp' = mtUp
      BY <1>7 DEF MtUpload, world
    <3>3. QED
      BY <3>1, <3>2, Zenon DEF MtTypeOK
  <2>4. mtMrids' \subseteq Mups \X Keys /\ mtMup' \in {mtMup, NoMup} /\ mtRows' = mtRows
    BY <2>1, <2>2 DEF Post, RegisterAgain, database
  <2>5. mtCached' \subseteq Mups \X Keys
    <3>1. \A m : Saved(m, mrids) \subseteq Mups \X Keys
      BY <2>2, SavedAreReadings
    <3>2. QED
      BY <1>b, <2>1, <3>1 DEF Post, RegisterAgain, Synced, database
  <2>6. Data
    BY <1>7, <1>b, <2>4, <2>5 DEF MtUpload, server
  <2>7. Counts
    <3>1. mtPartial' \in 0..PartialThreshold
      BY <1>a, <2>1 DEF RegisterAgain, MtTypeOK
    <3>2. QED
      BY <1>7, <3>1 DEF MtUpload, MtTypeOK, world
  <2>8. QED
    BY <1>e, <2>3, <2>6, <2>7
<1>8. CASE MtCrash
  <2>1. Sides
    BY <1>8, Zenon DEF MtCrash, MtTypeOK, world
  <2>2. Data /\ Counts
    BY <1>8 DEF MtCrash, MtTypeOK, world, database, server
  <2>3. QED
    BY <1>e, <2>1, <2>2
<1>9. CASE ServerChanges \/ ServerLoses \/ UNCHANGED mtVars
  <2>1. Sides
    BY <1>9, Zenon DEF ServerChanges, ServerLoses, mtVars, clientSide, world, MtTypeOK
  <2>2. Data
    BY <1>9 DEF ServerChanges, ServerLoses, mtVars, clientSide, database, server, MtTypeOK, Of
  <2>3. Counts
    BY <1>9, <1>a DEF ServerChanges, ServerLoses, mtVars, clientSide, world, MtTypeOK
  <2>4. QED
    BY <1>e, <2>1, <2>2, <2>3
<1>10. QED
  BY <1>1, <1>2, <1>3, <1>4, <1>5, <1>6, <1>7, <1>8, <1>9 DEF MtNext, MtStep

\* The metering starts within its types.
LEMMA MtTypesInitially == MtInit => MtTypeOK
<1> SUFFICES ASSUME MtInit PROVE MtTypeOK
  OBVIOUS
<1>1. mtStarted \in BOOLEAN /\ mtUp \in BOOLEAN
  BY Zenon DEF MtInit
<1>2. QED
  BY <1>1, MtAssumption DEF MtInit, MtTypeOK

\* The mRIDs that readings are posted under are those of the MUP in use, whatever was recovered,
\* forgotten, created or lost; for any keys, thresholds and losses.
THEOREM MeteringIsSafe == MtBehaviour => [](MtTypeOK /\ MridsBelong)
<1>1. MtInv => MridsBelong
  BY DEF MtInv
<1>2. QED
  BY <1>1, MtInitially, MtPreserved, MtTypesInitially, MtTypesKept, PTL DEF MtBehaviour

-----------------------------------------------------------------------------
(***************************************************************************)
(* The subscriptions on the server.                                        *)
(***************************************************************************)
SbBehaviour == SbInit /\ [][SbNext]_sbVars

\* The caller and the renewal loop do not work on subscriptions at the same time, and each
\* has left its mark on the one it works on.
SbTakeTurns ==
    /\ sbCall.at # "idle" => ~Renewing
    /\ ~sbRenew.orphan
    /\ sbCall.at = "create" => sbState[sbCall.on] = "pending"
    /\ sbCall.at = "delete" =>
           sbState[sbCall.on] = "deleting" /\ sbCall.name = sbHref[sbCall.on]
    /\ Renewing => sbState[sbRenew.on] = "renewing"
    /\ sbRenew.at = "delete" => sbRenew.name = sbHref[sbRenew.on]

\* A DELETE of s is under way.
SbDeleting(s) == \/ sbCall.at = "delete" /\ sbCall.on = s
                 \/ sbRenew.at = "delete" /\ sbRenew.on = s

\* What is not active and is not being deleted has nothing on the server that is not lost.
SbNothingLeft == \A s \in SbIds :
    sbState[s] # "active" /\ ~SbDeleting(s) => sbServer[s] \subseteq sbLost

\* No subscription has a name that is another one's on the server.
SbOwnNames == \A s, u \in SbIds : s # u => sbHref[s] \notin sbServer[u]

SbKnown == \A s \in SbIds : sbServer[s] \subseteq sbLost \cup {sbHref[s]}
SbThere == \A s \in SbIds :
    sbState[s] = "active" /\ sbHref[s] # NoHref => sbHref[s] \in sbServer[s]

SbKept == SbTakeTurns /\ SbNothingLeft /\ SbOwnNames /\ SbKnown /\ SbThere

SbInv == SbTypeOK /\ (sbOrderly => SbKept)

-----------------------------------------------------------------------------
(* What the requests do.                                                   *)

\* The name of a new subscription is used for none that there was.
LEMMA FreshIsNew ==
    ASSUME SbTypeOK, NEW h \in Fresh
    PROVE  /\ h \in Hrefs /\ h \notin sbLost /\ h # NoHref
           /\ \A u \in SbIds : h \notin sbServer[u] /\ h # sbHref[u]
<1>1. /\ h \in Hrefs /\ h \notin UNION {sbServer[u] : u \in SbIds}
      /\ h \notin {sbHref[u] : u \in SbIds} /\ h \notin sbLost
  BY DEF Fresh
<1>2. ASSUME NEW u \in SbIds PROVE h \notin sbServer[u] /\ h # sbHref[u]
  BY <1>1
<1>3. QED
  BY <1>1, <1>2, SbAssumption

\* A POST adds no name but a new one, which is the answer's or lost.
LEMMA SbPosts ==
    ASSUME SbTypeOK, NEW s \in SbIds, NEW ok \in BOOLEAN, NEW name \in Names,
           Posted(s, ok, name)
    PROVE  /\ sbServer' \in [SbIds -> SUBSET Hrefs] /\ sbLost' \subseteq Hrefs
           /\ \A u \in SbIds : u # s => sbServer'[u] = sbServer[u]
           /\ sbLost \subseteq sbLost' /\ sbServer[s] \subseteq sbServer'[s]
           /\ sbServer'[s] \subseteq sbServer[s] \cup sbLost' \cup {name}
           /\ sbServer'[s] \subseteq sbServer[s] \cup Fresh
           /\ name # NoHref => ok /\ name \in sbServer'[s] /\ name \in Fresh
<1>1. CASE \E h \in Fresh :
           /\ sbServer' = [sbServer EXCEPT ![s] = @ \cup {h}]
           /\ \/ ok /\ name = h /\ UNCHANGED sbLost
              \/ name = NoHref /\ sbLost' = sbLost \cup {h}
  <2>1. PICK h \in Fresh :
           /\ sbServer' = [sbServer EXCEPT ![s] = @ \cup {h}]
           /\ \/ ok /\ name = h /\ UNCHANGED sbLost
              \/ name = NoHref /\ sbLost' = sbLost \cup {h}
    BY <1>1
  <2>2. h \in Hrefs /\ h # NoHref
    BY FreshIsNew
  <2>3. /\ sbServer' \in [SbIds -> SUBSET Hrefs] /\ sbServer'[s] = sbServer[s] \cup {h}
        /\ \A u \in SbIds : u # s => sbServer'[u] = sbServer[u]
    BY <2>1, <2>2 DEF SbTypeOK
  <2>4. QED
    BY <2>1, <2>2, <2>3 DEF SbTypeOK
<1>2. CASE ~ok /\ name = NoHref /\ UNCHANGED sbRemote
  BY <1>2 DEF sbRemote, SbTypeOK
<1>3. QED
  BY <1>1, <1>2 DEF Posted

\* After a DELETE the name is gone or lost.
LEMMA SbDeletes ==
    ASSUME SbTypeOK, NEW s \in SbIds, NEW h, Deleted(s, h)
    PROVE  /\ sbServer' \in [SbIds -> SUBSET Hrefs] /\ sbLost' \subseteq Hrefs
           /\ \A u \in SbIds : u # s => sbServer'[u] = sbServer[u]
           /\ sbServer'[s] \subseteq sbServer[s]
           /\ sbServer'[s] \cap {h} \subseteq sbLost' /\ sbLost \ {h} \subseteq sbLost'
BY DEF Deleted, SbTypeOK

-----------------------------------------------------------------------------
(* The types.                                                              *)

\* Nothing is subscribed to at first.
LEMMA SbInitially == SbInit => SbInv
<1> SUFFICES ASSUME SbInit PROVE SbInv
  OBVIOUS
<1>1. SomeId \in SbIds
  BY SbAssumption DEF SomeId
<1>2. SbTypeOK
  BY <1>1 DEF SbInit, SbTypeOK, Call, Renewal, Names, SubscriptionStates, Settings
<1>3. SbKept
  BY <1>1, SbAssumption
     DEF SbInit, SbKept, SbTakeTurns, SbNothingLeft, SbOwnNames, SbKnown, SbThere, Renewing
<1>4. QED
  BY <1>2, <1>3 DEF SbInv

\* What Enable() and Disable() come to.
LEMMA SbEnabling ==
    ASSUME SbTypeOK, NEW s \in SbIds, NEW rest \in Call, Enable(s, rest)
    PROVE  /\ UNCHANGED <<sbHref, sbDue, sbRenew>> /\ sbCall' \in Call
           /\ sbState' \in [SbIds -> SubscriptionStates \cup {"absent"}]
           /\ \A u \in SbIds : u # s => sbState'[u] = sbState[u]
           /\ \/ sbCall' = rest /\ sbState' = sbState
              \/ /\ sbState[s] # "active" /\ sbState'[s] = "pending"
                 /\ sbCall'.at = "create" /\ sbCall'.on = s
<1>1. CASE sbState[s] = "active"
  BY <1>1 DEF Enable, trackedSubs, SbTypeOK
<1>2. CASE sbState[s] # "active"
  <2>1. /\ sbState' = [sbState EXCEPT ![s] = "pending"]
        /\ sbCall' = [rest EXCEPT !.at = "create", !.on = s]
        /\ UNCHANGED <<sbHref, sbDue, sbRenew>>
    BY <1>2 DEF Enable
  <2>2. sbCall' \in Call /\ sbCall'.at = "create" /\ sbCall'.on = s
    BY <2>1 DEF Call
  <2>3. QED
    BY <1>2, <2>1, <2>2 DEF SbTypeOK, SubscriptionStates
<1>3. QED
  BY <1>1, <1>2

\* A subscription that is cleared moves alone.
LEMMA SbClears ==
    ASSUME SbTypeOK, NEW s \in SbIds, NEW state \in SubscriptionStates \cup {"absent"},
           Cleared(s, state)
    PROVE  /\ sbState' \in [SbIds -> SubscriptionStates \cup {"absent"}]
           /\ sbHref' \in [SbIds -> Names] /\ sbDue' \in [SbIds -> BOOLEAN]
           /\ sbRenew' \in Renewal
           /\ sbState'[s] = state /\ sbHref'[s] = NoHref
           /\ \A u \in SbIds : u # s => sbState'[u] = sbState[u] /\ sbHref'[u] = sbHref[u]
           /\ sbRenew'.at = sbRenew.at /\ sbRenew'.on = sbRenew.on
           /\ sbRenew'.name = sbRenew.name
           /\ ~Renewing => sbRenew'.orphan = sbRenew.orphan
<1>1. /\ sbState' \in [SbIds -> SubscriptionStates \cup {"absent"}]
      /\ sbHref' \in [SbIds -> Names] /\ sbDue' \in [SbIds -> BOOLEAN]
      /\ sbState'[s] = state /\ sbHref'[s] = NoHref
      /\ \A u \in SbIds : u # s => sbState'[u] = sbState[u] /\ sbHref'[u] = sbHref[u]
  BY DEF Cleared, SbTypeOK, Names
<1>2. PICK orphan \in BOOLEAN : /\ sbRenew' = [sbRenew EXCEPT !.orphan = orphan]
                                /\ ~Renewing => orphan = sbRenew.orphan
  <2> DEFINE orphan == sbRenew.orphan \/ (state = "absent" /\ Renewing /\ sbRenew.on = s)
  <2>1. orphan \in BOOLEAN /\ sbRenew.orphan \in BOOLEAN
    BY DEF SbTypeOK, Renewal
  <2>2. sbRenew' = [sbRenew EXCEPT !.orphan = orphan]
    BY DEF Cleared
  <2>3. QED
    BY <2>1, <2>2
<1>3. sbRenew \in Renewal
  BY DEF SbTypeOK
<1>4. /\ sbRenew' \in Renewal /\ sbRenew'.at = sbRenew.at /\ sbRenew'.on = sbRenew.on
      /\ sbRenew'.name = sbRenew.name /\ sbRenew'.orphan = orphan
  BY <1>2, <1>3 DEF Renewal
<1>5. QED
  BY <1>1, <1>2, <1>4

\* Disabling a subscription clears it or begins to delete it.
LEMMA SbDisabling ==
    ASSUME SbTypeOK, NEW s \in SbIds, NEW rest \in Call, Disable(s, rest)
    PROVE  \/ /\ sbState[s] = "disabled" \/ sbHref[s] = NoHref
              /\ sbCall' = rest
              /\ \E after \in {"absent", "disabled"} : Cleared(s, after)
           \/ /\ UNCHANGED <<sbHref, sbDue, sbRenew>> /\ sbCall' \in Call
              /\ sbState' \in [SbIds -> SubscriptionStates \cup {"absent"}]
              /\ sbState'[s] = "deleting"
              /\ \A u \in SbIds : u # s => sbState'[u] = sbState[u]
              /\ sbCall'.at = "delete" /\ sbCall'.on = s /\ sbCall'.name = sbHref[s]
<1>1. CASE sbState[s] = "disabled" \/ sbHref[s] = NoHref
  BY <1>1 DEF Disable
<1>2. CASE ~(sbState[s] = "disabled" \/ sbHref[s] = NoHref)
  <2>1. /\ sbState' = [sbState EXCEPT ![s] = "deleting"]
        /\ sbCall' = [rest EXCEPT !.at = "delete", !.on = s, !.name = sbHref[s]]
        /\ UNCHANGED <<sbHref, sbDue, sbRenew>>
    BY <1>2 DEF Disable
  <2>2. sbHref[s] \in Names
    BY DEF SbTypeOK
  <2>3. /\ sbCall' \in Call /\ sbCall'.at = "delete" /\ sbCall'.on = s
        /\ sbCall'.name = sbHref[s]
    BY <2>1, <2>2 DEF Call
  <2>4. QED
    BY <2>1, <2>3 DEF SbTypeOK, SubscriptionStates
<1>3. QED
  BY <1>1, <1>2

\* What becomes of the table when a POST was answered.
SbEntered(s, ok, name) ==
    /\ sbState' = [sbState EXCEPT ![s] = IF ok THEN "active" ELSE "failed"]
    /\ sbHref' = [sbHref EXCEPT ![s] = IF ok THEN name ELSE @]
    /\ sbDue' = [sbDue EXCEPT ![s] = ~ok /\ @]

\* The answer to a subscription is entered for that subscription.
LEMMA SbEntering ==
    ASSUME SbTypeOK, NEW s \in SbIds, NEW ok \in BOOLEAN, NEW name \in Names,
           SbEntered(s, ok, name)
    PROVE  /\ sbState' \in [SbIds -> SubscriptionStates \cup {"absent"}]
           /\ sbHref' \in [SbIds -> Names] /\ sbDue' \in [SbIds -> BOOLEAN]
           /\ sbState'[s] = IF ok THEN "active" ELSE "failed"
           /\ sbHref'[s] = IF ok THEN name ELSE sbHref[s]
           /\ \A u \in SbIds : u # s => sbState'[u] = sbState[u] /\ sbHref'[u] = sbHref[u]
<1>1. /\ sbState' \in [SbIds -> SubscriptionStates \cup {"absent"}]
      /\ sbState'[s] = IF ok THEN "active" ELSE "failed"
      /\ \A u \in SbIds : u # s => sbState'[u] = sbState[u]
  BY DEF SbEntered, SbTypeOK, SubscriptionStates
<1>2. /\ sbHref' \in [SbIds -> Names]
      /\ sbHref'[s] = IF ok THEN name ELSE sbHref[s]
      /\ \A u \in SbIds : u # s => sbHref'[u] = sbHref[u]
  BY DEF SbEntered, SbTypeOK
<1>3. sbDue' \in [SbIds -> BOOLEAN]
  <2>1. sbDue[s] \in BOOLEAN
    BY DEF SbTypeOK
  <2>2. (~ok /\ sbDue[s]) \in BOOLEAN
    BY <2>1
  <2>3. QED
    BY <2>2 DEF SbEntered, SbTypeOK
<1>4. QED
  BY <1>1, <1>2, <1>3

\* A step of the caller over those that are left.
LEMMA SbNexting ==
    ASSUME SbTypeOK, NEW s \in sbCall.left, NextOne(s)
    PROVE  LET rest == [sbCall EXCEPT !.left = @ \ {s}] IN
           /\ s \in SbIds /\ rest \in Call /\ rest.at = sbCall.at
           /\ \/ Enable(s, rest) \/ Disable(s, rest)
              \/ sbCall' = rest /\ UNCHANGED <<sbState, sbHref, sbDue, sbRenew>>
<1> DEFINE rest == [sbCall EXCEPT !.left = @ \ {s}]
<1>1. sbCall \in Call
  BY DEF SbTypeOK
<1>2. s \in SbIds /\ rest \in Call /\ rest.at = sbCall.at
  BY <1>1 DEF Call
<1>3. \/ Enable(s, rest) \/ Disable(s, rest)
      \/ sbCall' = rest /\ UNCHANGED <<sbState, sbHref, sbDue, sbRenew>>
  BY DEF NextOne, trackedSubs
<1>4. QED
  BY <1>2, <1>3

\* Every step keeps the types of the subscriptions.
LEMMA SbTypes == SbTypeOK /\ [SbNext]_sbVars => SbTypeOK'
<1> SUFFICES ASSUME SbTypeOK, [SbNext]_sbVars PROVE SbTypeOK'
  OBVIOUS
<1>0. /\ sbCall \in Call /\ sbRenew \in Renewal /\ sbCall.on \in SbIds /\ sbRenew.on \in SbIds
      /\ sbCall.name \in Names /\ sbRenew.name \in Names /\ NoHref \in Names
      /\ sbCall.left \subseteq SbIds /\ sbRenew.left \subseteq SbIds
      /\ sbRenew.orphan \in BOOLEAN
      /\ sbCall.then \in {"one", "enable", "remove", "reconcile"}
  BY DEF SbTypeOK, Call, Renewal, Names
<1>1. CASE SbEnable
  <2>1. PICK s \in TrackedIds : Enable(s, [sbCall EXCEPT !.then = "one"])
    BY <1>1 DEF SbEnable
  <2>2. [sbCall EXCEPT !.then = "one"] \in Call
    BY <1>0 DEF Call
  <2>3. UNCHANGED <<sbWanted, sbRunning, sbServer, sbLost, sbOrderly>> /\ s \in SbIds
    BY <1>1 DEF SbEnable, sbRemote, TrackedIds
  <2>4. QED
    BY <2>1, <2>2, <2>3, SbEnabling DEF SbTypeOK
<1>2. CASE SbDisable
  <2>1. PICK s \in TrackedIds : Disable(s, [sbCall EXCEPT !.then = "one"])
    BY <1>2 DEF SbDisable
  <2>2. [sbCall EXCEPT !.then = "one"] \in Call
    BY <1>0 DEF Call
  <2>3. UNCHANGED <<sbWanted, sbRunning, sbServer, sbLost, sbOrderly>> /\ s \in SbIds
    BY <1>2 DEF SbDisable, sbRemote, TrackedIds
  <2>4. QED
    BY <2>1, <2>2, <2>3, SbDisabling, SbClears DEF SbTypeOK, SubscriptionStates
<1>3. Onwards \in Call
  BY <1>0 DEF Onwards, Call
<1>4. CASE Created
  <2>1. PICK ok \in BOOLEAN, name \in Names :
            Posted(sbCall.on, ok, name) /\ SbEntered(sbCall.on, ok, name)
    BY <1>4 DEF Created, SbEntered
  <2>2. UNCHANGED <<sbWanted, sbRunning, sbRenew, sbOrderly>> /\ sbCall' = Onwards
    BY <1>4 DEF Created
  <2>3. /\ sbState' \in [SbIds -> SubscriptionStates \cup {"absent"}]
        /\ sbHref' \in [SbIds -> Names] /\ sbDue' \in [SbIds -> BOOLEAN]
    BY <1>0, <2>1, SbEntering
  <2>4. sbServer' \in [SbIds -> SUBSET Hrefs] /\ sbLost' \subseteq Hrefs
    BY <1>0, <2>1, SbPosts
  <2>5. QED
    BY <1>3, <2>2, <2>3, <2>4 DEF SbTypeOK
<1>5. CASE DeleteReturned
  <2>1. /\ Deleted(sbCall.on, sbCall.name)
        /\ \E after \in {"absent", "disabled"} : Cleared(sbCall.on, after)
        /\ UNCHANGED <<sbWanted, sbRunning, sbOrderly>> /\ sbCall' = Onwards
    BY <1>5 DEF DeleteReturned
  <2>2. /\ sbState' \in [SbIds -> SubscriptionStates \cup {"absent"}] /\ sbRenew' \in Renewal
        /\ sbHref' \in [SbIds -> Names] /\ sbDue' \in [SbIds -> BOOLEAN]
    BY <1>0, <2>1, SbClears DEF SubscriptionStates
  <2>3. sbServer' \in [SbIds -> SUBSET Hrefs] /\ sbLost' \subseteq Hrefs
    BY <1>0, <2>1, SbDeletes
  <2>4. QED
    BY <1>3, <2>1, <2>2, <2>3 DEF SbTypeOK
<1>6. CASE SbStart
  <2>1. sbCall' \in Call
    BY <1>0, <1>6 DEF SbStart, Call, TrackedIds
  <2>2. QED
    BY <1>6, <2>1 DEF SbStart, SbTypeOK, trackedSubs, sbRemote
<1>7. CASE SbReload
  <2>1. sbCall' \in Call
    BY <1>0, <1>7 DEF SbReload, Call, TrackedIds
  <2>2. QED
    BY <1>7, <2>1 DEF SbReload, SbTypeOK, trackedSubs, sbRemote
<1>8. CASE SbContinue
  <2>1. UNCHANGED <<sbWanted, sbRunning, sbServer, sbLost, sbOrderly>>
    BY <1>8 DEF SbContinue, sbRemote
  <2>2. ASSUME NEW s \in sbCall.left, NextOne(s) PROVE SbTypeOK'
    <3> DEFINE rest == [sbCall EXCEPT !.left = @ \ {s}]
    <3>1. /\ s \in SbIds /\ rest \in Call
          /\ \/ Enable(s, rest) \/ Disable(s, rest)
             \/ sbCall' = rest /\ UNCHANGED <<sbState, sbHref, sbDue, sbRenew>>
      BY <2>2, SbNexting
    <3> HIDE DEF rest
    <3>2. CASE Enable(s, rest)
      BY <2>1, <3>1, <3>2, SbEnabling DEF SbTypeOK
    <3>3. CASE Disable(s, rest)
      BY <2>1, <3>1, <3>3, SbDisabling, SbClears DEF SbTypeOK, SubscriptionStates
    <3>4. CASE sbCall' = rest /\ UNCHANGED <<sbState, sbHref, sbDue, sbRenew>>
      BY <2>1, <3>1, <3>4 DEF SbTypeOK
    <3>5. QED
      BY <3>1, <3>2, <3>3, <3>4
  <2>3. CASE LoopOver
    <3>1. sbCall' \in Call
      <4> DEFINE wanted == {s \in SbIds : sbWanted[s] # "absent"}
      <4>1. \/ sbCall' = [sbCall EXCEPT !.then = "reconcile", !.left = wanted]
            \/ sbCall' = [sbCall EXCEPT !.at = "idle"]
        BY <2>3 DEF LoopOver
      <4>2. wanted \in SUBSET SbIds
        OBVIOUS
      <4> HIDE DEF wanted
      <4>3. QED
        BY <1>0, <4>1, <4>2 DEF Call
    <3>2. sbState' \in [SbIds -> SubscriptionStates \cup {"absent"}]
      BY <2>3 DEF LoopOver, SbTypeOK, trackedSubs, SubscriptionStates
    <3>3. sbRenew' \in Renewal
      BY <1>0, <2>3 DEF LoopOver, Renewal
    <3>4. UNCHANGED <<sbHref, sbDue>>
      BY <2>3 DEF LoopOver, trackedSubs
    <3>5. QED
      BY <2>1, <3>1, <3>2, <3>3, <3>4 DEF SbTypeOK
  <2>4. QED
    BY <1>8, <2>2, <2>3 DEF SbContinue
<1>9. CASE SbStop
  <2>1. sbRenew' \in Renewal
    BY <1>0, <1>9 DEF SbStop, Renewal
  <2>2. sbServer' \in [SbIds -> SUBSET Hrefs] /\ sbLost' \subseteq Hrefs
    <3>1. \/ Deleted(sbRenew.on, sbRenew.name) \/ Posted(sbRenew.on, FALSE, NoHref)
          \/ UNCHANGED sbRemote
      BY <1>9 DEF SbStop
    <3>2. CASE Deleted(sbRenew.on, sbRenew.name)
      BY <1>0, <3>2, SbDeletes
    <3>3. CASE Posted(sbRenew.on, FALSE, NoHref)
      BY <1>0, <3>3, SbPosts
    <3>4. CASE UNCHANGED sbRemote
      BY <3>4 DEF sbRemote, SbTypeOK
    <3>5. QED
      BY <3>1, <3>2, <3>3, <3>4
  <2>3. QED
    BY <1>9, <2>1, <2>2 DEF SbStop, SbTypeOK, trackedSubs
<1>10. CASE RenewalDue
  BY <1>10 DEF RenewalDue, SbTypeOK, sbRemote
<1>11. CASE RnWakes
  <2>1. sbRenew' \in Renewal
    BY <1>0, <1>11 DEF RnWakes, Renewal, TrackedIds
  <2>2. QED
    BY <1>11, <2>1 DEF RnWakes, SbTypeOK, trackedSubs, sbRemote
<1>12. CASE RnNext
  <2>1. UNCHANGED <<sbWanted, sbHref, sbDue, sbRunning, sbCall, sbServer, sbLost, sbOrderly>>
    BY <1>12 DEF RnNext, sbRemote
  <2>2. CASE /\ sbRenew' = [sbRenew EXCEPT !.at = "sleep", !.left = {}]
             /\ UNCHANGED sbState
    <3>1. sbRenew' \in Renewal
      BY <1>0, <2>2 DEF Renewal
    <3>2. QED
      BY <2>1, <2>2, <3>1 DEF SbTypeOK
  <2>3. ASSUME NEW s \in sbRenew.left, sbRenew' = [sbRenew EXCEPT !.left = @ \ {s}],
               UNCHANGED sbState
        PROVE  SbTypeOK'
    <3>1. sbRenew' \in Renewal
      BY <1>0, <2>3 DEF Renewal
    <3>2. QED
      BY <2>1, <2>3, <3>1 DEF SbTypeOK
  <2>4. ASSUME NEW s \in sbRenew.left, sbState' = [sbState EXCEPT ![s] = "renewing"],
               sbRenew' = [[sbRenew EXCEPT !.left = @ \ {s}] EXCEPT
                               !.on = s, !.name = sbHref[s],
                               !.at = IF sbHref[s] = NoHref THEN "create" ELSE "delete"]
        PROVE  SbTypeOK'
    <3>1. sbHref[s] \in Names /\ s \in SbIds
      BY <1>0 DEF SbTypeOK
    <3>2. sbRenew' \in Renewal
      BY <1>0, <2>4, <3>1 DEF Renewal
    <3>3. sbState' \in [SbIds -> SubscriptionStates \cup {"absent"}]
      BY <2>4 DEF SbTypeOK, SubscriptionStates
    <3>4. QED
      BY <2>1, <3>2, <3>3 DEF SbTypeOK
  <2>5. QED
    BY <1>12, <2>2, <2>3, <2>4 DEF RnNext
<1>13. CASE RnDeleted
  <2>1. sbRenew' \in Renewal
    BY <1>0, <1>13 DEF RnDeleted, Renewal
  <2>2. sbServer' \in [SbIds -> SUBSET Hrefs] /\ sbLost' \subseteq Hrefs
    BY <1>0, <1>13, SbDeletes DEF RnDeleted
  <2>3. QED
    BY <1>13, <2>1, <2>2 DEF RnDeleted, SbTypeOK, trackedSubs
<1>14. CASE RnCreated
  <2>1. PICK ok \in BOOLEAN, name \in Names :
            /\ Posted(sbRenew.on, ok, name)
            /\ \/ UNCHANGED <<sbState, sbHref, sbDue>> \/ SbEntered(sbRenew.on, ok, name)
    BY <1>14 DEF RnCreated, SbEntered, trackedSubs
  <2>2. sbRenew' \in Renewal
    BY <1>0, <1>14 DEF RnCreated, Renewal
  <2>3. /\ sbState' \in [SbIds -> SubscriptionStates \cup {"absent"}]
        /\ sbHref' \in [SbIds -> Names] /\ sbDue' \in [SbIds -> BOOLEAN]
    BY <1>0, <2>1, SbEntering DEF SbTypeOK
  <2>4. sbServer' \in [SbIds -> SUBSET Hrefs] /\ sbLost' \subseteq Hrefs
    BY <1>0, <2>1, SbPosts
  <2>5. QED
    BY <1>14, <2>2, <2>3, <2>4 DEF RnCreated, SbTypeOK
<1>15. CASE UNCHANGED sbVars
  BY <1>15 DEF sbVars, trackedSubs, sbRemote, SbTypeOK
<1>16. QED
  BY <1>1, <1>2, <1>4, <1>5, <1>6, <1>7, <1>8, <1>9, <1>10, <1>11, <1>12, <1>13, <1>14, <1>15
     DEF SbNext

-----------------------------------------------------------------------------
(* In orderly surroundings.                                                *)

\* A step of the caller that enables leaves the rest as it is.
LEMMA SbEnableKeeps ==
    ASSUME SbTypeOK, SbKept, ~Renewing, sbCall.at \in {"idle", "next"},
           NEW s \in SbIds, NEW rest \in Call, rest.at \in {"idle", "next"},
           Enable(s, rest), UNCHANGED <<sbServer, sbLost>>
    PROVE  SbKept'
<1>1. /\ UNCHANGED <<sbHref, sbRenew>>
      /\ \A u \in SbIds : u # s => sbState'[u] = sbState[u]
      /\ \/ sbCall' = rest /\ sbState' = sbState
         \/ /\ sbState[s] # "active" /\ sbState'[s] = "pending"
            /\ sbCall'.at = "create" /\ sbCall'.on = s
  BY SbEnabling
<1>2. sbCall'.at # "delete" /\ \A u \in SbIds : ~SbDeleting(u) /\ ~SbDeleting(u)'
  BY <1>1 DEF SbDeleting, Renewing
<1>3. SbTakeTurns'
  BY <1>1, <1>2 DEF SbKept, SbTakeTurns, Renewing
<1>4. SbNothingLeft'
  BY <1>1, <1>2 DEF SbKept, SbNothingLeft
<1>5. SbOwnNames' /\ SbKnown'
  BY <1>1 DEF SbKept, SbOwnNames, SbKnown
<1>6. SbThere'
  BY <1>1 DEF SbKept, SbThere
<1>7. QED
  BY <1>3, <1>4, <1>5, <1>6 DEF SbKept

\* ... and one that disables.
LEMMA SbDisableKeeps ==
    ASSUME SbTypeOK, SbKept, ~Renewing, sbCall.at \in {"idle", "next"},
           NEW s \in SbIds, NEW rest \in Call, rest.at \in {"idle", "next"},
           Disable(s, rest), UNCHANGED <<sbServer, sbLost>>
    PROVE  SbKept'
<1>1. CASE /\ sbState[s] = "disabled" \/ sbHref[s] = NoHref
           /\ sbCall' = rest
           /\ \E after \in {"absent", "disabled"} : Cleared(s, after)
  <2>1. PICK after \in {"absent", "disabled"} : Cleared(s, after)
    BY <1>1
  <2>2. /\ sbState'[s] = after /\ sbHref'[s] = NoHref
        /\ \A u \in SbIds : u # s => sbState'[u] = sbState[u] /\ sbHref'[u] = sbHref[u]
        /\ sbRenew'.at = sbRenew.at /\ sbRenew'.on = sbRenew.on
        /\ sbRenew'.name = sbRenew.name /\ sbRenew'.orphan = sbRenew.orphan
    BY <2>1, SbClears DEF SubscriptionStates
  <2>3. \A u \in SbIds : ~SbDeleting(u) /\ ~SbDeleting(u)'
    BY <1>1, <2>2 DEF SbDeleting, Renewing
  <2>4. sbServer[s] \subseteq sbLost /\ \A u \in SbIds : NoHref \notin sbServer[u]
    BY <1>1, <2>3, SbAssumption DEF SbKept, SbNothingLeft, SbKnown, SbTypeOK
  <2>5. SbTakeTurns'
    BY <1>1, <2>2 DEF SbKept, SbTakeTurns, Renewing
  <2>6. SbNothingLeft'
    BY <2>2, <2>3, <2>4 DEF SbKept, SbNothingLeft
  <2>7. SbOwnNames' /\ SbKnown'
    BY <2>2, <2>4 DEF SbKept, SbOwnNames, SbKnown
  <2>8. SbThere'
    BY <2>2 DEF SbKept, SbThere
  <2>9. QED
    BY <2>5, <2>6, <2>7, <2>8 DEF SbKept
<1>2. CASE /\ UNCHANGED <<sbHref, sbDue, sbRenew>> /\ sbCall' \in Call
           /\ sbState'[s] = "deleting"
           /\ \A u \in SbIds : u # s => sbState'[u] = sbState[u]
           /\ sbCall'.at = "delete" /\ sbCall'.on = s /\ sbCall'.name = sbHref[s]
  <2>1. /\ \A u \in SbIds : ~SbDeleting(u) /\ (SbDeleting(u)' <=> u = s)
        /\ ~Renewing'
    BY <1>2 DEF SbDeleting, Renewing
  <2>2. SbTakeTurns'
    BY <1>2, <2>1 DEF SbKept, SbTakeTurns, Renewing
  <2>3. SbNothingLeft'
    BY <1>2, <2>1 DEF SbKept, SbNothingLeft
  <2>4. SbOwnNames' /\ SbKnown' /\ SbThere'
    BY <1>2 DEF SbKept, SbOwnNames, SbKnown, SbThere
  <2>5. QED
    BY <2>2, <2>3, <2>4 DEF SbKept
<1>3. QED
  BY <1>1, <1>2, SbDisabling

\* A POST for a subscription of which nothing is left on the server, and its answer.
LEMMA SbAnswerKeeps ==
    ASSUME SbTypeOK, SbKept, NEW s \in SbIds, NEW ok \in BOOLEAN, NEW name \in Names,
           Posted(s, ok, name), SbEntered(s, ok, name), sbServer[s] \subseteq sbLost,
           \A u \in SbIds : ~SbDeleting(u)
    PROVE  (SbNothingLeft /\ SbOwnNames /\ SbKnown /\ SbThere)'
<1>1. /\ \A u \in SbIds : u # s => sbServer'[u] = sbServer[u]
      /\ sbLost \subseteq sbLost' /\ sbServer[s] \subseteq sbServer'[s]
      /\ sbServer'[s] \subseteq sbServer[s] \cup sbLost' \cup {name}
      /\ sbServer'[s] \subseteq sbServer[s] \cup Fresh
      /\ name # NoHref => ok /\ name \in sbServer'[s] /\ name \in Fresh
  BY SbPosts
<1>2. /\ sbState'[s] = IF ok THEN "active" ELSE "failed"
      /\ sbHref'[s] = IF ok THEN name ELSE sbHref[s]
      /\ \A u \in SbIds : u # s => sbState'[u] = sbState[u] /\ sbHref'[u] = sbHref[u]
  BY SbEntering
<1>3. \A u \in SbIds : NoHref \notin sbServer[u] /\ NoHref \notin sbServer'[u]
  <2>1. sbServer' \in [SbIds -> SUBSET Hrefs]
    BY SbPosts
  <2>2. QED
    BY <2>1, SbAssumption DEF SbTypeOK
<1>4. SbNothingLeft'
  BY <1>1, <1>2, <1>3 DEF SbKept, SbNothingLeft
<1>5. SbOwnNames'
  <2> SUFFICES ASSUME NEW u \in SbIds, NEW v \in SbIds, u # v
               PROVE  sbHref'[u] \notin sbServer'[v]
    BY DEF SbOwnNames
  <2>1. CASE v = s
    BY <1>1, <1>2, <2>1, FreshIsNew DEF SbKept, SbOwnNames
  <2>2. CASE u = s
    BY <1>1, <1>2, <1>3, <2>2, FreshIsNew DEF SbKept, SbOwnNames
  <2>3. CASE u # s /\ v # s
    BY <1>1, <1>2, <2>3 DEF SbKept, SbOwnNames
  <2>4. QED
    BY <2>1, <2>2, <2>3
<1>6. SbKnown'
  BY <1>1, <1>2, <1>3 DEF SbKept, SbKnown
<1>7. SbThere'
  BY <1>1, <1>2 DEF SbKept, SbThere
<1>8. QED
  BY <1>4, <1>5, <1>6, <1>7

\* A DELETE of a subscription's own name, while it is not active.
LEMMA SbDeleteKeeps ==
    ASSUME SbTypeOK, SbKept, NEW s \in SbIds, Deleted(s, sbHref[s]), sbState[s] # "active"
    PROVE  /\ sbServer'[s] \subseteq sbLost'
           /\ \A u \in SbIds : u # s => /\ sbServer'[u] = sbServer[u]
                                        /\ sbServer[u] \cap sbLost \subseteq sbLost'
           /\ \A u \in SbIds : sbServer'[u] \subseteq sbServer[u]
<1>1. /\ \A u \in SbIds : u # s => sbServer'[u] = sbServer[u]
      /\ sbServer'[s] \subseteq sbServer[s]
      /\ sbServer'[s] \cap {sbHref[s]} \subseteq sbLost' /\ sbLost \ {sbHref[s]} \subseteq sbLost'
  BY SbDeletes
<1>2. sbServer'[s] \subseteq sbLost'
  BY <1>1 DEF SbKept, SbKnown
<1>3. \A u \in SbIds : u # s => sbServer[u] \cap sbLost \subseteq sbLost'
  BY <1>1 DEF SbKept, SbOwnNames
<1>4. QED
  BY <1>1, <1>2, <1>3

\* In orderly use every step keeps what is known of the server.
LEMMA SbKeeps == SbTypeOK /\ sbOrderly /\ SbKept /\ [SbNext]_sbVars => SbKept'
<1> SUFFICES ASSUME SbTypeOK, sbOrderly, SbKept, [SbNext]_sbVars PROVE SbKept'
  OBVIOUS
<1>0. /\ sbCall \in Call /\ sbRenew \in Renewal /\ sbCall.on \in SbIds /\ sbRenew.on \in SbIds
      /\ sbCall.left \subseteq SbIds /\ sbRenew.left \subseteq SbIds /\ NoHref \in Names
  BY DEF SbTypeOK, Call, Renewal, Names
<1>1. CASE SbEnable
  <2>1. PICK s \in TrackedIds : Enable(s, [sbCall EXCEPT !.then = "one"])
    BY <1>1 DEF SbEnable
  <2> DEFINE rest == [sbCall EXCEPT !.then = "one"]
  <2>2. rest \in Call /\ rest.at = sbCall.at
    BY <1>0 DEF Call
  <2>3. /\ sbCall.at = "idle" /\ ~Renewing /\ UNCHANGED <<sbServer, sbLost>> /\ s \in SbIds
    BY <1>1 DEF SbEnable, SbFree, sbRemote, TrackedIds
  <2> HIDE DEF rest
  <2>4. Enable(s, rest)
    BY <2>1 DEF rest
  <2>5. QED
    BY <2>2, <2>3, <2>4, SbEnableKeeps
<1>2. CASE SbDisable
  <2>1. PICK s \in TrackedIds : Disable(s, [sbCall EXCEPT !.then = "one"])
    BY <1>2 DEF SbDisable
  <2> DEFINE rest == [sbCall EXCEPT !.then = "one"]
  <2>2. rest \in Call /\ rest.at = sbCall.at
    BY <1>0 DEF Call
  <2>3. /\ sbCall.at = "idle" /\ ~Renewing /\ UNCHANGED <<sbServer, sbLost>> /\ s \in SbIds
    BY <1>2 DEF SbDisable, SbFree, sbRemote, TrackedIds
  <2> HIDE DEF rest
  <2>4. Disable(s, rest)
    BY <2>1 DEF rest
  <2>5. QED
    BY <2>2, <2>3, <2>4, SbDisableKeeps
<1>3. Onwards.at \in {"idle", "next"}
  BY <1>0 DEF Onwards, Call
<1>4. CASE Created
  <2>1. PICK ok \in BOOLEAN, name \in Names :
            Posted(sbCall.on, ok, name) /\ SbEntered(sbCall.on, ok, name)
    BY <1>4 DEF Created, SbEntered
  <2>2. /\ UNCHANGED sbRenew /\ sbCall'.at \in {"idle", "next"} /\ sbCall.at = "create"
        /\ ~Renewing
    BY <1>3, <1>4 DEF Created, SbKept, SbTakeTurns
  <2>3. \A u \in SbIds : ~SbDeleting(u)
    BY <2>2 DEF SbDeleting, Renewing
  <2>4. sbServer[sbCall.on] \subseteq sbLost
    BY <1>0, <2>2, <2>3 DEF SbKept, SbTakeTurns, SbNothingLeft
  <2>5. (SbNothingLeft /\ SbOwnNames /\ SbKnown /\ SbThere)'
    BY <1>0, <2>1, <2>3, <2>4, SbAnswerKeeps
  <2>6. SbTakeTurns'
    BY <2>2 DEF SbKept, SbTakeTurns, Renewing
  <2>7. QED
    BY <2>5, <2>6 DEF SbKept
<1>5. CASE DeleteReturned
  <2>1. PICK after \in {"absent", "disabled"} : Cleared(sbCall.on, after)
    BY <1>5 DEF DeleteReturned
  <2>2. /\ sbCall.at = "delete" /\ ~Renewing /\ sbState[sbCall.on] = "deleting"
        /\ Deleted(sbCall.on, sbHref[sbCall.on]) /\ sbCall'.at \in {"idle", "next"}
    BY <1>3, <1>5 DEF DeleteReturned, SbKept, SbTakeTurns
  <2>3. /\ sbState'[sbCall.on] = after /\ sbHref'[sbCall.on] = NoHref
        /\ \A u \in SbIds : u # sbCall.on => sbState'[u] = sbState[u] /\ sbHref'[u] = sbHref[u]
        /\ sbRenew'.at = sbRenew.at /\ sbRenew'.on = sbRenew.on
        /\ sbRenew'.name = sbRenew.name /\ sbRenew'.orphan = sbRenew.orphan
    BY <1>0, <2>1, <2>2, SbClears DEF SubscriptionStates
  <2>4. /\ sbServer'[sbCall.on] \subseteq sbLost'
        /\ \A u \in SbIds : u # sbCall.on =>
               sbServer'[u] = sbServer[u] /\ sbServer[u] \cap sbLost \subseteq sbLost'
        /\ \A u \in SbIds : sbServer'[u] \subseteq sbServer[u]
    BY <1>0, <2>2, SbDeleteKeeps
  <2>5. \A u \in SbIds : (SbDeleting(u) => u = sbCall.on) /\ ~SbDeleting(u)'
    BY <2>2, <2>3 DEF SbDeleting, Renewing
  <2>6. \A u \in SbIds : NoHref \notin sbServer[u]
    BY SbAssumption DEF SbTypeOK
  <2>7. SbTakeTurns'
    BY <2>2, <2>3 DEF SbKept, SbTakeTurns, Renewing
  <2>8. SbNothingLeft'
    BY <2>3, <2>4, <2>5 DEF SbKept, SbNothingLeft
  <2>9. SbOwnNames'
    BY <2>3, <2>4, <2>6 DEF SbKept, SbOwnNames
  <2>10. SbKnown'
    BY <2>3, <2>4 DEF SbKept, SbKnown
  <2>11. SbThere'
    BY <2>3, <2>4 DEF SbKept, SbThere
  <2>12. QED
    BY <2>7, <2>8, <2>9, <2>10, <2>11 DEF SbKept
<1>6. CASE SbStart \/ SbReload
  <2>1. /\ UNCHANGED <<sbState, sbHref, sbRenew, sbServer, sbLost>> /\ sbCall.at = "idle"
        /\ ~Renewing
    BY <1>6 DEF SbStart, SbReload, SbFree, trackedSubs, sbRemote
  <2>2. sbCall'.at = "next"
    BY <1>0, <1>6 DEF SbStart, SbReload, Call
  <2>3. QED
    BY <2>1, <2>2 DEF SbKept, SbTakeTurns, SbNothingLeft, SbOwnNames, SbKnown, SbThere,
                      SbDeleting, Renewing
<1>7. CASE SbContinue
  <2>1. /\ UNCHANGED <<sbServer, sbLost>> /\ sbCall.at = "next" /\ ~Renewing
    BY <1>7 DEF SbContinue, sbRemote, SbKept, SbTakeTurns
  <2>2. ASSUME NEW s \in sbCall.left, NextOne(s) PROVE SbKept'
    <3> DEFINE rest == [sbCall EXCEPT !.left = @ \ {s}]
    <3>1. /\ s \in SbIds /\ rest \in Call /\ rest.at = sbCall.at
          /\ \/ Enable(s, rest) \/ Disable(s, rest)
             \/ sbCall' = rest /\ UNCHANGED <<sbState, sbHref, sbDue, sbRenew>>
      BY <2>2, SbNexting
    <3> HIDE DEF rest
    <3>2. CASE Enable(s, rest)
      BY <2>1, <3>1, <3>2, SbEnableKeeps
    <3>3. CASE Disable(s, rest)
      BY <2>1, <3>1, <3>3, SbDisableKeeps
    <3>4. CASE sbCall' = rest /\ UNCHANGED <<sbState, sbHref, sbDue, sbRenew>>
      BY <2>1, <3>1, <3>4 DEF SbKept, SbTakeTurns, SbNothingLeft, SbOwnNames, SbKnown, SbThere,
                              SbDeleting, Renewing
    <3>5. QED
      BY <3>1, <3>2, <3>3, <3>4
  <2>3. CASE LoopOver
    <3>1. /\ UNCHANGED sbHref /\ sbCall'.at \in {"next", "idle"}
          /\ sbRenew'.orphan = sbRenew.orphan /\ ~Renewing'
      <4> DEFINE wanted == {s \in SbIds : sbWanted[s] # "absent"}
      <4>1. /\ UNCHANGED sbHref
            /\ \/ sbCall' = [sbCall EXCEPT !.then = "reconcile", !.left = wanted]
               \/ sbCall' = [sbCall EXCEPT !.at = "idle"]
            /\ sbRenew' = sbRenew \/ sbRenew' = [sbRenew EXCEPT !.at = "sleep"]
        BY <2>3 DEF LoopOver, trackedSubs
      <4> HIDE DEF wanted
      <4>2. sbCall'.at \in {"next", "idle"}
        BY <1>0, <2>1, <4>1 DEF Call
      <4>3. sbRenew'.orphan = sbRenew.orphan /\ ~Renewing'
        BY <1>0, <2>1, <4>1 DEF Renewal, Renewing
      <4>4. QED
        BY <4>1, <4>2, <4>3
    <3>2. \A s \in SbIds : \/ sbState'[s] = sbState[s]
                           \/ sbState[s] = "absent" /\ sbState'[s] = "disabled"
      BY <2>3 DEF LoopOver, trackedSubs, SbTypeOK
    <3>3. \A s \in SbIds : ~SbDeleting(s) /\ ~SbDeleting(s)'
      BY <2>1, <3>1 DEF SbDeleting, Renewing
    <3>4. SbTakeTurns'
      BY <3>1 DEF SbKept, SbTakeTurns, Renewing
    <3>5. QED
      BY <2>1, <3>1, <3>2, <3>3, <3>4 DEF SbKept, SbNothingLeft, SbOwnNames, SbKnown, SbThere
  <2>4. QED
    BY <1>7, <2>2, <2>3 DEF SbContinue
<1>8. CASE SbStop
  <2>1. /\ UNCHANGED <<sbState, sbHref, sbCall>> /\ sbCall.at = "idle"
        /\ sbRenew'.at = "none" /\ sbRenew'.orphan = FALSE
    BY <1>0, <1>8 DEF SbStop, trackedSubs, Renewal
  <2>2. SbTakeTurns' /\ \A u \in SbIds : ~SbDeleting(u)'
    BY <2>1 DEF SbTakeTurns, Renewing, SbDeleting
  <2>3. CASE sbRenew.at = "delete"
    <3>1. /\ sbState[sbRenew.on] = "renewing" /\ Deleted(sbRenew.on, sbHref[sbRenew.on])
      BY <1>8, <2>3 DEF SbStop, SbKept, SbTakeTurns, Renewing
    <3>2. /\ sbServer'[sbRenew.on] \subseteq sbLost'
          /\ \A u \in SbIds : u # sbRenew.on =>
                 sbServer'[u] = sbServer[u] /\ sbServer[u] \cap sbLost \subseteq sbLost'
          /\ \A u \in SbIds : sbServer'[u] \subseteq sbServer[u]
      BY <1>0, <3>1, SbDeleteKeeps
    <3>3. SbNothingLeft'
      BY <2>1, <3>2 DEF SbKept, SbNothingLeft, SbDeleting
    <3>4. SbOwnNames' /\ SbKnown' /\ SbThere'
      BY <2>1, <3>1, <3>2 DEF SbKept, SbOwnNames, SbKnown, SbThere
    <3>5. QED
      BY <2>2, <3>3, <3>4 DEF SbKept
  <2>4. CASE sbRenew.at # "delete"
    <3>1. \/ Posted(sbRenew.on, FALSE, NoHref) \/ UNCHANGED <<sbServer, sbLost>>
      BY <1>8, <2>4 DEF SbStop, sbRemote
    <3>2. /\ \A u \in SbIds : u # sbRenew.on => sbServer'[u] = sbServer[u]
          /\ sbServer[sbRenew.on] \subseteq sbServer'[sbRenew.on]
          /\ sbLost \subseteq sbLost'
          /\ sbServer'[sbRenew.on] \subseteq sbServer[sbRenew.on] \cup sbLost' \cup {NoHref}
          /\ sbServer'[sbRenew.on] \subseteq sbServer[sbRenew.on] \cup Fresh
          /\ NoHref \notin sbServer'[sbRenew.on]
      <4>1. CASE Posted(sbRenew.on, FALSE, NoHref)
        BY <1>0, <4>1, SbPosts, SbAssumption
      <4>2. CASE UNCHANGED <<sbServer, sbLost>>
        BY <1>0, <4>2, SbAssumption DEF SbTypeOK
      <4>3. QED
        BY <3>1, <4>1, <4>2
    <3>3. SbNothingLeft' /\ SbKnown' /\ SbThere'
      BY <2>1, <2>4, <3>2 DEF SbKept, SbNothingLeft, SbKnown, SbThere, SbDeleting
    <3>4. SbOwnNames'
      BY <2>1, <3>2, FreshIsNew DEF SbKept, SbOwnNames
    <3>5. QED
      BY <2>2, <3>3, <3>4 DEF SbKept
  <2>5. QED
    BY <2>3, <2>4
<1>9. CASE RenewalDue \/ UNCHANGED sbVars
  <2>1. UNCHANGED <<sbState, sbHref, sbCall, sbRenew, sbServer, sbLost>>
    BY <1>9 DEF RenewalDue, sbVars, trackedSubs, sbRemote
  <2>2. QED
    BY <2>1 DEF SbKept, SbTakeTurns, SbNothingLeft, SbOwnNames, SbKnown, SbThere, SbDeleting,
                Renewing
<1>10. CASE RnWakes
  <2>1. /\ UNCHANGED <<sbState, sbHref, sbCall, sbServer, sbLost>> /\ ~Renewing
        /\ ~Renewing' /\ sbRenew'.orphan = sbRenew.orphan
    BY <1>0, <1>10 DEF RnWakes, Renewal, Renewing, trackedSubs, sbRemote
  <2>2. QED
    BY <2>1 DEF SbKept, SbTakeTurns, SbNothingLeft, SbOwnNames, SbKnown, SbThere, SbDeleting,
                Renewing
<1>11. CASE RnNext
  <2>1. /\ UNCHANGED <<sbHref, sbCall, sbServer, sbLost>> /\ sbCall.at = "idle" /\ ~Renewing
    BY <1>11 DEF RnNext, sbRemote, Renewing
  <2>2. CASE /\ UNCHANGED sbState
             /\ \/ sbRenew' = [sbRenew EXCEPT !.at = "sleep", !.left = {}]
                \/ \E s \in sbRenew.left : sbRenew' = [sbRenew EXCEPT !.left = @ \ {s}]
    <3>1. ~Renewing' /\ sbRenew'.orphan = sbRenew.orphan
      BY <1>0, <2>1, <2>2 DEF Renewal, Renewing
    <3>2. QED
      BY <2>1, <2>2, <3>1 DEF SbKept, SbTakeTurns, SbNothingLeft, SbOwnNames, SbKnown, SbThere,
                              SbDeleting, Renewing
  <2>3. ASSUME NEW s \in sbRenew.left, sbState' = [sbState EXCEPT ![s] = "renewing"],
               sbState[s] = "active",
               sbRenew' = [[sbRenew EXCEPT !.left = @ \ {s}] EXCEPT
                               !.on = s, !.name = sbHref[s],
                               !.at = IF sbHref[s] = NoHref THEN "create" ELSE "delete"]
        PROVE  SbKept'
    <3>1. sbHref[s] \in Names /\ s \in SbIds
      BY <1>0 DEF SbTypeOK
    <3>2. /\ sbRenew'.at = IF sbHref[s] = NoHref THEN "create" ELSE "delete"
          /\ sbRenew'.on = s /\ sbRenew'.name = sbHref[s] /\ sbRenew'.orphan = sbRenew.orphan
      BY <1>0, <2>3, <3>1 DEF Renewal
    <3>3. /\ sbState'[s] = "renewing" /\ \A u \in SbIds : u # s => sbState'[u] = sbState[u]
      BY <2>3, <3>1 DEF SbTypeOK
    <3>4. SbTakeTurns'
      BY <2>1, <3>2, <3>3 DEF SbKept, SbTakeTurns, Renewing
    <3>5. \A u \in SbIds : /\ ~SbDeleting(u)
                           /\ SbDeleting(u)' <=> u = s /\ sbHref[s] # NoHref
      BY <2>1, <3>2 DEF SbDeleting, Renewing
    <3>6. \A u \in SbIds : NoHref \notin sbServer[u]
      BY SbAssumption DEF SbTypeOK
    <3>7. SbNothingLeft'
      BY <2>1, <3>1, <3>3, <3>5, <3>6 DEF SbKept, SbNothingLeft, SbKnown
    <3>8. SbOwnNames' /\ SbKnown' /\ SbThere'
      BY <2>1, <3>3 DEF SbKept, SbOwnNames, SbKnown, SbThere
    <3>9. QED
      BY <3>4, <3>7, <3>8 DEF SbKept
  <2>4. QED
    BY <1>11, <2>2, <2>3 DEF RnNext
<1>12. CASE RnDeleted
  <2>1. /\ UNCHANGED <<sbState, sbHref, sbCall>> /\ sbRenew.at = "delete"
        /\ sbState[sbRenew.on] = "renewing" /\ Deleted(sbRenew.on, sbHref[sbRenew.on])
        /\ sbCall.at = "idle"
    BY <1>12 DEF RnDeleted, trackedSubs, SbKept, SbTakeTurns, Renewing
  <2>2. /\ sbRenew'.at = "create" /\ sbRenew'.orphan = sbRenew.orphan
        /\ sbRenew'.on = sbRenew.on
    BY <1>0, <1>12 DEF RnDeleted, Renewal
  <2>3. /\ sbServer'[sbRenew.on] \subseteq sbLost'
        /\ \A u \in SbIds : u # sbRenew.on =>
               sbServer'[u] = sbServer[u] /\ sbServer[u] \cap sbLost \subseteq sbLost'
        /\ \A u \in SbIds : sbServer'[u] \subseteq sbServer[u]
    BY <1>0, <2>1, SbDeleteKeeps
  <2>4. SbTakeTurns'
    BY <2>1, <2>2 DEF SbKept, SbTakeTurns, Renewing
  <2>5. SbNothingLeft'
    BY <2>1, <2>3 DEF SbKept, SbNothingLeft, SbDeleting
  <2>6. SbOwnNames' /\ SbKnown' /\ SbThere'
    BY <2>1, <2>3 DEF SbKept, SbOwnNames, SbKnown, SbThere
  <2>7. QED
    BY <2>4, <2>5, <2>6 DEF SbKept
<1>13. CASE RnCreated
  <2>1. /\ UNCHANGED sbCall /\ sbRenew.at = "create" /\ ~sbRenew.orphan
        /\ sbState[sbRenew.on] = "renewing" /\ sbCall.at = "idle"
    BY <1>13 DEF RnCreated, SbKept, SbTakeTurns, Renewing
  <2>2. PICK ok \in BOOLEAN, name \in Names :
            Posted(sbRenew.on, ok, name) /\ SbEntered(sbRenew.on, ok, name)
    BY <1>13, <2>1 DEF RnCreated, SbEntered
  <2>3. sbRenew'.at = "next" /\ sbRenew'.orphan = FALSE
    BY <1>0, <1>13 DEF RnCreated, Renewal
  <2>4. \A u \in SbIds : ~SbDeleting(u)
    BY <2>1 DEF SbDeleting
  <2>5. sbServer[sbRenew.on] \subseteq sbLost
    BY <1>0, <2>1, <2>4 DEF SbKept, SbNothingLeft
  <2>6. (SbNothingLeft /\ SbOwnNames /\ SbKnown /\ SbThere)'
    BY <1>0, <2>2, <2>4, <2>5, SbAnswerKeeps
  <2>7. SbTakeTurns'
    BY <2>1, <2>3 DEF SbTakeTurns, Renewing
  <2>8. QED
    BY <2>6, <2>7 DEF SbKept
<1>14. QED
  BY <1>1, <1>2, <1>4, <1>5, <1>6, <1>7, <1>8, <1>9, <1>10, <1>11, <1>12, <1>13 DEF SbNext

\* Every step keeps what the subscriptions rest on.
LEMMA SbPreserved == SbInv /\ [SbNext]_sbVars => SbInv'
<1> SUFFICES ASSUME SbInv, [SbNext]_sbVars PROVE SbInv'
  OBVIOUS
<1>1. UNCHANGED sbOrderly
  BY DEF SbNext, SbEnable, SbDisable, Created, DeleteReturned, SbStart, SbReload, SbContinue,
         SbStop, RenewalDue, RnWakes, RnNext, RnDeleted, RnCreated, sbVars
<1>2. QED
  BY <1>1, SbTypes, SbKeeps DEF SbInv

\* No subscription of the server is forgotten, and what is said to be active is there, for any
\* number of subscriptions, reloads, renewals and requests that fail.
THEOREM SubscriptionsAreSafe == SbBehaviour => [](SbTypeOK /\ SubsSafe)
<1>1. ASSUME SbInv PROVE SbTypeOK /\ SubsSafe
  BY <1>1 DEF SbInv, SbKept, SbKnown, SbThere, SubsSafe, NothingForgotten, ActiveIsThere
<1>2. QED
  BY <1>1, SbInitially, SbPreserved, PTL DEF SbBehaviour

-----------------------------------------------------------------------------
(***************************************************************************)
(* The chain of subscriptions.                                             *)
(***************************************************************************)
ChBehaviour == ChInit /\ [][ChNext]_chVars

\* A request that was sent is the first step of its job.
ChSentFirst == \A t \in ChWorkers :
    \A i \in 2..Len(chJob[t]) : chJob[t][i][1] \notin {"post", "delete"}

\* One task at a time: Main in setup and cleanup, where it does nothing else, and none before
\* and after.
ChCleaning == \E S \in SUBSET Paths :
    LET rest == ForEach("cleanup", S) IN
    \/ chJob[Main] = <<rest>> /\ \A p \in Paths \ S : chTracked[p] = {}
    \/ \E q \in Paths :
           /\ \/ chJob[Main] = <<Do("unsubscribe", q), rest>>
              \/ \E n \in ChNames : /\ chJob[Main] = <<Do("delete", <<q, n>>), rest>>
                                    /\ chTracked[q] = {n}
           /\ \A p \in Paths \ (S \cup {q}) : chTracked[p] = {}
    \/ chJob[Main] = << >> /\ \A p \in Paths : chTracked[p] = {}
ChOneTask ==
    /\ \A t, u \in ChWorkers : chJob[t] # << >> /\ chJob[u] # << >> => t = u
    /\ chPhase \in {"new", "down"} => ChIdle
    /\ chPhase \in {"setup", "cleanup"} => \A t \in ChTasks : chJob[t] = << >>
    /\ chPhase = "cleanup" => ChCleaning
    /\ chPhase = "down" => \A p \in Paths : chTracked[p] = {}

\* What a request that was sent is about has not changed since.
ChAsSent == \A t \in ChWorkers : chJob[t] # << >> =>
    /\ Head(chJob[t])[1] = "post" => chTracked[Head(chJob[t])[2]] = {}
    /\ Head(chJob[t])[1] = "delete" =>
           chTracked[Head(chJob[t])[2][1]] \subseteq {Head(chJob[t])[2][2]}

\* Of what the server has cancelled it has nothing, until the client is told.
ChCancelled ==
    /\ chErrors # {} => chPhase \in {"up", "cleanup", "down"} /\ (chPhase = "up" => ChIdle)
    /\ \A p, q \in chErrors : p = q
    /\ \A p \in chErrors : chServer[p] \subseteq chLost[p]

ChKnown == \A p \in Paths : chServer[p] \subseteq chLost[p] \cup chTracked[p]

ChKept == ChOneTask /\ ChAsSent /\ ChCancelled /\ ChKnown
ChInv == ChTypeOK /\ (chOrderly => ChSentFirst /\ ChKept)

-----------------------------------------------------------------------------
(* Jobs and their steps.                                                   *)

\* What each kind of step is about.
LEMMA ChStepKinds ==
    ASSUME NEW s \in ChSteps
    PROVE  /\ s = <<s[1], s[2]>>
           /\ s[1] \in {"subscribe", "post", "unsubscribe"} => s[2] \in Paths
           /\ s[1] = "delete" => s[2] \in Paths \X ChNames
           /\ s[1] = "list" => s[2] \in {"setup", "program", "fsa"}
           /\ s[1] \in {"track", "programs", "gone", "each"} => s[2] \in ChFsas
           /\ s[1] = "listed" => s[2] \in SUBSET ChFsas
           /\ s[1] = "left" => s[2] \in ChFsas \X (SUBSET ChFsas) \X (SUBSET ChFsas)
           /\ s[1] = "for" =>
                  s[2] \in ({"setup", "program", "removed", "added"} \X (SUBSET ChFsas))
                           \cup ({"cleanup"} \X (SUBSET Paths))
BY DEF ChSteps

\* The steps that a job is made of.
LEMMA ChStepsAre ==
    /\ \A p \in Paths : /\ Do("subscribe", p) \in ChSteps /\ Do("post", p) \in ChSteps
                        /\ Do("unsubscribe", p) \in ChSteps
    /\ \A p \in Paths, n \in ChNames : Do("delete", <<p, n>>) \in ChSteps
    /\ \A a \in {"setup", "program", "fsa"} : Do("list", a) \in ChSteps
    /\ \A f \in ChFsas : /\ Do("track", f) \in ChSteps /\ Do("programs", f) \in ChSteps
                         /\ Do("gone", f) \in ChSteps /\ Do("each", f) \in ChSteps
    /\ \A S \in SUBSET ChFsas : Do("listed", S) \in ChSteps
    /\ \A f \in ChFsas : \A S, T \in SUBSET ChFsas : Do("left", <<f, S, T>>) \in ChSteps
    /\ \A loop \in {"setup", "program", "removed", "added"} :
           \A S \in SUBSET ChFsas : ForEach(loop, S) \in ChSteps
    /\ \A S \in SUBSET Paths : ForEach("cleanup", S) \in ChSteps
BY DEF ChSteps, Do, ForEach

\* The lists that are subscribed to.
LEMMA ChPathsAre == /\ FsaList \in Paths
                    /\ \A f \in ChFsas : ProgramList(f) \in Paths /\ ControlList(f) \in Paths
BY DEF Paths

\* A job of which the first step is replaced.
LEMMA ChReplaced ==
    ASSUME NEW S, NEW job \in Seq(S), job # << >>, NEW steps \in Seq(S)
    PROVE  /\ steps \o Tail(job) \in Seq(S) /\ Len(job) \in Nat \ {0} /\ Len(steps) \in Nat
           /\ Len(steps \o Tail(job)) = Len(steps) + Len(job) - 1
           /\ \A i \in 1..Len(steps) + Len(job) - 1 :
                  (steps \o Tail(job))[i] =
                      IF i <= Len(steps) THEN steps[i] ELSE job[i - Len(steps) + 1]
<1>1. /\ Len(job) \in Nat \ {0} /\ Len(steps) \in Nat
      /\ Tail(job) \in Seq(S) /\ Len(Tail(job)) = Len(job) - 1
      /\ \A i \in 1..Len(job) - 1 : Tail(job)[i] = job[i + 1]
  BY EmptySeq, HeadTailProperties
<1> DEFINE tail == Tail(job)
<1> HIDE DEF tail
<1>2. /\ steps \o tail \in Seq(S) /\ Len(steps \o tail) = Len(steps) + Len(tail)
      /\ \A i \in 1..Len(steps) + Len(tail) :
             (steps \o tail)[i] = IF i <= Len(steps) THEN steps[i] ELSE tail[i - Len(steps)]
  BY <1>1, ConcatProperties DEF tail
<1>3. QED
  BY <1>1, <1>2 DEF tail

\* A job that is at an operation has its first step there.
LEMMA ChAtIs ==
    ASSUME ChTypeOK, NEW t \in ChWorkers, NEW op, At(t, op)
    PROVE  /\ chJob[t] \in Seq(ChSteps) /\ chJob[t] # << >> /\ Head(chJob[t]) = chJob[t][1]
           /\ Head(chJob[t]) \in ChSteps /\ Head(chJob[t]) = <<op, On(t)>>
           /\ Len(chJob[t]) \in Nat \ {0}
<1>1. chJob[t] \in Seq(ChSteps) /\ chJob[t] # << >> /\ Head(chJob[t])[1] = op
  BY DEF ChTypeOK, At
<1>2. Head(chJob[t]) \in ChSteps /\ Len(chJob[t]) \in Nat \ {0} /\ Head(chJob[t]) = chJob[t][1]
  BY <1>1, EmptySeq, HeadTailProperties
<1>3. QED
  BY <1>1, <1>2, ChStepKinds DEF On

Sent == {"post", "delete"}

\* The body of a loop asks nobody at once.
LEMMA ChBodies ==
    ASSUME NEW loop, NEW S, NEW f \in S,
           \/ loop \in {"setup", "program", "removed", "added"} /\ S \in SUBSET ChFsas
           \/ loop = "cleanup" /\ S \in SUBSET Paths
    PROVE  LET steps == ChBody(loop, f) \o <<ForEach(loop, S \ {f})>> IN
           /\ steps \in Seq(ChSteps)
           /\ \A i \in 1..Len(steps) : steps[i][1] \notin Sent
<1> DEFINE body == ChBody(loop, f)
           last == ForEach(loop, S \ {f})
<1>1. last \in ChSteps /\ last[1] \notin Sent
  <2>1. S \ {f} \in SUBSET S
    OBVIOUS
  <2>2. last \in ChSteps
    BY <2>1, ChStepsAre
  <2>3. QED
    BY <2>2 DEF ForEach, Do, Sent
<1>2. body \in Seq(ChSteps) /\ \A i \in 1..Len(body) : body[i][1] \notin Sent
  <2>1. CASE loop = "setup"
    <3> DEFINE a == Do("track", f)
               b == Do("subscribe", ProgramList(f))
               c == Do("programs", f)
    <3>1. a \in ChSteps /\ b \in ChSteps /\ c \in ChSteps
      BY <2>1, ChStepsAre, ChPathsAre
    <3>2. a[1] \notin Sent /\ b[1] \notin Sent /\ c[1] \notin Sent
      BY DEF Do, Sent
    <3>3. body = <<a, b, c>>
      BY <2>1 DEF ChBody
    <3> HIDE DEF a, b, c, body
    <3>4. QED
      BY <3>1, <3>2, <3>3
  <2>2. CASE loop = "added"
    <3> DEFINE a == Do("track", f)
               b == Do("programs", f)
    <3>1. a \in ChSteps /\ b \in ChSteps
      BY <2>2, ChStepsAre
    <3>2. a[1] \notin Sent /\ b[1] \notin Sent
      BY DEF Do, Sent
    <3>3. body = <<a, b>>
      BY <2>2 DEF ChBody
    <3> HIDE DEF a, b, body
    <3>4. QED
      BY <3>1, <3>2, <3>3
  <2>3. CASE loop \in {"program", "removed", "cleanup"}
    <3>1. PICK a \in ChSteps : body = <<a>> /\ a[1] \notin Sent
      <4>1. CASE loop = "program"
        <5>1. Do("programs", f) \in ChSteps /\ body = <<Do("programs", f)>>
          BY <4>1, ChStepsAre DEF ChBody
        <5>2. QED
          BY <5>1 DEF Do, Sent
      <4>2. CASE loop = "removed"
        <5>1. Do("gone", f) \in ChSteps /\ body = <<Do("gone", f)>>
          BY <4>2, ChStepsAre DEF ChBody
        <5>2. QED
          BY <5>1 DEF Do, Sent
      <4>3. CASE loop = "cleanup"
        <5>1. Do("unsubscribe", f) \in ChSteps /\ body = <<Do("unsubscribe", f)>>
          BY <4>3, ChStepsAre DEF ChBody
        <5>2. QED
          BY <5>1 DEF Do, Sent
      <4>4. QED
        BY <2>3, <4>1, <4>2, <4>3
    <3> HIDE DEF body
    <3>2. QED
      BY <3>1
  <2>4. QED
    BY <2>1, <2>2, <2>3
<1> HIDE DEF body, last
<1>3. <<last>> \in Seq(ChSteps) /\ Len(<<last>>) = 1 /\ <<last>>[1] = last
  BY <1>1
<1> DEFINE tail == <<last>>
<1> HIDE DEF tail
<1>4. /\ body \o tail \in Seq(ChSteps) /\ Len(body \o tail) = Len(body) + 1
      /\ Len(body) \in Nat
      /\ \A i \in 1..Len(body) + 1 :
             (body \o tail)[i] = IF i <= Len(body) THEN body[i] ELSE tail[i - Len(body)]
  BY <1>2, <1>3, ConcatProperties, LenProperties DEF tail
<1>5. \A i \in 1..Len(body) + 1 : (body \o tail)[i][1] \notin Sent
  BY <1>1, <1>2, <1>3, <1>4 DEF tail
<1>6. QED
  BY <1>4, <1>5 DEF tail, body, last

\* A task that goes on: the requests that are sent are still first, and of its old steps only
\* the first has gone.
LEMMA ChGoesOn ==
    ASSUME ChTypeOK, NEW t \in ChWorkers, chJob[t] # << >>, NEW steps \in Seq(ChSteps),
           Instead(t, steps), \A i \in 2..Len(steps) : steps[i][1] \notin Sent
    PROVE  /\ chJob' \in [ChWorkers -> Seq(ChSteps)]
           /\ \A u \in ChWorkers : u # t => chJob'[u] = chJob[u]
           /\ chJob'[t] = steps \o Tail(chJob[t])
           /\ ChSentFirst => ChSentFirst'
           /\ Len(steps) > 0 => chJob'[t] # << >> /\ Head(chJob'[t]) = steps[1]
           /\ ChSentFirst /\ Len(steps) = 0 /\ chJob'[t] # << >> =>
                  Head(chJob'[t])[1] \notin Sent
<1> DEFINE job == steps \o Tail(chJob[t])
<1>1. chJob \in [ChWorkers -> Seq(ChSteps)] /\ chJob[t] \in Seq(ChSteps)
  BY DEF ChTypeOK
<1>2. /\ job \in Seq(ChSteps) /\ Len(chJob[t]) \in Nat \ {0} /\ Len(steps) \in Nat
      /\ Len(job) = Len(steps) + Len(chJob[t]) - 1
      /\ \A i \in 1..Len(steps) + Len(chJob[t]) - 1 :
             job[i] = IF i <= Len(steps) THEN steps[i] ELSE chJob[t][i - Len(steps) + 1]
  BY <1>1, ChReplaced
<1>3. chJob' = [chJob EXCEPT ![t] = job]
  BY DEF Instead
<1> HIDE DEF job
<1>4. /\ chJob' \in [ChWorkers -> Seq(ChSteps)] /\ chJob'[t] = job
      /\ \A u \in ChWorkers : u # t => chJob'[u] = chJob[u]
  BY <1>1, <1>2, <1>3
<1>5. ASSUME ChSentFirst PROVE ChSentFirst'
  <2>1. ASSUME NEW i \in 2..Len(job) PROVE job[i][1] \notin {"post", "delete"}
    <3>1. CASE i <= Len(steps)
      BY <1>2, <3>1 DEF Sent
    <3>2. CASE i > Len(steps)
      <4>1. i - Len(steps) + 1 \in 2..Len(chJob[t]) /\ job[i] = chJob[t][i - Len(steps) + 1]
        BY <1>2, <3>2
      <4>2. QED
        BY <1>5, <4>1 DEF ChSentFirst
    <3>3. QED
      BY <1>2, <3>1, <3>2
  <2>2. QED
    BY <1>4, <1>5, <2>1 DEF ChSentFirst
<1>6. Len(steps) > 0 => job # << >> /\ Head(job) = steps[1]
  BY <1>2, EmptySeq, HeadTailProperties
<1>7. ASSUME ChSentFirst, Len(steps) = 0, job # << >> PROVE Head(job)[1] \notin Sent
  <2>1. Len(job) \in Nat \ {0} /\ Head(job) = job[1]
    BY <1>2, <1>7, EmptySeq, HeadTailProperties
  <2>2. job[1] = chJob[t][2] /\ 2 \in 2..Len(chJob[t])
    BY <1>2, <1>7, <2>1
  <2>3. QED
    BY <1>7, <2>1, <2>2 DEF ChSentFirst, Sent
<1>8. QED
  BY <1>4, <1>5, <1>6, <1>7 DEF job

\* Nothing is discovered or subscribed to at first.
LEMMA ChInitially == ChInit => ChInv
<1> SUFFICES ASSUME ChInit PROVE ChInv
  OBVIOUS
<1>1. \A t \in ChWorkers : chJob[t] = << >>
  BY DEF ChInit
<1>2. ChTypeOK
  <2>1. chJob \in [ChWorkers -> Seq(ChSteps)]
    BY DEF ChInit
  <2>2. chEvents \in 0..ChEvents
    BY DEF ChInit
  <2>3. QED
    BY <2>1, <2>2 DEF ChInit, ChTypeOK
<1>3. ChSentFirst
  BY <1>1 DEF ChSentFirst
<1>4. ChKept
  BY <1>1 DEF ChInit, ChKept, ChOneTask, ChAsSent, ChCancelled, ChKnown, ChIdle
<1>5. QED
  BY <1>2, <1>3, <1>4 DEF ChInv

\* Other steps of a task than sending a request, and those that send one.
ChOther(t) == \E steps \in Seq(ChSteps) :
    Instead(t, steps) /\ \A i \in 1..Len(steps) : steps[i][1] \notin Sent
ChAsks(t) ==
    \/ /\ At(t, "subscribe") /\ On(t) \in Paths /\ chTracked[On(t)] = {} /\ UNCHANGED chTracked
       /\ Instead(t, <<Do("post", On(t))>>)
    \/ /\ At(t, "unsubscribe") /\ On(t) \in Paths /\ UNCHANGED chTracked
       /\ \E n \in chTracked[On(t)] \ {Unnamed} : Instead(t, <<Do("delete", <<On(t), n>>)>>)

\* What each step of a task asks of its list of steps.
LEMMA ChReplaces ==
    ASSUME ChTypeOK, NEW t \in ChWorkers, ChStep(t)
    PROVE  /\ chJob[t] # << >>
           /\ Raise(t) \/ ChOther(t) \/ ChAsks(t)
<1>0. << >> \in Seq(ChSteps) /\ \A i \in 1..Len(<< >>) : << >>[i][1] \notin Sent
  OBVIOUS
<1>1. ASSUME Instead(t, << >>)
      PROVE  ChOther(t)
  BY <1>0, <1>1 DEF ChOther
<1>2. ASSUME NEW s \in ChSteps, Instead(t, <<s>>), s[1] \notin Sent
      PROVE  ChOther(t)
  <2>1. <<s>> \in Seq(ChSteps) /\ \A i \in 1..Len(<<s>>) : <<s>>[i][1] \notin Sent
    BY <1>2
  <2>2. QED
    BY <1>2, <2>1 DEF ChOther
<1>3. ASSUME NEW r \in ChSteps, NEW s \in ChSteps, Instead(t, <<r, s>>), r[1] \notin Sent, s[1] \notin Sent
      PROVE  ChOther(t)
  <2>1. <<r, s>> \in Seq(ChSteps) /\ \A i \in 1..Len(<<r, s>>) : <<r, s>>[i][1] \notin Sent
    BY <1>3
  <2>2. QED
    BY <1>3, <2>1 DEF ChOther
<1>4. CASE Subscribe(t)
  <2>1. /\ At(t, "subscribe") /\ UNCHANGED chTracked
        /\ \/ Instead(t, << >>)
           \/ chTracked[On(t)] = {} /\ Instead(t, <<Do("post", On(t))>>)
    <3>1. /\ At(t, "subscribe") /\ UNCHANGED chTracked
          /\ Instead(t, IF chTracked[On(t)] # {} THEN << >> ELSE <<Do("post", On(t))>>)
      BY <1>4 DEF Subscribe, chManager
    <3>2. \/ chTracked[On(t)] # {} /\ Instead(t, << >>)
          \/ chTracked[On(t)] = {} /\ Instead(t, <<Do("post", On(t))>>)
      BY <3>1 DEF Instead
    <3>3. QED
      BY <3>1, <3>2
  <2>2. chJob[t] # << >> /\ On(t) \in Paths
    BY <2>1, ChAtIs, ChStepKinds
  <2>3. QED
    BY <1>1, <2>1, <2>2 DEF ChAsks
<1>5. CASE SubscribeAnswered(t)
  <2>1. At(t, "post") /\ Instead(t, << >>)
    BY <1>5 DEF SubscribeAnswered
  <2>2. QED
    BY <1>1, <2>1, ChAtIs
<1>6. CASE Unsubscribe(t)
  <2>1. /\ At(t, "unsubscribe")
        /\ \/ Instead(t, << >>)
           \/ /\ UNCHANGED chTracked
              /\ \E n \in chTracked[On(t)] \ {Unnamed} : Instead(t, <<Do("delete", <<On(t), n>>)>>)
    BY <1>6 DEF Unsubscribe
  <2>2. chJob[t] # << >> /\ On(t) \in Paths
    BY <2>1, ChAtIs, ChStepKinds
  <2>3. QED
    BY <1>1, <2>1, <2>2 DEF ChAsks
<1>7. CASE UnsubscribeAnswered(t)
  <2>1. At(t, "delete") /\ (Raise(t) \/ Instead(t, << >>))
    BY <1>7 DEF UnsubscribeAnswered
  <2>2. QED
    BY <1>1, <2>1, ChAtIs
<1>8. CASE ListAnswered(t)
  <2>1. At(t, "list") /\ (Instead(t, ListSteps(t)) \/ Instead(t, << >>))
    BY <1>8 DEF ListAnswered
  <2>2. chJob[t] # << >> /\ On(t) \in {"setup", "program", "fsa"}
    BY <2>1, ChAtIs, ChStepKinds
  <2>3. CASE chList # {} /\ On(t) = "fsa"
    <3> DEFINE a == ForEach("removed", chFsa \ chList)
               b == ForEach("added", chList \ chFsa)
               c == Do("listed", chList)
    <3>1. a \in ChSteps /\ b \in ChSteps /\ c \in ChSteps
      BY ChStepsAre DEF ChTypeOK
    <3>2. a[1] \notin Sent /\ b[1] \notin Sent /\ c[1] \notin Sent
      BY DEF ForEach, Do, Sent
    <3>3. ListSteps(t) = <<a, b, c>>
      BY <2>3 DEF ListSteps
    <3> HIDE DEF a, b, c
    <3>4. <<a, b, c>> \in Seq(ChSteps) /\ \A i \in 1..Len(<<a, b, c>>) : <<a, b, c>>[i][1] \notin Sent
      BY <3>1, <3>2
    <3>5. QED
      BY <1>1, <2>1, <2>2, <3>3, <3>4 DEF ChOther
  <2>4. CASE chList # {} /\ On(t) \in {"setup", "program"}
    <3>1. ForEach(On(t), chList) \in ChSteps /\ ListSteps(t) = <<ForEach(On(t), chList)>>
      BY <2>4, ChStepsAre DEF ChTypeOK, ListSteps
    <3>2. ForEach(On(t), chList)[1] \notin Sent
      BY DEF ForEach, Do, Sent
    <3>3. QED
      BY <1>1, <1>2, <2>1, <2>2, <3>1, <3>2
  <2>5. CASE chList = {}
    BY <1>1, <2>1, <2>2, <2>5 DEF ListSteps
  <2>6. QED
    BY <2>2, <2>3, <2>4, <2>5
<1>9. CASE ForNext(t)
  <2> DEFINE loop == On(t)[1]
             left == On(t)[2]
  <2>1. /\ At(t, "for")
        /\ \/ Instead(t, << >>)
           \/ \E f \in left : Instead(t, ChBody(loop, f) \o <<ForEach(loop, left \ {f})>>)
    BY <1>9 DEF ForNext
  <2>2. /\ chJob[t] # << >>
        /\ \/ loop \in {"setup", "program", "removed", "added"} /\ left \in SUBSET ChFsas
           \/ loop = "cleanup" /\ left \in SUBSET Paths
    BY <2>1, ChAtIs, ChStepKinds
  <2> HIDE DEF loop, left
  <2>3. ASSUME NEW f \in left, Instead(t, ChBody(loop, f) \o <<ForEach(loop, left \ {f})>>)
        PROVE  ChOther(t)
    <3> DEFINE steps == ChBody(loop, f) \o <<ForEach(loop, left \ {f})>>
    <3>1. steps \in Seq(ChSteps) /\ \A i \in 1..Len(steps) : steps[i][1] \notin Sent
      BY <2>2, ChBodies
    <3>2. Instead(t, steps)
      BY <2>3
    <3> HIDE DEF steps
    <3>3. QED
      BY <3>1, <3>2 DEF ChOther
  <2>4. QED
    BY <1>1, <2>1, <2>2, <2>3
<1>10. CASE ProgramsAnswered(t)
  <2>1. /\ At(t, "programs")
        /\ \/ Instead(t, << >>) \/ Instead(t, <<Do("subscribe", ControlList(On(t)))>>)
    BY <1>10 DEF ProgramsAnswered
  <2>2. chJob[t] # << >> /\ On(t) \in ChFsas
    BY <2>1, ChAtIs, ChStepKinds
  <2>3. QED
    <3>1. /\ Do("subscribe", ControlList(On(t))) \in ChSteps
          /\ Do("subscribe", ControlList(On(t)))[1] \notin Sent
      BY <2>2, ChStepsAre, ChPathsAre DEF Do, Sent
    <3>2. QED
      BY <1>1, <1>2, <2>1, <2>2, <3>1
<1>11. CASE FsaGone(t)
  <2>1. /\ At(t, "gone")
        /\ \/ Instead(t, << >>)
           \/ Instead(t, <<Do("unsubscribe", ProgramList(On(t))), Do("each", On(t))>>)
    BY <1>11 DEF FsaGone
  <2>2. chJob[t] # << >> /\ On(t) \in ChFsas
    BY <2>1, ChAtIs, ChStepKinds
  <2>3. /\ Do("unsubscribe", ProgramList(On(t))) \in ChSteps /\ Do("each", On(t)) \in ChSteps
        /\ Do("each", On(t))[1] \notin Sent
        /\ Do("unsubscribe", ProgramList(On(t)))[1] \notin Sent
    BY <2>2, ChStepsAre, ChPathsAre DEF Do, Sent
  <2>4. QED
    BY <1>1, <1>3, <2>1, <2>2, <2>3
<1>12. CASE EachBegins(t)
  <2>1. At(t, "each") /\ Instead(t, <<Do("left", <<On(t), chPrograms, chPrograms>>)>>)
    BY <1>12 DEF EachBegins
  <2>2. chJob[t] # << >> /\ On(t) \in ChFsas
    BY <2>1, ChAtIs, ChStepKinds
  <2>3. Do("left", <<On(t), chPrograms, chPrograms>>) \in ChSteps
    BY <2>2, ChStepsAre DEF ChTypeOK
  <2>4. Do("left", <<On(t), chPrograms, chPrograms>>)[1] \notin Sent
    BY DEF Do, Sent
  <2>5. QED
    BY <1>2, <2>1, <2>2, <2>3, <2>4
<1>13. CASE EachNext(t)
  <2> DEFINE f == On(t)[1]
             left == On(t)[2]
             all == On(t)[3]
  <2>1. /\ At(t, "left")
        /\ \/ Raise(t) \/ Instead(t, << >>)
           \/ \E g \in left : Instead(t, <<Do("unsubscribe", ControlList(g)),
                                          Do("left", <<f, left \ {g}, all>>)>>)
    BY <1>13 DEF EachNext
  <2>2. chJob[t] # << >> /\ f \in ChFsas /\ left \in SUBSET ChFsas /\ all \in SUBSET ChFsas
    BY <2>1, ChAtIs, ChStepKinds
  <2> HIDE DEF f, left, all
  <2>3. ASSUME NEW g \in left
        PROVE  /\ Do("unsubscribe", ControlList(g)) \in ChSteps
               /\ Do("left", <<f, left \ {g}, all>>) \in ChSteps
               /\ Do("left", <<f, left \ {g}, all>>)[1] \notin Sent
               /\ Do("unsubscribe", ControlList(g))[1] \notin Sent
    <3>1. g \in ChFsas /\ left \ {g} \in SUBSET ChFsas
      BY <2>2
    <3>2. QED
      BY <2>2, <3>1, ChStepsAre, ChPathsAre DEF Do, Sent
  <2>4. QED
    BY <1>1, <1>3, <2>1, <2>2, <2>3
<1>14. CASE Bookkept(t)
  <2>1. (At(t, "track") \/ At(t, "listed")) /\ Instead(t, << >>)
    BY <1>14 DEF Bookkept
  <2>2. QED
    BY <1>1, <2>1, ChAtIs
<1>15. QED
  BY <1>4, <1>5, <1>6, <1>7, <1>8, <1>9, <1>10, <1>11, <1>12, <1>13, <1>14 DEF ChStep

-----------------------------------------------------------------------------
(* Types.                                                                  *)

\* What a step leaves of a job is a job, and a subscription that is being sent is in front.
LEMMA ChJobs ==
    ASSUME ChTypeOK, NEW t \in ChWorkers, ChStep(t)
    PROVE  /\ chJob' \in [ChWorkers -> Seq(ChSteps)]
           /\ \A u \in ChWorkers : u # t => chJob'[u] = chJob[u]
           /\ ChSentFirst => ChSentFirst'
<1>1. chJob \in [ChWorkers -> Seq(ChSteps)] /\ chJob[t] # << >>
  BY ChReplaces DEF ChTypeOK
<1>2. CASE Raise(t)
  <2>1. << >> \in Seq(ChSteps) /\ Len(<< >>) = 0
    OBVIOUS
  <2> DEFINE none == << >>
  <2>2. chJob' = [chJob EXCEPT ![t] = none] /\ none \in Seq(ChSteps) /\ Len(none) = 0
    BY <1>2, <2>1 DEF Raise
  <2> HIDE DEF none
  <2>3. /\ chJob' \in [ChWorkers -> Seq(ChSteps)] /\ chJob'[t] = none
        /\ \A u \in ChWorkers : u # t => chJob'[u] = chJob[u]
    BY <1>1, <2>2
  <2>4. QED
    BY <2>2, <2>3 DEF ChSentFirst
<1>3. CASE ChOther(t)
  <2>1. PICK steps \in Seq(ChSteps) :
            Instead(t, steps) /\ \A i \in 1..Len(steps) : steps[i][1] \notin Sent
    BY <1>3 DEF ChOther
  <2>2. \A i \in 2..Len(steps) : steps[i][1] \notin Sent
    BY <2>1
  <2>3. QED
    BY <1>1, <2>1, <2>2, ChGoesOn
<1>4. CASE ChAsks(t)
  <2>1. PICK s \in ChSteps : Instead(t, <<s>>)
    <3>1. On(t) \in Paths => Do("post", On(t)) \in ChSteps
      BY ChStepsAre
    <3>2. On(t) \in Paths =>
              \A n \in chTracked[On(t)] \ {Unnamed} : Do("delete", <<On(t), n>>) \in ChSteps
      BY ChStepsAre DEF ChTypeOK
    <3>3. QED
      BY <1>4, <3>1, <3>2 DEF ChAsks
  <2>2. <<s>> \in Seq(ChSteps) /\ \A i \in 2..Len(<<s>>) : <<s>>[i][1] \notin Sent
    OBVIOUS
  <2>3. QED
    BY <1>1, <2>1, <2>2, ChGoesOn
<1>5. QED
  BY <1>2, <1>3, <1>4, ChReplaces

\* A job that begins is a job.
LEMMA ChBegins ==
    ASSUME ChTypeOK, NEW t \in ChWorkers, NEW steps \in Seq(ChSteps), BeginJob(t, steps),
           \A i \in 2..Len(steps) : steps[i][1] \notin Sent
    PROVE  /\ chJob' \in [ChWorkers -> Seq(ChSteps)] /\ chJob'[t] = steps
           /\ \A u \in ChWorkers : u # t => chJob'[u] = chJob[u]
           /\ ChSentFirst => ChSentFirst'
<1>1. chJob \in [ChWorkers -> Seq(ChSteps)] /\ chJob' = [chJob EXCEPT ![t] = steps]
  BY DEF ChTypeOK, BeginJob
<1>2. /\ chJob' \in [ChWorkers -> Seq(ChSteps)] /\ chJob'[t] = steps
      /\ \A u \in ChWorkers : u # t => chJob'[u] = chJob[u]
  BY <1>1
<1>3. QED
  BY <1>2 DEF ChSentFirst, Sent

\* The jobs that are begun.
LEMMA ChSetupJob ==
    LET steps == <<Do("subscribe", FsaList), Do("list", "setup")>> IN
    /\ steps \in Seq(ChSteps) /\ steps # << >> /\ Head(steps)[1] = "subscribe"
    /\ \A i \in 2..Len(steps) : steps[i][1] \notin Sent
<1> DEFINE a == Do("subscribe", FsaList)
           b == Do("list", "setup")
<1>1. a \in ChSteps /\ b \in ChSteps
  BY ChStepsAre, ChPathsAre
<1>2. a[1] = "subscribe" /\ b[1] \notin Sent
  BY DEF Do, Sent
<1> HIDE DEF a, b
<1>3. /\ <<a, b>> \in Seq(ChSteps) /\ <<a, b>> # << >> /\ Head(<<a, b>>) = a
      /\ \A i \in 2..Len(<<a, b>>) : <<a, b>>[i][1] \notin Sent
  BY <1>1, <1>2
<1>4. QED
  BY <1>2, <1>3 DEF a, b

\* One step is a job.
LEMMA ChOneStep ==
    ASSUME NEW s \in ChSteps
    PROVE  /\ <<s>> \in Seq(ChSteps) /\ <<s>> # << >> /\ Head(<<s>>) = s
           /\ \A i \in 2..Len(<<s>>) : <<s>>[i][1] \notin Sent
OBVIOUS

\* Every step keeps the types of the chain.
LEMMA ChTypes == ChTypeOK /\ [ChNext]_chVars => ChTypeOK'
<1> SUFFICES ASSUME ChTypeOK, [ChNext]_chVars PROVE ChTypeOK'
  OBVIOUS
<1>1. ASSUME NEW t \in ChWorkers, ChStep(t) PROVE ChTypeOK'
  <2>1. chJob' \in [ChWorkers -> Seq(ChSteps)]
    BY <1>1, ChJobs
  <2>2. UNCHANGED <<chList, chPhase, chErrors, chEvents, chOrderly>>
    BY <1>1 DEF ChStep, Subscribe, SubscribeAnswered, Unsubscribe, UnsubscribeAnswered, ListAnswered,
       ForNext, ProgramsAnswered, FsaGone, EachBegins, EachNext, Bookkept, chRemote, chRules
  <2>3. chFsa' \subseteq ChFsas /\ chPrograms' \subseteq ChFsas
    <3>1. \/ UNCHANGED <<chFsa, chPrograms>>
          \/ ProgramsAnswered(t) \/ EachNext(t) \/ Bookkept(t)
      BY <1>1 DEF ChStep, Subscribe, SubscribeAnswered, Unsubscribe, UnsubscribeAnswered, ListAnswered,
         ForNext, FsaGone, EachBegins, chManager
    <3>2. CASE ProgramsAnswered(t)
      <4>1. On(t) \in ChFsas
        BY <3>2, ChAtIs, ChStepKinds DEF ProgramsAnswered
      <4>2. QED
        BY <3>2, <4>1 DEF ProgramsAnswered, ChTypeOK
    <3>3. CASE EachNext(t)
      <4>1. chFsa' \subseteq chFsa /\ chPrograms' \subseteq chPrograms
        BY <3>3 DEF EachNext
      <4>2. QED
        BY <4>1 DEF ChTypeOK
    <3>4. CASE Bookkept(t)
      <4>1. /\ UNCHANGED chPrograms
            /\ \/ At(t, "track") /\ chFsa' = chFsa \cup {On(t)}
               \/ At(t, "listed") /\ chFsa' = On(t)
        BY <3>4 DEF Bookkept
      <4>2. /\ At(t, "track") => On(t) \in ChFsas
            /\ At(t, "listed") => On(t) \in SUBSET ChFsas
        BY ChAtIs, ChStepKinds
      <4>3. QED
        BY <4>1, <4>2 DEF ChTypeOK
    <3>5. QED
      BY <3>1, <3>2, <3>3, <3>4 DEF ChTypeOK
  <2>4. /\ chTracked' \in [Paths -> {{}} \cup {{n} : n \in ChNames \cup {Unnamed}}]
        /\ chServer' \in [Paths -> SUBSET ChNames] /\ chLost' \in [Paths -> SUBSET ChNames]
    <3>1. \/ UNCHANGED <<chTracked, chServer, chLost>>
          \/ SubscribeAnswered(t) \/ UnsubscribeAnswered(t) \/ Unsubscribe(t)
      BY <1>1 DEF ChStep, Subscribe, ListAnswered, ForNext, ProgramsAnswered, FsaGone,
         EachBegins, EachNext, Bookkept, chManager, chRemote
    <3>2. CASE SubscribeAnswered(t)
      <4>1. \/ UNCHANGED <<chTracked, chServer, chLost>>
            \/ \E n \in ChNames :
                   /\ chServer' = [chServer EXCEPT ![On(t)] = @ \cup {n}]
                   /\ \/ chTracked' = [chTracked EXCEPT ![On(t)] = {n}] /\ UNCHANGED chLost
                      \/ /\ chLost' = [chLost EXCEPT ![On(t)] = @ \cup {n}]
                         /\ \/ UNCHANGED chTracked
                            \/ chTracked' = [chTracked EXCEPT ![On(t)] = {Unnamed}]
        BY <3>2 DEF SubscribeAnswered
      <4>2. ASSUME NEW n \in ChNames,
                   /\ chServer' = [chServer EXCEPT ![On(t)] = @ \cup {n}]
                   /\ \/ chTracked' = [chTracked EXCEPT ![On(t)] = {n}] /\ UNCHANGED chLost
                      \/ /\ chLost' = [chLost EXCEPT ![On(t)] = @ \cup {n}]
                         /\ \/ UNCHANGED chTracked
                            \/ chTracked' = [chTracked EXCEPT ![On(t)] = {Unnamed}]
            PROVE  /\ chTracked' \in [Paths -> {{}} \cup {{m} : m \in ChNames \cup {Unnamed}}]
                   /\ chServer' \in [Paths -> SUBSET ChNames]
                   /\ chLost' \in [Paths -> SUBSET ChNames]
        <5>1. chServer' \in [Paths -> SUBSET ChNames]
          BY <4>2 DEF ChTypeOK
        <5>2. CASE chTracked' = [chTracked EXCEPT ![On(t)] = {n}] /\ UNCHANGED chLost
          BY <5>1, <5>2 DEF ChTypeOK
        <5>3. CASE chLost' = [chLost EXCEPT ![On(t)] = @ \cup {n}] /\ UNCHANGED chTracked
          BY <5>1, <5>3 DEF ChTypeOK
        <5>4. CASE /\ chLost' = [chLost EXCEPT ![On(t)] = @ \cup {n}]
                   /\ chTracked' = [chTracked EXCEPT ![On(t)] = {Unnamed}]
          BY <5>1, <5>4 DEF ChTypeOK
        <5>5. QED
          BY <4>2, <5>2, <5>3, <5>4
      <4>3. CASE UNCHANGED <<chTracked, chServer, chLost>>
        BY <4>3 DEF ChTypeOK
      <4>4. QED
        BY <4>1, <4>2, <4>3
    <3>3. CASE UnsubscribeAnswered(t)
      <4> DEFINE p == On(t)[1]
                 n == On(t)[2]
      <4>1. /\ \/ chServer' = [chServer EXCEPT ![p] = @ \ {n}] /\ UNCHANGED chLost
               \/ chLost' = [chLost EXCEPT ![p] = @ \cup (chServer[p] \cap {n})] /\ UNCHANGED chServer
            /\ chTracked' = [chTracked EXCEPT ![p] = {}] /\ p \in Paths
        <5>1. p \in Paths
          BY <3>3, ChAtIs, ChStepKinds DEF UnsubscribeAnswered
        <5>2. QED
          BY <3>3, <5>1 DEF UnsubscribeAnswered
      <4> HIDE DEF p, n
      <4>2. chServer[p] \in SUBSET ChNames /\ chLost[p] \in SUBSET ChNames
        BY <4>1 DEF ChTypeOK
      <4>3. QED
        BY <4>1, <4>2 DEF ChTypeOK
    <3>4. CASE Unsubscribe(t)
      <4>1. /\ UNCHANGED <<chServer, chLost>>
            /\ UNCHANGED chTracked \/ chTracked' = [chTracked EXCEPT ![On(t)] = {}]
        BY <3>4 DEF Unsubscribe, chRemote
      <4>2. QED
        BY <4>1 DEF ChTypeOK
    <3>5. QED
      BY <3>1, <3>2, <3>3, <3>4 DEF ChTypeOK
  <2>5. QED
    BY <2>1, <2>2, <2>3, <2>4 DEF ChTypeOK
<1>2. CASE ChSetup
  <2>1. chJob' \in [ChWorkers -> Seq(ChSteps)]
    <3>1. Main \in ChWorkers /\ BeginJob(Main, <<Do("subscribe", FsaList), Do("list", "setup")>>)
      BY <1>2 DEF ChSetup, ChWorkers
    <3>2. QED
      BY <3>1, ChSetupJob, ChBegins
  <2>2. QED
    BY <1>2, <2>1 DEF ChSetup, ChTypeOK, chManager, chRemote, chRules
<1>3. CASE ChSetupDone
  BY <1>3 DEF ChSetupDone, ChTypeOK, chManager, chRemote, chRules
<1>4. CASE ChCleanup
  <2>1. chJob' \in [ChWorkers -> Seq(ChSteps)]
    <3> DEFINE s == ForEach("cleanup", {p \in Paths : chTracked[p] # {}})
    <3>1. Main \in ChWorkers /\ BeginJob(Main, <<s>>) /\ s \in ChSteps
      BY <1>4, ChStepsAre DEF ChCleanup, ChWorkers
    <3> HIDE DEF s
    <3>2. QED
      BY <3>1, ChOneStep, ChBegins
  <2>2. QED
    BY <1>4, <2>1 DEF ChCleanup, ChTypeOK, chManager, chRemote, chRules
<1>5. CASE ChCleanupDone
  BY <1>5 DEF ChCleanupDone, ChTypeOK, chRemote, chRules
<1>6. ASSUME NEW t \in ChTasks, Notified(t) PROVE ChTypeOK'
  <2>1. PICK s \in ChSteps : BeginJob(t, <<s>>)
    BY <1>6, ChStepsAre DEF Notified, ChTypeOK
  <2>2. chJob' \in [ChWorkers -> Seq(ChSteps)]
    BY <2>1, ChOneStep, ChBegins DEF ChWorkers
  <2>3. /\ chErrors' \subseteq Paths
        /\ chTracked' \in [Paths -> {{}} \cup {{n} : n \in ChNames \cup {Unnamed}}]
    <3>1. \/ UNCHANGED <<chErrors, chTracked>>
          \/ \E p \in chErrors : chErrors' = chErrors \ {p} /\ chTracked' = [chTracked EXCEPT ![p] = {}]
      BY <1>6 DEF Notified
    <3>2. QED
      BY <3>1 DEF ChTypeOK
  <2>4. chEvents' \in 0..ChEvents
    <3>1. UNCHANGED chEvents \/ Event
      BY <1>6 DEF Notified
    <3>2. QED
      BY <3>1, ChainAssumption DEF Event, ChTypeOK
  <2>5. QED
    BY <1>6, <2>2, <2>3, <2>4 DEF Notified, ChTypeOK
<1>7. CASE Reassigned
  <2>1. chEvents' \in 0..ChEvents
    BY <1>7, ChainAssumption DEF Reassigned, Event, ChTypeOK
  <2>2. QED
    BY <1>7, <2>1 DEF Reassigned, ChTypeOK, chManager, chRemote
<1>8. CASE ServerEnds
  <2>1. chEvents' \in 0..ChEvents
    BY <1>8, ChainAssumption DEF ServerEnds, Event, ChTypeOK
  <2>2. PICK p \in Paths, n \in ChNames :
            /\ chServer' = [chServer EXCEPT ![p] = @ \ {n}] /\ chErrors' = chErrors \cup {p}
    BY <1>8 DEF ServerEnds
  <2>3. chServer' \in [Paths -> SUBSET ChNames] /\ chErrors' \subseteq Paths
    BY <2>2 DEF ChTypeOK
  <2>4. QED
    BY <1>8, <2>1, <2>3 DEF ServerEnds, ChTypeOK, chManager
<1>9. CASE UNCHANGED chVars
  BY <1>9 DEF chVars, chManager, chRemote, chRules, ChTypeOK
<1>10. QED
  BY <1>1, <1>2, <1>3, <1>4, <1>5, <1>6, <1>7, <1>8, <1>9 DEF ChNext

-----------------------------------------------------------------------------
(* One task at a time.                                                     *)

\* In an orderly client one job runs at a time.
LEMMA ChAlone ==
    ASSUME chOrderly, ChInv, NEW t \in ChWorkers, chJob[t] # << >>
    PROVE  /\ \A u \in ChWorkers : u # t => chJob[u] = << >>
           /\ chPhase \in {"setup", "up", "cleanup"}
           /\ chPhase \in {"setup", "cleanup"} => t = Main
           /\ chErrors # {} => chPhase = "cleanup"
<1>1. ChOneTask /\ ChCancelled /\ ChTypeOK
  BY DEF ChInv, ChKept
<1>2. QED
  BY <1>1 DEF ChOneTask, ChCancelled, ChIdle, ChTypeOK, ChWorkers

\* Two steps one after the other.
LEMMA ChPair == ASSUME NEW a, NEW b PROVE <<a>> \o <<b>> = <<a, b>>
<1> DEFINE S == {a, b}
           l == <<a>>
           r == <<b>>
<1>1. l \in Seq(S) /\ r \in Seq(S) /\ Len(l) = 1 /\ Len(r) = 1 /\ l[1] = a /\ r[1] = b
  OBVIOUS
<1> HIDE DEF l, r, S
<1>2. /\ l \o r \in Seq(S) /\ Len(l \o r) = 2
      /\ \A i \in 1..2 : (l \o r)[i] = IF i <= 1 THEN l[i] ELSE r[i - 1]
  BY <1>1, ConcatProperties
<1> DEFINE both == l \o r
<1> HIDE DEF both
<1>3. both \in Seq(S) /\ Len(both) = 2 /\ both[1] = a /\ both[2] = b
  BY <1>1, <1>2 DEF both
<1>4. both = <<both[1], both[2]>>
  BY <1>3
<1>5. QED
  BY <1>3, <1>4 DEF both, l, r

\* In cleanup() a loop over what was tracked goes on.
LEMMA ChCleans ==
    ASSUME ChTypeOK, ChCleaning, NEW t \in ChWorkers, t = Main, ChStep(t)
    PROVE  ChCleaning' /\ ~At(t, "post")
<1> DEFINE Rest(S) == ForEach("cleanup", S)
<1>1. PICK S \in SUBSET Paths :
          \/ chJob[Main] = <<Rest(S)>> /\ \A p \in Paths \ S : chTracked[p] = {}
          \/ \E q \in Paths :
                 /\ \/ chJob[Main] = <<Do("unsubscribe", q), Rest(S)>>
                    \/ \E n \in ChNames : /\ chJob[Main] = <<Do("delete", <<q, n>>), Rest(S)>>
                                          /\ chTracked[q] = {n}
                 /\ \A p \in Paths \ (S \cup {q}) : chTracked[p] = {}
  BY ChReplaces DEF ChCleaning
<1>2. chJob \in [ChWorkers -> Seq(ChSteps)]
  BY DEF ChTypeOK
<1>3. CASE chJob[Main] = <<Rest(S)>> /\ \A p \in Paths \ S : chTracked[p] = {}
  <2>1. Head(chJob[t])[1] = "for" /\ On(t) = <<"cleanup", S>> /\ Tail(chJob[t]) = << >>
    BY <1>3 DEF ForEach, Do, On
  <2>2. /\ UNCHANGED chTracked
        /\ \/ S = {} /\ Instead(t, << >>)
           \/ \E f \in S : Instead(t, <<Do("unsubscribe", f), Rest(S \ {f})>>)
    <3>1. ForNext(t)
      BY <2>1 DEF ChStep, Subscribe, SubscribeAnswered, Unsubscribe, UnsubscribeAnswered,
         ListAnswered, ProgramsAnswered, FsaGone, EachBegins, EachNext, Bookkept, At
    <3>2. On(t)[1] = "cleanup" /\ On(t)[2] = S
      BY <2>1
    <3>3. /\ UNCHANGED chTracked
          /\ \/ S = {} /\ Instead(t, << >>)
             \/ \E f \in S : Instead(t, ChBody("cleanup", f) \o <<Rest(S \ {f})>>)
      BY <3>1, <3>2 DEF ForNext, chManager
    <3>4. ASSUME NEW f PROVE ChBody("cleanup", f) = <<Do("unsubscribe", f)>>
      BY DEF ChBody
    <3>6. ASSUME NEW f PROVE ChBody("cleanup", f) \o <<Rest(S \ {f})>>
                             = <<Do("unsubscribe", f), Rest(S \ {f})>>
      BY <3>4, ChPair
    <3>7. QED
      BY <3>3, <3>6
  <2>3. CASE S = {} /\ Instead(t, << >>)
    <3>1. chJob'[Main] = << >> /\ \A p \in Paths : chTracked'[p] = {}
      <4>1. << >> \o Tail(chJob[t]) = << >>
        BY <2>1
      <4>2. QED
        BY <1>2, <1>3, <2>2, <2>3, <4>1 DEF Instead
    <3>2. QED
      BY <2>1, <3>1 DEF ChCleaning, At
  <2>4. ASSUME NEW f \in S, Instead(t, <<Do("unsubscribe", f), Rest(S \ {f})>>)
        PROVE  ChCleaning'
    <3> DEFINE steps == <<Do("unsubscribe", f), Rest(S \ {f})>>
    <3>1. steps \o << >> = steps
      OBVIOUS
    <3> HIDE DEF steps
    <3>2. chJob'[Main] = steps
      BY <1>2, <2>1, <2>4, <3>1 DEF Instead, steps
    <3>3. f \in Paths /\ S \ {f} \in SUBSET Paths
          /\ \A p \in Paths \ ((S \ {f}) \cup {f}) : chTracked'[p] = {}
      BY <1>3, <2>2
    <3>4. QED
      BY <3>2, <3>3 DEF ChCleaning, steps
  <2>5. QED
    BY <2>1, <2>2, <2>3, <2>4 DEF At
<1>4. ASSUME NEW q \in Paths, \A p \in Paths \ (S \cup {q}) : chTracked[p] = {},
             chJob[Main] = <<Do("unsubscribe", q), Rest(S)>>
      PROVE  ChCleaning' /\ ~At(t, "post")
  <2>1. Head(chJob[t])[1] = "unsubscribe" /\ On(t) = q /\ Tail(chJob[t]) = <<Rest(S)>>
    BY <1>4 DEF Do, On
  <2>2. \/ chTracked' = [chTracked EXCEPT ![q] = {}] /\ Instead(t, << >>)
        \/ /\ UNCHANGED chTracked
           /\ \E n \in chTracked[q] \ {Unnamed} : Instead(t, <<Do("delete", <<q, n>>)>>)
    <3>1. Unsubscribe(t)
      BY <2>1 DEF ChStep, Subscribe, SubscribeAnswered, ForNext, UnsubscribeAnswered,
         ListAnswered, ProgramsAnswered, FsaGone, EachBegins, EachNext, Bookkept, At
    <3>2. QED
      BY <2>1, <3>1 DEF Unsubscribe
  <2> DEFINE last == Rest(S)
  <2>3. CASE chTracked' = [chTracked EXCEPT ![q] = {}] /\ Instead(t, << >>)
    <3>1. << >> \o <<last>> = <<last>>
      OBVIOUS
    <3>2. chJob'[Main] = <<last>> /\ \A p \in Paths \ S : chTracked'[p] = {}
      BY <1>2, <1>4, <2>1, <2>3, <3>1 DEF Instead, ChTypeOK
    <3>3. QED
      BY <2>1, <3>2 DEF ChCleaning, At
  <2>4. ASSUME UNCHANGED chTracked, NEW n \in chTracked[q] \ {Unnamed},
               Instead(t, <<Do("delete", <<q, n>>)>>)
        PROVE  ChCleaning'
    <3> DEFINE first == Do("delete", <<q, n>>)
    <3>1. <<first>> \o <<last>> = <<first, last>>
      BY ChPair
    <3>2. chTracked[q] = {n} /\ n \in ChNames
      BY DEF ChTypeOK
    <3>3. chJob'[Main] = <<first, last>>
      BY <1>2, <2>1, <2>4, <3>1 DEF Instead
    <3>4. QED
      BY <1>4, <2>4, <3>2, <3>3 DEF ChCleaning
  <2>5. QED
    BY <2>1, <2>2, <2>3, <2>4 DEF At
<1>5. ASSUME NEW q \in Paths, NEW n \in ChNames, \A p \in Paths \ (S \cup {q}) : chTracked[p] = {},
             chJob[Main] = <<Do("delete", <<q, n>>), Rest(S)>>, chTracked[q] = {n}
      PROVE  ChCleaning' /\ ~At(t, "post")
  <2>1. Head(chJob[t])[1] = "delete" /\ On(t) = <<q, n>> /\ Tail(chJob[t]) = <<Rest(S)>>
    BY <1>5 DEF Do, On
  <2>2. chTracked' = [chTracked EXCEPT ![q] = {}] /\ Instead(t, << >>)
    <3>1. UnsubscribeAnswered(t)
      BY <2>1 DEF ChStep, Subscribe, SubscribeAnswered, ForNext, Unsubscribe,
         ListAnswered, ProgramsAnswered, FsaGone, EachBegins, EachNext, Bookkept, At
    <3>2. On(t)[1] = q
      BY <2>1
    <3>3. QED
      BY <1>5, <3>1, <3>2 DEF UnsubscribeAnswered
  <2> DEFINE last == Rest(S)
  <2>3. << >> \o <<last>> = <<last>>
    OBVIOUS
  <2>4. chJob'[Main] = <<last>> /\ \A p \in Paths \ S : chTracked'[p] = {}
    BY <1>2, <1>5, <2>1, <2>2, <2>3 DEF Instead, ChTypeOK
  <2>5. QED
    BY <2>1, <2>4 DEF ChCleaning, At
<1>6. QED
  BY <1>1, <1>3, <1>4, <1>5

\* In an orderly client every step keeps what the chain knows of the server.
LEMMA ChStepKeeps ==
    ASSUME ChInv, chOrderly, NEW t \in ChWorkers, ChStep(t)
    PROVE  ChKept'
<1>1. ChTypeOK /\ ChSentFirst /\ ChOneTask /\ ChAsSent /\ ChCancelled /\ ChKnown
  BY DEF ChInv, ChKept
<1>2. /\ chJob[t] # << >>
      /\ \A u \in ChWorkers : u # t => chJob[u] = << >>
      /\ chPhase \in {"setup", "up", "cleanup"}
      /\ chPhase \in {"setup", "cleanup"} => t = Main
      /\ chErrors # {} => chPhase = "cleanup"
  BY <1>1, ChReplaces, ChAlone
<1>3. \A u \in ChWorkers : u # t => chJob'[u] = << >>
  BY <1>1, <1>2, ChJobs
<1>4. UNCHANGED <<chPhase, chErrors>>
  BY DEF ChStep, Subscribe, SubscribeAnswered, Unsubscribe, UnsubscribeAnswered, ListAnswered,
     ForNext, ProgramsAnswered, FsaGone, EachBegins, EachNext, Bookkept, chRemote
<1>5. ASSUME chPhase = "cleanup" PROVE ChCleaning' /\ ~At(t, "post")
  BY <1>1, <1>2, <1>5, ChCleans DEF ChOneTask
<1>6. ChOneTask'
  <2>1. (\A a, b \in ChWorkers : chJob[a] # << >> /\ chJob[b] # << >> => a = b)'
    BY <1>3
  <2>2. (chPhase \in {"setup", "cleanup"} => \A u \in ChTasks : chJob[u] = << >>)'
    BY <1>2, <1>3, <1>4, ChainAssumption DEF ChWorkers
  <2>3. (chPhase \notin {"new", "down"})'
    BY <1>2, <1>4
  <2>4. (chPhase = "cleanup" => ChCleaning)'
    BY <1>4, <1>5
  <2>5. QED
    BY <2>1, <2>2, <2>3, <2>4 DEF ChOneTask
<1>7. ASSUME SubscribeAnswered(t)
      PROVE  ChKnown' /\ ChCancelled'
  <2> DEFINE p == On(t)
  <2>1. p \in Paths /\ chTracked[p] = {} /\ chServer[p] \subseteq chLost[p]
    <3>1. p \in Paths /\ Head(chJob[t])[1] = "post" /\ Head(chJob[t])[2] = p
      BY <1>1, <1>7, ChAtIs, ChStepKinds DEF SubscribeAnswered
    <3>2. QED
      BY <1>1, <1>2, <3>1 DEF ChAsSent, ChKnown
  <2>2. chErrors = {}
    BY <1>2, <1>5, <1>7 DEF SubscribeAnswered
  <2>3. \/ UNCHANGED <<chTracked, chServer, chLost>>
        \/ \E n \in ChNames :
               /\ chServer' = [chServer EXCEPT ![p] = @ \cup {n}]
               /\ \/ chTracked' = [chTracked EXCEPT ![p] = {n}] /\ UNCHANGED chLost
                  \/ /\ chLost' = [chLost EXCEPT ![p] = @ \cup {n}]
                     /\ \/ UNCHANGED chTracked
                        \/ chTracked' = [chTracked EXCEPT ![p] = {Unnamed}]
    BY <1>7 DEF SubscribeAnswered
  <2> HIDE DEF p
  <2>4. ChKnown'
    <3>1. CASE UNCHANGED <<chTracked, chServer, chLost>>
      BY <1>1, <3>1 DEF ChKnown
    <3>2. ASSUME NEW n \in ChNames, chServer' = [chServer EXCEPT ![p] = @ \cup {n}],
                 chTracked' = [chTracked EXCEPT ![p] = {n}], UNCHANGED chLost
          PROVE  ChKnown'
      BY <1>1, <2>1, <3>2 DEF ChKnown, ChTypeOK
    <3>3. ASSUME NEW n \in ChNames, chServer' = [chServer EXCEPT ![p] = @ \cup {n}],
                 chLost' = [chLost EXCEPT ![p] = @ \cup {n}],
                 \/ UNCHANGED chTracked
                 \/ chTracked' = [chTracked EXCEPT ![p] = {Unnamed}]
          PROVE  ChKnown'
      <4>1. /\ chServer'[p] \subseteq chLost'[p]
            /\ \A q \in Paths : q # p => /\ chServer'[q] = chServer[q] /\ chLost'[q] = chLost[q]
                                         /\ chTracked'[q] = chTracked[q]
        BY <1>1, <2>1, <3>3 DEF ChTypeOK
      <4>2. QED
        BY <1>1, <4>1 DEF ChKnown
    <3>4. QED
      BY <2>3, <3>1, <3>2, <3>3
  <2>5. QED
    BY <1>4, <2>2, <2>4 DEF ChCancelled
<1>8. ASSUME UnsubscribeAnswered(t)
      PROVE  ChKnown' /\ ChCancelled'
  <2> DEFINE p == On(t)[1]
             n == On(t)[2]
  <2>1. p \in Paths /\ n \in ChNames /\ chTracked[p] \subseteq {n}
    <3>1. On(t) \in Paths \X ChNames /\ Head(chJob[t])[1] = "delete" /\ Head(chJob[t])[2] = On(t)
      BY <1>1, <1>8, ChAtIs, ChStepKinds DEF UnsubscribeAnswered
    <3>2. QED
      BY <1>1, <1>2, <3>1 DEF ChAsSent
  <2>2. /\ \/ chServer' = [chServer EXCEPT ![p] = @ \ {n}] /\ UNCHANGED chLost
           \/ chLost' = [chLost EXCEPT ![p] = @ \cup (chServer[p] \cap {n})] /\ UNCHANGED chServer
        /\ chTracked' = [chTracked EXCEPT ![p] = {}]
    BY <1>8 DEF UnsubscribeAnswered
  <2> HIDE DEF p, n
  <2>3. /\ \A q \in Paths : q # p => /\ chServer'[q] = chServer[q] /\ chLost'[q] = chLost[q]
                                     /\ chTracked'[q] = chTracked[q]
        /\ chTracked'[p] = {}
        /\ chServer'[p] \ {n} \subseteq chServer[p] /\ chLost[p] \subseteq chLost'[p]
        /\ chServer'[p] \subseteq chServer[p]
        /\ n \in chServer'[p] => n \in chLost'[p]
    BY <1>1, <2>1, <2>2 DEF ChTypeOK
  <2>4. ChKnown'
    BY <1>1, <2>1, <2>3 DEF ChKnown
  <2>5. \A q \in chErrors : chServer'[q] \subseteq chLost'[q]
    BY <1>1, <2>1, <2>3 DEF ChCancelled, ChTypeOK
  <2>6. QED
    BY <1>1, <1>2, <1>4, <2>4, <2>5 DEF ChCancelled
<1>9. ChKnown' /\ ChCancelled'
  <2>1. \/ UNCHANGED <<chTracked, chServer, chLost>>
        \/ SubscribeAnswered(t) \/ UnsubscribeAnswered(t) \/ Unsubscribe(t)
    BY DEF ChStep, Subscribe, ListAnswered, ForNext, ProgramsAnswered, FsaGone,
       EachBegins, EachNext, Bookkept, chManager, chRemote
  <2>2. CASE UNCHANGED <<chTracked, chServer, chLost>>
    BY <1>1, <1>2, <1>4, <2>2 DEF ChKnown, ChCancelled
  <2>3. CASE Unsubscribe(t)
    <3>1. /\ UNCHANGED <<chServer, chLost>>
          /\ \/ UNCHANGED chTracked
             \/ /\ chTracked' = [chTracked EXCEPT ![On(t)] = {}]
                /\ chTracked[On(t)] \subseteq {Unnamed}
      BY <2>3 DEF Unsubscribe, chRemote
    <3>2. \A p \in Paths : \/ chTracked'[p] = chTracked[p]
                           \/ chTracked[p] \subseteq {Unnamed}
      BY <1>1, <3>1 DEF ChTypeOK
    <3>3. \A p \in Paths : chServer[p] \subseteq ChNames
      BY <1>1 DEF ChTypeOK
    <3>4. ChKnown'
      BY <1>1, <3>1, <3>2, <3>3, ChainAssumption DEF ChKnown
    <3>5. QED
      BY <1>1, <1>2, <1>4, <3>1, <3>4 DEF ChCancelled
  <2>4. QED
    BY <1>7, <1>8, <2>1, <2>2, <2>3
<1>10. ChAsSent'
  <2>1. SUFFICES ASSUME chJob'[t] # << >>
                 PROVE  LET first == Head(chJob'[t]) IN
                        /\ first[1] = "post" => chTracked'[first[2]] = {}
                        /\ first[1] = "delete" => chTracked'[first[2][1]] \subseteq {first[2][2]}
    BY <1>3 DEF ChAsSent
  <2>2. ~Raise(t)
    BY <1>1, <2>1 DEF Raise, ChTypeOK
  <2>3. CASE ChOther(t)
    <3>1. PICK steps \in Seq(ChSteps) :
              Instead(t, steps) /\ \A i \in 1..Len(steps) : steps[i][1] \notin Sent
      BY <2>3 DEF ChOther
    <3>2. (\A i \in 2..Len(steps) : steps[i][1] \notin Sent) /\ Len(steps) \in Nat
          /\ (Len(steps) > 0 => steps[1][1] \notin Sent)
      BY <3>1
    <3>3. Head(chJob'[t])[1] \notin Sent
      BY <1>1, <1>2, <2>1, <3>1, <3>2, ChGoesOn
    <3>4. QED
      BY <3>3 DEF Sent
  <2>4. CASE ChAsks(t)
    <3>1. ASSUME NEW s \in ChSteps, Instead(t, <<s>>) PROVE Head(chJob'[t]) = s
      <4>1. /\ <<s>> \in Seq(ChSteps) /\ Len(<<s>>) > 0 /\ <<s>>[1] = s
            /\ \A i \in 2..Len(<<s>>) : <<s>>[i][1] \notin Sent
        OBVIOUS
      <4> DEFINE steps == <<s>>
      <4> HIDE DEF steps
      <4>2. Instead(t, steps) /\ steps \in Seq(ChSteps) /\ Len(steps) > 0 /\ steps[1] = s
            /\ \A i \in 2..Len(steps) : steps[i][1] \notin Sent
        BY <3>1, <4>1 DEF steps
      <4>3. QED
        BY <1>1, <1>2, <4>2, ChGoesOn
    <3>2. CASE /\ On(t) \in Paths /\ chTracked[On(t)] = {} /\ UNCHANGED chTracked
               /\ Instead(t, <<Do("post", On(t))>>)
      <4>1. Head(chJob'[t]) = Do("post", On(t))
        BY <3>1, <3>2, ChStepsAre
      <4>2. QED
        BY <3>2, <4>1 DEF Do
    <3>3. ASSUME On(t) \in Paths, UNCHANGED chTracked, NEW n \in chTracked[On(t)] \ {Unnamed},
                 Instead(t, <<Do("delete", <<On(t), n>>)>>)
          PROVE  LET first == Head(chJob'[t]) IN
                 /\ first[1] = "post" => chTracked'[first[2]] = {}
                 /\ first[1] = "delete" => chTracked'[first[2][1]] \subseteq {first[2][2]}
      <4>1. n \in ChNames /\ chTracked[On(t)] = {n}
        BY <1>1, <3>3 DEF ChTypeOK
      <4>2. Head(chJob'[t]) = Do("delete", <<On(t), n>>)
        BY <3>1, <3>3, <4>1, ChStepsAre
      <4>3. QED
        BY <3>3, <4>1, <4>2 DEF Do
    <3>4. QED
      BY <2>4, <3>2, <3>3 DEF ChAsks
  <2>5. QED
    BY <1>1, <2>2, <2>3, <2>4, ChReplaces
<1>11. QED
  BY <1>6, <1>9, <1>10 DEF ChKept

\* So does everything else that happens in an orderly client.
LEMMA ChKeeps ==
    ASSUME ChInv, chOrderly, [ChNext]_chVars
    PROVE  ChKept'
<1>1. ChTypeOK /\ ChSentFirst /\ ChOneTask /\ ChAsSent /\ ChCancelled /\ ChKnown
  BY DEF ChInv, ChKept
<1>2. CASE \E t \in ChWorkers : ChStep(t)
  BY <1>2, ChStepKeeps
<1>3. CASE ChSetup
  <2> DEFINE steps == <<Do("subscribe", FsaList), Do("list", "setup")>>
  <2>1. \A t \in ChWorkers : chJob[t] = << >>
    BY <1>1, <1>3 DEF ChSetup, ChOneTask, ChIdle
  <2>2. /\ Main \in ChWorkers /\ BeginJob(Main, steps) /\ chPhase' = "setup"
        /\ UNCHANGED <<chTracked, chServer, chLost, chErrors>> /\ chErrors = {}
    BY <1>1, <1>3 DEF ChSetup, ChWorkers, chManager, chRemote, ChCancelled
  <2>3. steps \in Seq(ChSteps) /\ Head(steps)[1] = "subscribe"
        /\ \A i \in 2..Len(steps) : steps[i][1] \notin Sent
    BY ChSetupJob
  <2> HIDE DEF steps
  <2>4. chJob'[Main] = steps /\ \A t \in ChWorkers : t # Main => chJob'[t] = << >>
    BY <1>1, <2>1, <2>2, <2>3, ChBegins
  <2>5. ChOneTask'
    BY <2>2, <2>4, ChainAssumption DEF ChOneTask, ChWorkers
  <2>6. ChAsSent'
    BY <2>3, <2>4 DEF ChAsSent
  <2>7. QED
    BY <1>1, <2>2, <2>5, <2>6 DEF ChKept, ChCancelled, ChKnown
<1>4. CASE ChSetupDone
  <2>1. /\ chPhase = "setup" /\ chPhase' = "up" /\ chJob[Main] = << >> /\ chErrors = {}
        /\ UNCHANGED <<chTracked, chServer, chLost, chErrors, chJob>>
    BY <1>1, <1>4 DEF ChSetupDone, chManager, chRemote, ChCancelled
  <2>2. ChOneTask'
    BY <1>1, <2>1 DEF ChOneTask
  <2>3. ChAsSent'
    BY <1>1, <2>1 DEF ChAsSent
  <2>4. QED
    BY <1>1, <2>1, <2>2, <2>3 DEF ChKept, ChCancelled, ChKnown
<1>5. CASE ChCleanup
  <2> DEFINE S == {p \in Paths : chTracked[p] # {}}
             s == ForEach("cleanup", S)
  <2>1. /\ Main \in ChWorkers /\ BeginJob(Main, <<s>>) /\ s \in ChSteps /\ chPhase' = "cleanup"
        /\ UNCHANGED <<chTracked, chServer, chLost, chErrors>>
    BY <1>5, ChStepsAre DEF ChCleanup, ChWorkers, chManager, chRemote
  <2>2. \A t \in ChWorkers : chJob[t] = << >>
    BY <1>5 DEF ChCleanup, ChFree, ChIdle
  <2>3. chJob'[Main] = <<s>> /\ \A t \in ChWorkers : t # Main => chJob'[t] = << >>
    <3> HIDE DEF s
    <3>1. QED
      BY <1>1, <2>1, <2>2, ChOneStep, ChBegins
  <2>4. ChCleaning'
    <3>1. S \in SUBSET Paths /\ \A p \in Paths \ S : chTracked'[p] = {}
      BY <2>1
    <3> HIDE DEF S
    <3>2. QED
      BY <2>3, <3>1 DEF ChCleaning
  <2>5. ChOneTask'
    BY <2>1, <2>3, <2>4, ChainAssumption DEF ChOneTask, ChWorkers
  <2>6. s[1] = "for" /\ Head(<<s>>) = s
    BY DEF ForEach, Do
  <2>7. ChAsSent'
    <3> HIDE DEF s
    <3>1. QED
      BY <2>3, <2>6 DEF ChAsSent
  <2>8. QED
    BY <1>1, <2>1, <2>5, <2>7 DEF ChKept, ChCancelled, ChKnown
<1>6. CASE ChCleanupDone
  <2>1. /\ chPhase = "cleanup" /\ chPhase' = "down" /\ chJob[Main] = << >>
        /\ UNCHANGED <<chTracked, chServer, chLost, chErrors, chJob>>
    BY <1>6 DEF ChCleanupDone, chRemote
  <2>2. (\A t \in ChWorkers : chJob[t] = << >>) /\ ChCleaning
    BY <1>1, <2>1 DEF ChOneTask, ChWorkers
  <2>3. \A p \in Paths : chTracked[p] = {}
    BY <2>1, <2>2 DEF ChCleaning
  <2>4. ChOneTask'
    BY <2>1, <2>2, <2>3 DEF ChOneTask, ChIdle
  <2>5. ChAsSent'
    BY <1>1, <2>1 DEF ChAsSent
  <2>6. QED
    BY <1>1, <2>1, <2>4, <2>5 DEF ChKept, ChCancelled, ChKnown
<1>7. ASSUME NEW t \in ChTasks, Notified(t) PROVE ChKept'
  <2>1. /\ chPhase = "up" /\ UNCHANGED <<chPhase, chServer, chLost>>
        /\ \A u \in ChWorkers : chJob[u] = << >>
    BY <1>7 DEF Notified, ChFree, ChIdle
  <2>2. PICK s \in ChSteps :
            /\ BeginJob(t, <<s>>) /\ s[1] \notin Sent
            /\ \/ UNCHANGED <<chErrors, chTracked>> /\ chErrors = {}
               \/ \E p \in chErrors : /\ chErrors' = chErrors \ {p}
                                      /\ chTracked' = [chTracked EXCEPT ![p] = {}]
    <3>1. \/ \E p \in chErrors : /\ chErrors' = chErrors \ {p}
                                 /\ chTracked' = [chTracked EXCEPT ![p] = {}]
                                 /\ BeginJob(t, <<Do("subscribe", p)>>)
          \/ /\ UNCHANGED <<chErrors, chTracked>> /\ chErrors = {}
             /\ \E about \in {"fsa", "program"} : BeginJob(t, <<Do("list", about)>>)
      BY <1>7 DEF Notified
    <3>2. /\ \A p \in Paths : Do("subscribe", p) \in ChSteps /\ Do("subscribe", p)[1] \notin Sent
          /\ \A a \in {"fsa", "program"} : Do("list", a) \in ChSteps /\ Do("list", a)[1] \notin Sent
      BY ChStepsAre DEF Do, Sent
    <3>3. chErrors \subseteq Paths
      BY <1>1 DEF ChTypeOK
    <3>4. QED
      BY <3>1, <3>2, <3>3
  <2>3. chJob'[t] = <<s>> /\ \A u \in ChWorkers : u # t => chJob'[u] = << >>
    BY <1>1, <2>1, <2>2, ChOneStep, ChBegins DEF ChWorkers
  <2>4. ChAsSent'
    <3>1. Head(<<s>>) = s
      OBVIOUS
    <3>2. QED
      BY <2>2, <2>3, <3>1 DEF ChAsSent, Sent
  <2>5. ChOneTask'
    BY <2>1, <2>3 DEF ChOneTask
  <2>6. ChCancelled' /\ ChKnown'
    <3>1. CASE UNCHANGED <<chErrors, chTracked>> /\ chErrors = {}
      BY <1>1, <2>1, <3>1 DEF ChCancelled, ChKnown
    <3>2. ASSUME NEW p \in chErrors, chErrors' = chErrors \ {p},
                 chTracked' = [chTracked EXCEPT ![p] = {}]
          PROVE  ChCancelled' /\ ChKnown'
      <4>1. chErrors' = {} /\ chServer[p] \subseteq chLost[p]
        BY <1>1, <3>2 DEF ChCancelled
      <4>2. ChKnown'
        BY <1>1, <2>1, <3>2, <4>1 DEF ChKnown, ChTypeOK
      <4>3. QED
        BY <4>1, <4>2 DEF ChCancelled
    <3>3. QED
      BY <2>2, <3>1, <3>2
  <2>7. QED
    BY <2>4, <2>5, <2>6 DEF ChKept
<1>8. CASE Reassigned
  <2>1. chPhase = "up" /\ UNCHANGED <<chTracked, chJob, chPhase, chServer, chLost, chErrors>>
    BY <1>8 DEF Reassigned, chManager, chRemote
  <2>2. ChOneTask'
    BY <1>1, <2>1 DEF ChOneTask, ChIdle, ChCleaning
  <2>3. ChCancelled'
    BY <1>1, <2>1 DEF ChCancelled, ChIdle
  <2>4. QED
    BY <1>1, <2>1, <2>2, <2>3 DEF ChKept, ChAsSent, ChKnown
<1>9. CASE ServerEnds
  <2>1. /\ chPhase = "up" /\ ChIdle /\ chErrors = {}
        /\ UNCHANGED <<chTracked, chJob, chPhase, chLost>>
    BY <1>9 DEF ServerEnds, chManager
  <2>2. PICK p \in Paths, n \in ChNames :
            /\ n \in chServer[p] /\ chTracked[p] \cap {n, Unnamed} # {}
            /\ chServer' = [chServer EXCEPT ![p] = @ \ {n}] /\ chErrors' = chErrors \cup {p}
    BY <1>9 DEF ServerEnds
  <2>3. chTracked[p] \in {{n}, {Unnamed}} /\ chServer[p] \subseteq ChNames
    BY <1>1, <2>2 DEF ChTypeOK
  <2>4. /\ \A q \in Paths : q # p => chServer'[q] = chServer[q]
        /\ chServer'[p] = chServer[p] \ {n} /\ chErrors' = {p}
    BY <1>1, <2>1, <2>2 DEF ChTypeOK
  <2>5. ChKnown'
    BY <1>1, <2>1, <2>4 DEF ChKnown
  <2>6. ChCancelled'
    BY <1>1, <2>1, <2>3, <2>4, ChainAssumption DEF ChCancelled, ChKnown, ChIdle
  <2>7. ChOneTask'
    BY <1>1, <2>1 DEF ChOneTask, ChIdle, ChCleaning
  <2>8. ChAsSent'
    BY <1>1, <2>1 DEF ChAsSent
  <2>9. QED
    BY <2>5, <2>6, <2>7, <2>8 DEF ChKept
<1>10. CASE UNCHANGED chVars
  <2>1. UNCHANGED <<chTracked, chJob, chPhase, chServer, chLost, chErrors>>
    BY <1>10 DEF chVars, chManager, chRemote
  <2>2. ChCleaning => ChCleaning'
    BY <2>1, Zenon DEF ChCleaning
  <2>3. ChOneTask'
    BY <1>1, <2>1, <2>2 DEF ChOneTask, ChIdle
  <2>4. ChAsSent'
    BY <1>1, <2>1 DEF ChAsSent
  <2>5. QED
    BY <1>1, <2>1, <2>3, <2>4 DEF ChKept, ChCancelled, ChKnown, ChIdle
<1>11. QED
  BY <1>2, <1>3, <1>4, <1>5, <1>6, <1>7, <1>8, <1>9, <1>10 DEF ChNext

\* Every step keeps what the chain rests on.
LEMMA ChPreserved == ChInv /\ [ChNext]_chVars => ChInv'
<1> SUFFICES ASSUME ChInv, [ChNext]_chVars PROVE ChInv'
  OBVIOUS
<1>1. ChTypeOK' /\ ChTypeOK
  BY ChTypes DEF ChInv
<1>2. UNCHANGED chOrderly
  BY DEF ChNext, ChSetup, ChSetupDone, ChCleanup, ChCleanupDone, ChStep, Notified, Reassigned,
     ServerEnds, Subscribe, SubscribeAnswered, Unsubscribe, UnsubscribeAnswered, ListAnswered,
     ForNext, ProgramsAnswered, FsaGone, EachBegins, EachNext, Bookkept, chRules, chVars
<1>3. ASSUME chOrderly PROVE ChSentFirst'
  <2>0. ChSentFirst
    BY <1>3 DEF ChInv
  <2>1. ASSUME NEW t \in ChWorkers, ChStep(t) PROVE ChSentFirst'
    BY <1>1, <2>0, <2>1, ChJobs
  <2>2. CASE ChSetup
    <3>1. Main \in ChWorkers /\ BeginJob(Main, <<Do("subscribe", FsaList), Do("list", "setup")>>)
      BY <2>2 DEF ChSetup, ChWorkers
    <3>2. QED
      BY <1>1, <2>0, <3>1, ChSetupJob, ChBegins
  <2>3. CASE ChCleanup
    <3> DEFINE s == ForEach("cleanup", {p \in Paths : chTracked[p] # {}})
    <3>1. Main \in ChWorkers /\ BeginJob(Main, <<s>>) /\ s \in ChSteps
      BY <2>3, ChStepsAre DEF ChCleanup, ChWorkers
    <3> HIDE DEF s
    <3>2. QED
      BY <1>1, <2>0, <3>1, ChOneStep, ChBegins
  <2>4. ASSUME NEW t \in ChTasks, Notified(t) PROVE ChSentFirst'
    <3>1. PICK s \in ChSteps : BeginJob(t, <<s>>)
      BY <1>1, <2>4, ChStepsAre DEF Notified, ChTypeOK
    <3>2. QED
      BY <1>1, <2>0, <3>1, ChOneStep, ChBegins DEF ChWorkers
  <2>5. CASE ChSetupDone \/ ChCleanupDone \/ Reassigned \/ ServerEnds \/ UNCHANGED chVars
    <3>1. UNCHANGED chJob
      BY <2>5 DEF ChSetupDone, ChCleanupDone, Reassigned, ServerEnds, chVars
    <3>2. QED
      BY <2>0, <3>1 DEF ChSentFirst
  <2>6. QED
    BY <2>1, <2>2, <2>3, <2>4, <2>5 DEF ChNext
<1>4. QED
  BY <1>1, <1>2, <1>3, ChKeeps DEF ChInv

\* The push mode of the client, SubscriptionManager of subscription/: when notifications are
\* handled one at a time and in order, every subscription that the server has is tracked or is
\* one of those whose answer was lost, and none is tracked after cleanup(); and whatever the
\* order, its state is of its types.
THEOREM ChainIsSafe == ChBehaviour => [](ChTypeOK /\ ChainSafe)
<1>1. ChInv => ChTypeOK /\ ChainSafe
  BY DEF ChInv, ChKept, ChKnown, ChOneTask, ChainSafe
<1>2. QED
  BY ChInitially, ChPreserved, <1>1, PTL DEF ChBehaviour

-----------------------------------------------------------------------------
(***************************************************************************)
(* The notifications.                                                      *)
(***************************************************************************)
NpBehaviour == NpInit /\ [][NpNext]_npVars

\* How many of the requests stand at certain steps.
NpCount(task, S) == Cardinality({r \in NpTasks : task[r] \in S})
NpWaiting == {"manager", "error", "execute", "callback"}

\* Without a socket that listens there are no requests but those that stop() waits for.
NpClosed ==
    /\ npServer = "stopping" => ~npSite
    /\ npServer = "stopped" \/ (npServer = "starting" /\ ~npSite) =>
           ~npSite /\ \A r \in NpTasks : npTask[r] = "free"

NpBusy == Steps \ {"free"}

\* The numbers of a state: a request is handled once, and is processed or an error of the
\* handler only after that.
NpStatsSet == [received : Int, processed : Int, errors : Int]
NpHandledSet == [handled : Int, controls : Int, errors : Int]
NpControlSet == [executed : Int, failed : Int, past : Int]
NpCutSet == [all : Int, controls : Int]
NpSets == /\ npTask \in [NpTasks -> Steps] /\ npStats \in NpStatsSet
          /\ npHandled \in NpHandledSet /\ npControl \in NpControlSet /\ npCut \in NpCutSet
          /\ npRefused \in Int

NpSums(stats, handled, control, cut, refused, busy, execute, read, waiting, error) ==
    /\ stats.received = stats.processed + stats.errors + refused + busy + cut.all
    /\ handled.controls = control.executed + control.failed + control.past
                            + cut.controls + execute
    /\ handled.handled + read <= stats.received
    /\ stats.processed + waiting <= handled.handled
    /\ handled.errors + error <= handled.handled
    /\ handled.controls <= handled.handled
    /\ control.failed <= stats.errors
    /\ stats.received <= NpRequests
    /\ stats.processed >= 0 /\ stats.errors >= 0 /\ refused >= 0 /\ cut.all >= 0
    /\ handled.handled >= 0 /\ handled.errors >= 0
    /\ control.executed >= 0 /\ control.failed >= 0 /\ control.past >= 0 /\ cut.controls >= 0

NpFlags == /\ npHandler \in [control : BOOLEAN, manager : BOOLEAN]
           /\ npServer \in {"stopped", "starting", "running", "stopping"}
           /\ npSite \in BOOLEAN /\ npSet \in BOOLEAN /\ npStarts \in 0..NpStarts

NpNumbers == NpSums(npStats, npHandled, npControl, npCut, npRefused,
                    NpCount(npTask, NpBusy), NpCount(npTask, {"execute"}), NpCount(npTask, {"read"}),
                    NpCount(npTask, NpWaiting), NpCount(npTask, {"error"}))

NpInv == NpFlags /\ NpSets /\ NpNumbers /\ NpClosed

-----------------------------------------------------------------------------
(* Counting the requests.                                                  *)

\* A task that moves is counted where it came to and no longer where it was.
LEMMA NpCounted ==
    ASSUME NEW task \in [NpTasks -> Steps], NEW r \in NpTasks, NEW S,
           NEW moved \in [NpTasks -> Steps], \A q \in NpTasks : q # r => moved[q] = task[q]
    PROVE  /\ NpCount(task, S) \in Nat /\ NpCount(moved, S) \in Nat
           /\ task[r] \in S => NpCount(task, S) > 0
           /\ NpCount(moved, S) = NpCount(task, S) - (IF task[r] \in S THEN 1 ELSE 0)
                                  + (IF moved[r] \in S THEN 1 ELSE 0)
<1> DEFINE b == moved[r]
           A == {q \in NpTasks : task[q] \in S}
           B == {q \in NpTasks : moved[q] \in S}
<1>1. IsFiniteSet(A) /\ IsFiniteSet(B)
  BY PushAssumption, FS_Subset
<1>3. A \ {r} = B \ {r} /\ (r \in A <=> task[r] \in S) /\ (r \in B <=> b \in S)
  OBVIOUS
<1> HIDE DEF A, B, b
<1>4. /\ Cardinality(A) \in Nat /\ Cardinality(B) \in Nat
      /\ Cardinality(A \ {r}) = IF r \in A THEN Cardinality(A) - 1 ELSE Cardinality(A)
      /\ Cardinality(B \ {r}) = IF r \in B THEN Cardinality(B) - 1 ELSE Cardinality(B)
      /\ Cardinality(A \ {r}) \in Nat
  BY <1>1, FS_RemoveElement, FS_CardinalityType
<1>5. /\ task[r] \in S => Cardinality(A) > 0
      /\ Cardinality(B) = Cardinality(A) - (IF task[r] \in S THEN 1 ELSE 0)
                          + (IF b \in S THEN 1 ELSE 0)
  <2>1. Cardinality(A \ {r}) = Cardinality(B \ {r})
    BY <1>3
  <2> DEFINE a == Cardinality(A)
             b1 == Cardinality(B)
             n == Cardinality(A \ {r})
  <2> HIDE DEF a, b1, n
  <2>2. a \in Nat /\ b1 \in Nat /\ n \in Nat
    BY <1>4 DEF a, b1, n
  <2>3. n = IF task[r] \in S THEN a - 1 ELSE a
    BY <1>3, <1>4 DEF a, n
  <2>4. n = IF b \in S THEN b1 - 1 ELSE b1
    BY <1>3, <1>4, <2>1 DEF b1, n
  <2>5. /\ task[r] \in S => a > 0
        /\ b1 = a - (IF task[r] \in S THEN 1 ELSE 0) + (IF b \in S THEN 1 ELSE 0)
    BY <2>2, <2>3, <2>4
  <2>6. QED
    BY <2>5 DEF a, b1
<1>6. QED
  BY <1>4, <1>5 DEF NpCount, A, B, b

\* Where no task is none is counted.
LEMMA NpNone ==
    ASSUME NEW task, NEW S, \A r \in NpTasks : task[r] = "free", "free" \notin S
    PROVE  NpCount(task, S) = 0
<1>1. {r \in NpTasks : task[r] \in S} = {}
  OBVIOUS
<1>2. QED
  BY <1>1, FS_EmptySet DEF NpCount

\* There are as many tasks at a place as a number says.
LEMMA NpNatural == ASSUME NEW task, NEW S PROVE NpCount(task, S) \in Nat
BY PushAssumption, FS_Subset, FS_CardinalityType DEF NpCount

\* What the properties count, as counts.
LEMMA NpServing ==
    ASSUME npTask \in [NpTasks -> Steps]
    PROVE  /\ Cardinality(Serving) = NpCount(npTask, NpBusy)
           /\ Cardinality({r \in Serving : npTask[r] = "execute"}) = NpCount(npTask, {"execute"})
           /\ Serving = {} <=> \A r \in NpTasks : npTask[r] = "free"
<1>1. Serving = {r \in NpTasks : npTask[r] \in NpBusy}
  BY DEF Serving, NpBusy
<1>2. {r \in Serving : npTask[r] = "execute"} = {r \in NpTasks : npTask[r] \in {"execute"}}
  BY DEF Serving
<1>3. QED
  BY <1>1, <1>2 DEF NpCount, Serving

\* What is kept is what the notifications promise.
LEMMA NpIsSafe == NpInv => NpTypeOK /\ PushSafe
<1>1. \A S : NpCount(npTask, S) \in Nat
  BY NpNatural
<1> DEFINE busy == NpCount(npTask, NpBusy)
           execute == NpCount(npTask, {"execute"})
           read == NpCount(npTask, {"read"})
           waiting == NpCount(npTask, NpWaiting)
           error == NpCount(npTask, {"error"})
<1>2. /\ busy \in Nat /\ execute \in Nat /\ read \in Nat /\ waiting \in Nat /\ error \in Nat
      /\ NpRequests \in Nat
  BY <1>1, PushAssumption
<1>3. ASSUME NpInv PROVE NpTypeOK /\ PushSafe
  <2>1. /\ Cardinality(Serving) = busy
        /\ Cardinality({r \in Serving : npTask[r] = "execute"}) = execute
        /\ Serving = {} <=> \A r \in NpTasks : npTask[r] = "free"
    BY <1>3, NpServing DEF NpInv, NpSets
  <2>2. NpSums(npStats, npHandled, npControl, npCut, npRefused, busy, execute,
             read, waiting, error)
    BY <1>3 DEF NpInv, NpNumbers
  <2> HIDE DEF busy, execute, read, waiting, error
  <2>3. /\ npStats.received \in Int /\ npStats.processed \in Int /\ npStats.errors \in Int
        /\ npRefused \in Int /\ npHandled.handled \in Int /\ npHandled.errors \in Int
        /\ npHandled.controls \in Int
        /\ npCut.all \in Int /\ npCut.controls \in Int /\ npControl.executed \in Int
        /\ npControl.failed \in Int /\ npControl.past \in Int
    BY <1>3 DEF NpInv, NpSets, NpStatsSet, NpHandledSet, NpControlSet, NpCutSet
  <2>4. /\ npStats.received \in 0..NpRequests /\ npStats.processed \in 0..NpRequests
        /\ npStats.errors \in 0..NpRequests /\ npRefused \in 0..NpRequests
        /\ npHandled.handled \in 0..NpRequests /\ npHandled.errors \in 0..NpRequests
        /\ npHandled.controls \in 0..NpRequests
        /\ npCut.all \in 0..NpRequests /\ npCut.controls \in 0..NpRequests
        /\ npControl.executed \in 0..NpRequests /\ npControl.failed \in 0..NpRequests
        /\ npControl.past \in 0..NpRequests
    BY <1>2, <2>2, <2>3 DEF NpSums
  <2>5. NpTypeOK
    BY <1>3, <2>4 DEF NpInv, NpTypeOK, NpFlags, NpSets, NpStatsSet, NpHandledSet, NpControlSet, NpCutSet
  <2>6. PushSafe
    BY <1>2, <1>3, <2>1, <2>2, <2>3 DEF NpInv, PushSafe, RequestsAreCounted, ControlsAreAccounted, NothingRunsOn,
       NpSums, NpClosed
  <2>7. QED
    BY <2>5, <2>6
<1>4. QED
  BY <1>3

\* Nothing was pushed at first.
LEMMA NpInitially == NpInit => NpInv
<1> SUFFICES ASSUME NpInit PROVE NpInv
  OBVIOUS
<1>1. \A r \in NpTasks : npTask[r] = "free"
  BY DEF NpInit
<1>2. \A S : "free" \notin S => NpCount(npTask, S) = 0
  BY <1>1, NpNone
<1>3. /\ NpCount(npTask, NpBusy) = 0 /\ NpCount(npTask, {"execute"}) = 0
      /\ NpCount(npTask, {"read"}) = 0 /\ NpCount(npTask, NpWaiting) = 0
      /\ NpCount(npTask, {"error"}) = 0
  BY <1>2 DEF NpBusy, NpWaiting
<1>4. NpNumbers
  BY <1>3, PushAssumption DEF NpNumbers, NpSums, NpInit
<1>5. NpFlags /\ NpSets /\ NpClosed
  <2>1. npTask \in [NpTasks -> Steps]
    BY DEF NpInit, Steps
  <2>2. NpSets
    BY <2>1 DEF NpSets, NpInit, NpStatsSet, NpHandledSet, NpControlSet, NpCutSet
  <2>3. NpFlags
    <3>1. npStarts \in 0..NpStarts
      BY PushAssumption DEF NpInit
    <3>2. npSite \in BOOLEAN /\ npSet \in BOOLEAN
      BY DEF NpInit
    <3>3. QED
      BY <3>1, <3>2 DEF NpFlags, NpInit
  <2>5. NpClosed
    BY <1>1 DEF NpClosed, NpInit
  <2>4. QED
    BY <2>2, <2>3, <2>5
<1>6. QED
  BY <1>4, <1>5 DEF NpInv

\* A request goes from one step to another.
NpGoes(r, a, b) ==
    /\ npTask[r] = a /\ npTask'[r] = b /\ npTask' \in [NpTasks -> Steps]
    /\ \A q \in NpTasks : q # r => npTask'[q] = npTask[q]

\* A task that goes on leaves the others where they are.
LEMMA NpGoing ==
    ASSUME NpSets, NEW r \in NpTasks, NEW b \in Steps, npTask' = [npTask EXCEPT ![r] = b]
    PROVE  NpGoes(r, npTask[r], b)
BY DEF NpSets, NpGoes

\* Counting keeps the numbers numbers.
LEMMA NpCounting ==
    /\ \A s \in NpStatsSet : /\ [s EXCEPT !.processed = @ + 1] \in NpStatsSet
                             /\ [s EXCEPT !.errors = @ + 1] \in NpStatsSet
    /\ \A h \in NpHandledSet, k \in Int :
           /\ [h EXCEPT !.handled = @ + 1, !.errors = @ + k] \in NpHandledSet
           /\ [h EXCEPT !.handled = @ + 1, !.controls = @ + k] \in NpHandledSet
    /\ \A c \in NpControlSet : [c EXCEPT !.past = @ + 1] \in NpControlSet
<1>1. ASSUME NEW s \in NpStatsSet
      PROVE  /\ [s EXCEPT !.processed = @ + 1] \in NpStatsSet
             /\ [s EXCEPT !.errors = @ + 1] \in NpStatsSet
  BY DEF NpStatsSet
<1>2. ASSUME NEW h \in NpHandledSet, NEW k \in Int
      PROVE  [h EXCEPT !.handled = @ + 1, !.errors = @ + k] \in NpHandledSet
  <2> DEFINE g == [h EXCEPT !.handled = @ + 1]
  <2>1. [h EXCEPT !.handled = @ + 1, !.errors = @ + k] = [g EXCEPT !.errors = @ + k]
    BY DEF NpHandledSet
  <2>2. g \in NpHandledSet
    BY DEF NpHandledSet
  <2> HIDE DEF g
  <2>3. [g EXCEPT !.errors = @ + k] \in NpHandledSet
    BY <2>2 DEF NpHandledSet
  <2>4. QED
    BY <2>1, <2>3
<1>3. ASSUME NEW h \in NpHandledSet, NEW k \in Int
      PROVE  [h EXCEPT !.handled = @ + 1, !.controls = @ + k] \in NpHandledSet
  <2> DEFINE g == [h EXCEPT !.handled = @ + 1]
  <2>1. [h EXCEPT !.handled = @ + 1, !.controls = @ + k] = [g EXCEPT !.controls = @ + k]
    BY DEF NpHandledSet
  <2>2. g \in NpHandledSet
    BY DEF NpHandledSet
  <2> HIDE DEF g
  <2>3. [g EXCEPT !.controls = @ + k] \in NpHandledSet
    BY <2>2 DEF NpHandledSet
  <2>4. QED
    BY <2>1, <2>3
<1>4. ASSUME NEW c \in NpControlSet
      PROVE  [c EXCEPT !.past = @ + 1] \in NpControlSet
  BY DEF NpControlSet
<1>5. QED
  BY <1>1, <1>2, <1>3, <1>4

\* Every step of a request, of a task and of the server keeps the counts.
LEMMA NpPreserved == NpInv /\ [NpNext]_npVars => NpInv'
<1> SUFFICES ASSUME NpInv, [NpNext]_npVars PROVE NpInv'
  OBVIOUS
<1> DEFINE busy == NpCount(npTask, NpBusy)
           execute == NpCount(npTask, {"execute"})
           read == NpCount(npTask, {"read"})
           waiting == NpCount(npTask, NpWaiting)
           error == NpCount(npTask, {"error"})
           busy1 == NpCount(npTask', NpBusy)
           execute1 == NpCount(npTask', {"execute"})
           read1 == NpCount(npTask', {"read"})
           waiting1 == NpCount(npTask', NpWaiting)
           error1 == NpCount(npTask', {"error"})
<1>1. /\ NpFlags /\ NpSets /\ NpClosed
      /\ NpSums(npStats, npHandled, npControl, npCut, npRefused, busy, execute, read,
                waiting, error)
  BY DEF NpInv, NpNumbers
<1>2. /\ busy \in Nat /\ execute \in Nat /\ read \in Nat /\ waiting \in Nat /\ error \in Nat
      /\ NpRequests \in Nat
  BY NpNatural, PushAssumption
<1>3. NpSums(npStats', npHandled', npControl', npCut', npRefused', busy1, execute1, read1,
             waiting1, error1) => NpNumbers'
  BY DEF NpNumbers
\* What each move of a request changes.
<1>4. ASSUME NEW r \in NpTasks, NEW a \in Steps, NEW b \in Steps, NpGoes(r, a, b)
      PROVE  /\ busy1 = busy - (IF a \in NpBusy THEN 1 ELSE 0) + (IF b \in NpBusy THEN 1 ELSE 0)
             /\ execute1 = execute - (IF a = "execute" THEN 1 ELSE 0) + (IF b = "execute" THEN 1 ELSE 0)
             /\ read1 = read - (IF a = "read" THEN 1 ELSE 0) + (IF b = "read" THEN 1 ELSE 0)
             /\ waiting1 = waiting - (IF a \in NpWaiting THEN 1 ELSE 0) + (IF b \in NpWaiting THEN 1 ELSE 0)
             /\ error1 = error - (IF a = "error" THEN 1 ELSE 0) + (IF b = "error" THEN 1 ELSE 0)
  <2>1. npTask \in [NpTasks -> Steps]
    BY <1>1 DEF NpSets
  <2>2. /\ npTask' \in [NpTasks -> Steps] /\ npTask'[r] = b /\ npTask[r] = a
        /\ \A q \in NpTasks : q # r => npTask'[q] = npTask[q]
    BY <1>4 DEF NpGoes
  <2>3. ASSUME NEW S
        PROVE  NpCount(npTask', S) = NpCount(npTask, S) - (IF a \in S THEN 1 ELSE 0)
                                     + (IF b \in S THEN 1 ELSE 0)
    BY <2>1, <2>2, NpCounted
  <2>4. QED
    BY <2>3
<1> HIDE DEF busy, execute, read, waiting, error, busy1, execute1, read1, waiting1, error1
<1> USE <1>1, <1>2, <1>3
\* What has to be shown of a step of a request.
<1>5. ASSUME NEW r \in NpTasks, UNCHANGED <<npHandler, npServer, npSite, npSet, npStarts>>,
             NEW a \in Steps, NEW b \in Steps, NpGoes(r, a, b), a # "free" \/ npSite,
             npStats' \in NpStatsSet, npHandled' \in NpHandledSet, npControl' \in NpControlSet,
             npCut' \in NpCutSet, npRefused' \in Int,
             NpSums(npStats', npHandled', npControl', npCut', npRefused', busy1, execute1, read1,
                    waiting1, error1)
      PROVE  NpInv'
  <2>1. NpFlags'
    BY <1>5 DEF NpFlags
  <2>2. NpClosed'
    BY <1>5 DEF NpClosed, NpGoes
  <2>3. NpSets'
    BY <1>5 DEF NpSets, NpGoes
  <2>4. QED
    BY <1>5, <2>1, <2>2, <2>3 DEF NpInv
<1>6. ASSUME UNCHANGED <<npTask, npStats, npHandled, npHistory>> PROVE NpSets' /\ NpNumbers'
  <2>1. UNCHANGED <<npTask, npStats, npHandled, npRefused, npCut, npControl>>
    BY <1>6 DEF npHistory
  <2>2. NpNumbers
    BY DEF NpInv
  <2>3. QED
    BY <2>1, <2>2 DEF NpSets, NpNumbers
<1>7. CASE NpStart
  <2>1. NpFlags'
    BY <1>7, PushAssumption DEF NpStart, NpFlags
  <2>2. NpClosed'
    BY <1>7 DEF NpStart, NpClosed
  <2>3. QED
    BY <1>6, <1>7, <2>1, <2>2 DEF NpStart, NpInv
<1>8. CASE Listens
  <2>1. NpFlags'
    BY <1>8 DEF Listens, NpFlags
  <2>2. NpClosed'
    BY <1>8 DEF Listens, NpClosed, NpFlags
  <2>3. QED
    BY <1>6, <1>8, <2>1, <2>2 DEF Listens, NpInv
<1>9. CASE NpStop
  <2>1. NpFlags'
    BY <1>9 DEF NpStop, NpFlags
  <2>2. NpClosed'
    BY <1>9 DEF NpStop, NpClosed
  <2>3. QED
    BY <1>6, <1>9, <2>1, <2>2 DEF NpStop, NpInv
<1>10. CASE UNCHANGED npVars
  <2>1. NpFlags'
    BY <1>10 DEF npVars, NpFlags
  <2>2. NpClosed'
    BY <1>10 DEF npVars, NpClosed
  <2>3. QED
    BY <1>6, <1>10, <2>1, <2>2 DEF npVars, NpInv
<1>11. CASE Stopped
  <2>1. /\ \A r \in NpTasks : npTask'[r] = "free"
        /\ npTask' \in [NpTasks -> Steps]
        /\ UNCHANGED <<npHandler, npSite, npSet, npStarts, npStats, npHandled, npRefused, npControl>>
        /\ npServer = "stopping" /\ npServer' = "stopped"
    BY <1>11 DEF Stopped, Steps
  <2>2. npCut' = [all |-> npCut.all + busy, controls |-> npCut.controls + execute]
    BY <1>11, NpServing DEF Stopped, NpSets, busy, execute
  <2>3. busy1 = 0 /\ execute1 = 0 /\ read1 = 0 /\ waiting1 = 0 /\ error1 = 0
    BY <2>1, NpNone DEF busy1, execute1, read1, waiting1, error1, NpBusy, NpWaiting
  <2>4. NpFlags' /\ NpClosed'
    BY <2>1 DEF NpFlags, NpClosed
  <2>5. NpSets'
    BY <2>1, <2>2 DEF NpSets, NpCutSet
  <2>6. NpNumbers'
    BY <2>1, <2>2, <2>3 DEF NpSums, NpSets, NpStatsSet, NpHandledSet, NpControlSet, NpCutSet
  <2>7. QED
    BY <2>4, <2>5, <2>6 DEF NpInv
<1>12. /\ npStats \in NpStatsSet /\ npHandled \in NpHandledSet /\ npControl \in NpControlSet
       /\ npCut \in NpCutSet /\ npRefused \in Int
  BY DEF NpSets
<1>13. ASSUME NEW r \in NpTasks, Request(r) PROVE NpInv'
  <2>1. /\ NpGoes(r, "free", "read")
        /\ npSite /\ npStats.received < NpRequests
        /\ npStats' = [npStats EXCEPT !.received = @ + 1]
        /\ UNCHANGED <<npHandler, npServer, npSite, npSet, npStarts>>
        /\ UNCHANGED <<npHandled, npControl, npCut, npRefused>>
    BY <1>13, NpGoing DEF Request, Steps, npHistory
  <2>2. /\ busy1 = busy + 1 /\ execute1 = execute /\ read1 = read + 1 /\ waiting1 = waiting
        /\ error1 = error
    BY <1>4, <2>1 DEF Steps, NpBusy, NpWaiting
  <2>3. QED
    BY <1>5, <1>12, <2>1, <2>2
       DEF NpSums, Steps, NpStatsSet, NpHandledSet, NpControlSet, NpCutSet
<1>14. ASSUME NEW r \in NpTasks, BadRequest(r) PROVE NpInv'
  <2>1. /\ NpGoes(r, "read", "free")
        /\ UNCHANGED <<npHandler, npServer, npSite, npSet, npStarts>>
        /\ UNCHANGED <<npHandled, npControl, npCut>>
        /\ \/ npRefused' = npRefused + 1 /\ UNCHANGED npStats
           \/ npStats' = [npStats EXCEPT !.errors = @ + 1] /\ UNCHANGED npRefused
    BY <1>14, NpGoing DEF BadRequest, Answers, Raised, Steps
  <2>2. /\ busy1 = busy - 1 /\ execute1 = execute /\ read1 = read - 1 /\ waiting1 = waiting
        /\ error1 = error
    BY <1>4, <2>1 DEF Steps, NpBusy, NpWaiting
  <2>3. QED
    BY <1>5, <1>12, <2>1, <2>2
       DEF NpSums, Steps, NpStatsSet, NpHandledSet, NpControlSet, NpCutSet
<1>15. ASSUME NEW r \in NpTasks, ManagerNotified(r) PROVE NpInv'
  <2>1. PICK step \in {"error", "manager"} :
           IF npHandler.manager
           THEN /\ NpGoes(r, "read", step) /\ UNCHANGED npStats
                /\ npHandled' = [npHandled EXCEPT !.handled = @ + 1]
           ELSE /\ NpGoes(r, "read", "free") /\ npStats' = [npStats EXCEPT !.processed = @ + 1]
                /\ npHandled' = [npHandled EXCEPT !.handled = @ + 1,
                                     !.errors = @ + IF step = "error" THEN 1 ELSE 0]
    BY <1>15, NpGoing DEF ManagerNotified, Answers, Waits, Processed, Steps
  <2>2. /\ UNCHANGED <<npHandler, npServer, npSite, npSet, npStarts>>
        /\ UNCHANGED <<npControl, npCut, npRefused>>
    BY <1>15 DEF ManagerNotified, npHistory
  <2>3. CASE npHandler.manager
    <3>1. /\ busy1 = busy /\ execute1 = execute /\ read1 = read - 1 /\ waiting1 = waiting + 1
          /\ error1 = error + (IF step = "error" THEN 1 ELSE 0)
      BY <1>4, <2>1, <2>3 DEF Steps, NpBusy, NpWaiting
    <3>2. QED
      BY <1>5, <1>12, <2>1, <2>2, <2>3, <3>1
         DEF NpSums, Steps, NpStatsSet, NpHandledSet, NpControlSet, NpCutSet
  <2>4. CASE ~npHandler.manager
    <3>1. PICK k \in {0, 1} :
             npHandled' = [npHandled EXCEPT !.handled = @ + 1, !.errors = @ + k]
      BY <2>1, <2>4
    <3>2. /\ NpGoes(r, "read", "free") /\ npStats' = [npStats EXCEPT !.processed = @ + 1]
      BY <2>1, <2>4
    <3>3. /\ busy1 = busy - 1 /\ execute1 = execute /\ read1 = read - 1 /\ waiting1 = waiting
          /\ error1 = error
      BY <1>4, <3>2 DEF Steps, NpBusy, NpWaiting
    <3>4. npStats' \in NpStatsSet /\ npHandled' \in NpHandledSet /\ npControl' \in NpControlSet
           /\ npCut' \in NpCutSet /\ npRefused' \in Int
      BY <1>12, <2>2, <3>1, <3>2, 0 \in Int, 1 \in Int, NpCounting, Zenon
    <3>5. NpSums(npStats', npHandled', npControl', npCut', npRefused', busy1, execute1, read1,
                   waiting1, error1)
      BY <1>12, <2>2, <3>1, <3>2, <3>3
         DEF NpSums, NpStatsSet, NpHandledSet, NpControlSet, NpCutSet
    <3>6. QED
      BY <1>5, <2>2, <3>2, <3>4, <3>5 DEF Steps
  <2>5. QED
    BY <2>3, <2>4
<1>16. ASSUME NEW r \in NpTasks, OtherNotified(r) PROVE NpInv'
  <2>1. /\ NpGoes(r, "read", "free")
        /\ npStats' = [npStats EXCEPT !.processed = @ + 1]
        /\ npHandled' = [npHandled EXCEPT !.handled = @ + 1]
        /\ UNCHANGED <<npHandler, npServer, npSite, npSet, npStarts>>
        /\ UNCHANGED <<npControl, npCut, npRefused>>
    BY <1>16, NpGoing DEF OtherNotified, Answers, Processed, Steps, npHistory
  <2>2. /\ busy1 = busy - 1 /\ execute1 = execute /\ read1 = read - 1 /\ waiting1 = waiting
        /\ error1 = error
    BY <1>4, <2>1 DEF Steps, NpBusy, NpWaiting
  <2>3. npStats' \in NpStatsSet /\ npHandled' \in NpHandledSet /\ npControl' \in NpControlSet
     /\ npCut' \in NpCutSet /\ npRefused' \in Int
    BY <1>12, <2>1, <2>2 DEF NpStatsSet, NpHandledSet, NpControlSet, NpCutSet
  <2>4. NpSums(npStats', npHandled', npControl', npCut', npRefused', busy1, execute1, read1,
             waiting1, error1)
    BY <1>12, <2>1, <2>2
       DEF NpSums, NpStatsSet, NpHandledSet, NpControlSet, NpCutSet
  <2>5. QED
    BY <1>5, <2>1, <2>2, <2>3, <2>4 DEF Steps
<1>17. ASSUME NEW r \in NpTasks, ControlNotified(r) PROVE NpInv'
  <2>1. /\ UNCHANGED <<npHandler, npServer, npSite, npSet, npStarts>>
        /\ UNCHANGED <<npCut, npRefused>>
    BY <1>17 DEF ControlNotified
  <2>2. \/ /\ npHandled' = [npHandled EXCEPT !.handled = @ + 1, !.errors = @ + 1]
           /\ NpGoes(r, "read", "free")
           /\ npStats' = [npStats EXCEPT !.processed = @ + 1]
           /\ UNCHANGED npControl
        \/ /\ npHandled' = [npHandled EXCEPT !.handled = @ + 1, !.controls = @ + 1]
           /\ npControl' = [npControl EXCEPT !.past = @ + 1]
           /\ NpGoes(r, "read", "free")
           /\ npStats' = [npStats EXCEPT !.processed = @ + 1]
        \/ /\ npHandled' = [npHandled EXCEPT !.handled = @ + 1, !.controls = @ + 1]
           /\ NpGoes(r, "read", "execute")
           /\ UNCHANGED <<npStats, npControl>>
    BY <1>17, NpGoing DEF ControlNotified, Answers, Waits, Processed, Steps
  <2>3. ASSUME NpGoes(r, "read", "free")
        PROVE  /\ busy1 = busy - 1 /\ execute1 = execute /\ read1 = read - 1
               /\ waiting1 = waiting /\ error1 = error
    BY <1>4, <2>3 DEF Steps, NpBusy, NpWaiting
  <2>4. CASE /\ npHandled' = [npHandled EXCEPT !.handled = @ + 1, !.errors = @ + 1]
             /\ NpGoes(r, "read", "free")
             /\ npStats' = [npStats EXCEPT !.processed = @ + 1]
             /\ UNCHANGED npControl
    <3>1. npStats' \in NpStatsSet /\ npHandled' \in NpHandledSet /\ npControl' \in NpControlSet
       /\ npCut' \in NpCutSet /\ npRefused' \in Int
      BY <1>12, <2>1, <2>4, 0 \in Int, 1 \in Int, NpCounting, Zenon
    <3>2. NpSums(npStats', npHandled', npControl', npCut', npRefused', busy1, execute1, read1,
               waiting1, error1)
      BY <1>12, <2>1, <2>3, <2>4
         DEF NpSums, NpStatsSet, NpHandledSet, NpControlSet, NpCutSet
    <3>3. QED
      BY <1>5, <2>1, <2>3, <2>4, <3>1, <3>2 DEF Steps
  <2>5. CASE /\ npHandled' = [npHandled EXCEPT !.handled = @ + 1, !.controls = @ + 1]
             /\ npControl' = [npControl EXCEPT !.past = @ + 1]
             /\ NpGoes(r, "read", "free")
             /\ npStats' = [npStats EXCEPT !.processed = @ + 1]
    <3>1. npStats' \in NpStatsSet /\ npHandled' \in NpHandledSet /\ npControl' \in NpControlSet
       /\ npCut' \in NpCutSet /\ npRefused' \in Int
      BY <1>12, <2>1, <2>5, 0 \in Int, 1 \in Int, NpCounting, Zenon
    <3>2. NpSums(npStats', npHandled', npControl', npCut', npRefused', busy1, execute1, read1,
               waiting1, error1)
      BY <1>12, <2>1, <2>3, <2>5
         DEF NpSums, NpStatsSet, NpHandledSet, NpControlSet, NpCutSet
    <3>3. QED
      BY <1>5, <2>1, <2>3, <2>5, <3>1, <3>2 DEF Steps
  <2>6. CASE /\ npHandled' = [npHandled EXCEPT !.handled = @ + 1, !.controls = @ + 1]
             /\ NpGoes(r, "read", "execute")
             /\ UNCHANGED <<npStats, npControl>>
    <3>1. /\ busy1 = busy /\ execute1 = execute + 1 /\ read1 = read - 1 /\ waiting1 = waiting + 1
          /\ error1 = error
      BY <1>4, <2>6 DEF Steps, NpBusy, NpWaiting
    <3>2. npStats' \in NpStatsSet /\ npHandled' \in NpHandledSet /\ npControl' \in NpControlSet
       /\ npCut' \in NpCutSet /\ npRefused' \in Int
      BY <1>12, <2>1, <2>6, 0 \in Int, 1 \in Int, NpCounting, Zenon
    <3>3. NpSums(npStats', npHandled', npControl', npCut', npRefused', busy1, execute1, read1,
               waiting1, error1)
      BY <1>12, <2>1, <2>6, <3>1
         DEF NpSums, NpStatsSet, NpHandledSet, NpControlSet, NpCutSet
    <3>4. QED
      BY <1>5, <2>1, <2>6, <3>1, <3>2, <3>3 DEF Steps
  <2>7. QED
    BY <2>2, <2>4, <2>5, <2>6
<1>18. ASSUME NEW r \in NpTasks, Executed(r) PROVE NpInv'
  <2>1. /\ UNCHANGED <<npHandler, npServer, npSite, npSet, npStarts>>
        /\ UNCHANGED <<npHandled, npCut, npRefused>>
        /\ \/ /\ npControl' = [npControl EXCEPT !.executed = @ + 1]
              /\ NpGoes(r, "execute", "callback") /\ UNCHANGED npStats
           \/ /\ npControl' = [npControl EXCEPT !.failed = @ + 1]
              /\ NpGoes(r, "execute", "free") /\ npStats' = [npStats EXCEPT !.errors = @ + 1]
    BY <1>18, NpGoing DEF Executed, Answers, Waits, Raised, Steps
  <2>2. CASE NpGoes(r, "execute", "callback") /\ npControl' = [npControl EXCEPT !.executed = @ + 1]
             /\ UNCHANGED npStats
    <3>1. /\ busy1 = busy /\ execute1 = execute - 1 /\ read1 = read /\ waiting1 = waiting
          /\ error1 = error
      BY <1>4, <2>2 DEF Steps, NpBusy, NpWaiting
    <3>2. QED
      BY <1>5, <1>12, <2>1, <2>2, <3>1
         DEF NpSums, Steps, NpStatsSet, NpHandledSet, NpControlSet, NpCutSet
  <2>3. CASE /\ npControl' = [npControl EXCEPT !.failed = @ + 1]
             /\ NpGoes(r, "execute", "free") /\ npStats' = [npStats EXCEPT !.errors = @ + 1]
    <3>1. /\ busy1 = busy - 1 /\ execute1 = execute - 1 /\ read1 = read /\ waiting1 = waiting - 1
          /\ error1 = error
      BY <1>4, <2>3 DEF Steps, NpBusy, NpWaiting
    <3>2. QED
      BY <1>5, <1>12, <2>1, <2>3, <3>1
         DEF NpSums, Steps, NpStatsSet, NpHandledSet, NpControlSet, NpCutSet
  <2>4. QED
    BY <2>1, <2>2, <2>3
<1>19. ASSUME NEW r \in NpTasks, CalledBack(r) PROVE NpInv'
  <2>1. /\ NpGoes(r, "callback", "free")
        /\ npStats' = [npStats EXCEPT !.processed = @ + 1]
        /\ UNCHANGED <<npHandler, npServer, npSite, npSet, npStarts>>
        /\ UNCHANGED <<npHandled, npControl, npCut, npRefused>>
    BY <1>19, NpGoing DEF CalledBack, Answers, Processed, Steps, npHistory
  <2>2. /\ busy1 = busy - 1 /\ execute1 = execute /\ read1 = read /\ waiting1 = waiting - 1
        /\ error1 = error
    BY <1>4, <2>1 DEF Steps, NpBusy, NpWaiting
  <2>3. QED
    BY <1>5, <1>12, <2>1, <2>2
       DEF NpSums, Steps, NpStatsSet, NpHandledSet, NpControlSet, NpCutSet
<1>20. ASSUME NEW r \in NpTasks, ManagerReturns(r) PROVE NpInv'
  <2> DEFINE step == npTask[r]
  <2>1. /\ step \in {"manager", "error"} /\ NpGoes(r, step, "free")
        /\ UNCHANGED <<npHandler, npServer, npSite, npSet, npStarts>>
        /\ UNCHANGED <<npControl, npCut, npRefused>>
        /\ \/ /\ npStats' = [npStats EXCEPT !.processed = @ + 1]
              /\ npHandled' = [npHandled EXCEPT !.errors = @ + IF step = "error" THEN 1 ELSE 0]
           \/ npStats' = [npStats EXCEPT !.errors = @ + 1] /\ UNCHANGED npHandled
    BY <1>20, NpGoing DEF ManagerReturns, Answers, Processed, Raised, Steps, npHistory
  <2> HIDE DEF step
  <2>2. /\ busy1 = busy - 1 /\ execute1 = execute /\ read1 = read /\ waiting1 = waiting - 1
        /\ error1 = error - (IF step = "error" THEN 1 ELSE 0)
    BY <1>4, <2>1 DEF Steps, NpBusy, NpWaiting
  <2>3. QED
    BY <1>5, <1>12, <2>1, <2>2
       DEF NpSums, Steps, NpStatsSet, NpHandledSet, NpControlSet, NpCutSet
<1>21. QED
  BY <1>7, <1>8, <1>9, <1>10, <1>11, <1>13, <1>14, <1>15, <1>16, <1>17, <1>18, <1>19, <1>20 DEF NpNext

\* NotificationServer and NotificationHandler: every request that was received is processed, an
\* error, refused, being served or cut off by a stop, every control that was pushed is accounted
\* for, and once the server has stopped nothing it received runs on; for any bounds on requests
\* and starts.
THEOREM PushIsSafe == NpBehaviour => [](NpTypeOK /\ PushSafe)
BY NpInitially, NpPreserved, NpIsSafe, PTL DEF NpBehaviour

-----------------------------------------------------------------------------
(***************************************************************************)
(* The report of the device.                                               *)
(***************************************************************************)
RpBehaviour == RpInit /\ [][RpNext]_rpVars

\* While the events of a round are posted, the log tells of the bits before the one that is
\* next what the round found, and of the others what the round before found.
RpToldSoFar ==
    /\ rpAt = "event" => rpBit \in Changed
    /\ \A b \in Bits \ rpBehind :
           rpLog[b] = IF rpAt = "event" /\ b < rpBit THEN b \in rpAlarm ELSE b \in rpPrevious

\* What was put is what the round found, and an alarm comes with a fault.
RpPutIsFound ==
    /\ rpPut /\ rpAt # "status" => rpStatus.alarm = rpAlarm
    /\ rpAlarm # {} => rpFaulty
    /\ rpStatus.alarm # {} => rpStatus.faulty

RpInv == RpTypeOK /\ RpToldSoFar /\ RpPutIsFound /\ ~rpRepeated

-----------------------------------------------------------------------------

\* Of some bits one is the least.
LEMMA RpLeast ==
    ASSUME NEW S \in SUBSET Bits, S # {}
    PROVE  LET b == CHOOSE b \in S : \A c \in S : b <= c
           IN  b \in S /\ \A c \in S : b <= c
<1>1. \E b \in S : \A c \in S : b <= c
  <2>1. \A c \in S : c = 1 \/ c = 7
    BY DEF Bits, OverVoltage, EmergencyLocal
  <2>2. CASE 1 \in S
    BY <2>1, <2>2
  <2>3. CASE 1 \notin S
    BY <2>1, <2>3
  <2>4. QED
    BY <2>2, <2>3
<1>2. QED
  BY <1>1

\* What ToEvent does, as the two outcomes it has.
LEMMA RpNextEvent ==
    ASSUME RpTypeOK, NEW after \in {0} \cup Bits, ToEvent(after)
    PROVE  \/ /\ rpAt' = "sleep" /\ rpBit' = 0 /\ rpPrevious' = rpAlarm
              /\ \A b \in Changed : b <= after
           \/ /\ rpAt' = "event" /\ rpBit' \in Changed /\ rpBit' > after
              /\ rpPrevious' = rpPrevious
              /\ \A b \in Changed : b > after => rpBit' <= b
<1> DEFINE left == {b \in Changed : b > after}
<1>1. Changed \subseteq Bits /\ Bits \subseteq Nat
  BY DEF RpTypeOK, Changed, Bits, OverVoltage, EmergencyLocal
<1>2. after \in Nat
  BY <1>1
<1>3. CASE left = {}
  BY <1>1, <1>2, <1>3 DEF ToEvent
<1>4. CASE left # {}
  <2>1. /\ rpAt' = "event" /\ rpPrevious' = rpPrevious
        /\ rpBit' = CHOOSE b \in left : \A c \in left : b <= c
    BY <1>4 DEF ToEvent
  <2>2. left \in SUBSET Bits
    BY <1>1
  <2>3. rpBit' \in left /\ \A c \in left : rpBit' <= c
    BY <1>4, <2>1, <2>2, RpLeast
  <2>4. QED
    BY <2>1, <2>3
<1>5. QED
  BY <1>3, <1>4

\* Nothing is reported at first.
LEMMA RpInitially == RpInit => RpInv
<1> SUFFICES ASSUME RpInit PROVE RpInv
  OBVIOUS
<1>1. RpTypeOK
  <2>1. rpStatus \in [alarm : SUBSET Bits, faulty : BOOLEAN]
    BY DEF RpInit
  <2>2. rpLog \in [Bits -> BOOLEAN]
    BY DEF RpInit
  <2>3. rpRounds \in 0..RpRounds /\ rpRestarts \in 0..RpRestarts
    BY ReportingAssumption DEF RpInit
  <2>4. /\ rpAt = "sleep" /\ rpAlarm = {} /\ rpPrevious = {} /\ rpBit = 0 /\ rpBehind = {}
        /\ rpFaulty = FALSE /\ rpPut = TRUE /\ rpRepeated = FALSE
    BY DEF RpInit
  <2>5. QED
    BY <2>1, <2>2, <2>3, <2>4 DEF RpTypeOK
<1>2. RpToldSoFar
  <2>1. /\ rpAt = "sleep" /\ rpPrevious = {} /\ rpLog = [b \in Bits |-> FALSE]
    BY DEF RpInit
  <2>2. rpAt # "event"
    BY <2>1
  <2>3. \A b \in Bits \ rpBehind : rpLog[b] = (b \in rpPrevious)
    <3>1. \A b \in Bits : rpLog[b] = FALSE /\ (b \in rpPrevious) = FALSE
      BY <2>1
    <3>2. QED
      BY <3>1
  <2>4. QED
    BY <2>2, <2>3 DEF RpToldSoFar
<1>3. RpPutIsFound /\ ~rpRepeated
  <2>1. rpStatus.alarm = {} /\ rpAlarm = {} /\ ~rpRepeated
    BY DEF RpInit
  <2>2. QED
    BY <2>1 DEF RpPutIsFound
<1>4. QED
  BY <1>1, <1>2, <1>3 DEF RpInv

\* Every reading, change of state and upload keeps the report in step with the device.
LEMMA RpPreserved == RpInv /\ [RpNext]_rpVars => RpInv'
<1> SUFFICES ASSUME RpInv, [RpNext]_rpVars PROVE RpInv'
  OBVIOUS
<1>1. RpTypeOK /\ RpToldSoFar /\ RpPutIsFound /\ ~rpRepeated
  BY DEF RpInv
<1> USE ReportingAssumption
<1> DEFINE StatusSet == [alarm : SUBSET Bits, faulty : BOOLEAN]
           found == [alarm |-> rpAlarm, faulty |-> rpFaulty]
<1>2. /\ rpStatus \in StatusSet /\ found \in StatusSet
      /\ found.alarm = rpAlarm /\ found.faulty = rpFaulty
  BY <1>1 DEF RpTypeOK
<1>3. PutOrNot \subseteq {rpStatus, found} /\ (rpAt # "status" => PutOrNot = {rpStatus})
  BY DEF PutOrNot
<1> HIDE DEF StatusSet, found
<1>4. CASE Report
  <2>1. PICK snapshot \in [Racks -> SUBSET Errors] :
           /\ rpAlarm' = Aggregated(snapshot)
           /\ rpFaulty' \in {TRUE, \E k \in Racks : snapshot[k] # {}}
    BY <1>4 DEF Report
  <2>2. rpAlarm' \subseteq Bits
    BY <2>1 DEF Aggregated, AlarmStatus
  <2>3. rpAlarm' # {} => \E k \in Racks : snapshot[k] # {}
    BY <2>1 DEF Aggregated, AlarmStatus
  <2>4. rpFaulty' \in BOOLEAN /\ (rpAlarm' # {} => rpFaulty')
    BY <2>1, <2>3
  <2>5. /\ rpAt = "sleep" /\ rpAt' = "status" /\ rpRounds < RpRounds /\ rpRounds' = rpRounds + 1
        /\ UNCHANGED <<rpPrevious, rpBit, rpRestarts, rpStatus, rpLog, rpBehind, rpPut, rpRepeated>>
    BY <1>4 DEF Report, rpServer, rpHistory
  <2>6. RpTypeOK'
    BY <1>1, <2>2, <2>4, <2>5 DEF RpTypeOK
  <2>7. RpToldSoFar'
    BY <1>1, <2>5 DEF RpToldSoFar
  <2>8. QED
    BY <1>1, <2>4, <2>5, <2>6, <2>7 DEF RpInv, RpPutIsFound
<1>5. CASE RoundFails
  <2>1. /\ rpAt \in {"status", "availability"} /\ rpAt' = "sleep"
        /\ rpStatus' \in {rpStatus, found} /\ (rpAt # "status" => rpStatus' = rpStatus)
        /\ rpPut' = (rpAt = "availability" /\ rpPut)
        /\ UNCHANGED <<rpAlarm, rpFaulty, rpPrevious, rpBit, rpRounds, rpRestarts, rpLog, rpBehind,
                       rpRepeated>>
    BY <1>3, <1>5 DEF RoundFails, rpCounts
  <2>2. rpStatus' \in StatusSet /\ rpPut' \in BOOLEAN
    BY <1>2, <2>1
  <2>3. RpTypeOK'
    BY <1>1, <2>1, <2>2 DEF RpTypeOK, StatusSet
  <2>4. RpToldSoFar'
    BY <1>1, <2>1 DEF RpToldSoFar
  <2>5. RpPutIsFound'
    BY <1>1, <1>2, <2>1 DEF RpPutIsFound
  <2>6. QED
    BY <1>1, <2>1, <2>3, <2>4, <2>5 DEF RpInv
<1>6. CASE StatusPut
  <2>1. /\ rpAt = "status" /\ rpAt' = "availability" /\ rpPut' \in BOOLEAN
        /\ rpStatus' = IF rpPut' THEN found ELSE rpStatus
        /\ UNCHANGED <<rpAlarm, rpFaulty, rpPrevious, rpBit, rpRounds, rpRestarts, rpLog, rpBehind,
                       rpRepeated>>
    BY <1>6 DEF StatusPut, rpCounts, found
  <2>2. rpStatus' \in StatusSet
    BY <1>2, <2>1
  <2>3. RpTypeOK'
    BY <1>1, <2>1, <2>2 DEF RpTypeOK, StatusSet
  <2>4. RpToldSoFar'
    BY <1>1, <2>1 DEF RpToldSoFar
  <2>5. RpPutIsFound'
    BY <1>1, <1>2, <2>1 DEF RpPutIsFound
  <2>6. QED
    BY <1>1, <2>1, <2>3, <2>4, <2>5 DEF RpInv
<1>7. CASE AvailabilityPut
  <2>1. /\ rpAt = "availability" /\ ToEvent(0)
        /\ UNCHANGED <<rpAlarm, rpFaulty, rpRounds, rpRestarts, rpStatus, rpLog, rpBehind, rpPut,
                       rpRepeated>>
    BY <1>7 DEF AvailabilityPut, rpCounts, rpServer, rpHistory
  <2>2. \/ /\ rpAt' = "sleep" /\ rpBit' = 0 /\ rpPrevious' = rpAlarm
           /\ \A b \in Changed : b <= 0
        \/ /\ rpAt' = "event" /\ rpBit' \in Changed /\ rpBit' > 0
           /\ rpPrevious' = rpPrevious
           /\ \A b \in Changed : b > 0 => rpBit' <= b
    BY <1>1, <2>1, RpNextEvent
  <2>3. Changed \subseteq Bits /\ rpAlarm \subseteq Bits /\ rpPrevious \subseteq Bits
    BY <1>1 DEF RpTypeOK, Changed
  <2>4. RpTypeOK'
    BY <1>1, <2>1, <2>2, <2>3 DEF RpTypeOK
  <2>5. CASE /\ rpAt' = "sleep" /\ rpPrevious' = rpAlarm
             /\ \A b \in Changed : b <= 0
    <3>1. Changed = {}
      BY <2>3, <2>5 DEF Bits, OverVoltage, EmergencyLocal
    <3>2. rpAlarm = rpPrevious
      BY <3>1 DEF Changed
    <3>3. QED
      BY <1>1, <2>1, <2>4, <2>5, <3>2 DEF RpInv, RpToldSoFar, RpPutIsFound
  <2>6. CASE /\ rpAt' = "event" /\ rpBit' \in Changed /\ rpPrevious' = rpPrevious
             /\ \A b \in Changed : b > 0 => rpBit' <= b
    <3>1. rpBit' \in Changed'
      BY <2>1, <2>6 DEF Changed
    <3>2. \A b \in Bits : b < rpBit' => (b \in rpAlarm <=> b \in rpPrevious)
      <4>1. ASSUME NEW b \in Bits, b < rpBit' PROVE b \notin Changed
        BY <2>3, <2>6, <4>1 DEF Bits, OverVoltage, EmergencyLocal
      <4>2. QED
        BY <4>1 DEF Changed
    <3>3. RpToldSoFar'
      BY <1>1, <2>1, <2>6, <3>1, <3>2 DEF RpToldSoFar
    <3>4. QED
      BY <1>1, <2>1, <2>4, <2>6, <3>3 DEF RpInv, RpPutIsFound
  <2>7. QED
    BY <2>2, <2>5, <2>6
<1>8. CASE EventPosted
  <2> DEFINE set == rpBit \in rpAlarm
  <2>1. /\ rpAt = "event" /\ ToEvent(rpBit)
        /\ UNCHANGED <<rpAlarm, rpFaulty, rpRounds, rpRestarts, rpStatus, rpPut>>
    BY <1>8 DEF EventPosted, rpCounts
  <2>2. \/ /\ rpLog' = [rpLog EXCEPT ![rpBit] = set]
           /\ rpRepeated' = (rpRepeated \/ (rpBit \notin rpBehind /\ rpLog[rpBit] = set))
           /\ rpBehind' = rpBehind \ {rpBit}
        \/ /\ rpLog' \in {rpLog, [rpLog EXCEPT ![rpBit] = set]}
           /\ rpBehind' = rpBehind \cup {rpBit} /\ rpRepeated' = rpRepeated
    BY <1>8 DEF EventPosted
  <2>3. /\ rpBit \in Changed /\ Changed \subseteq Bits /\ rpBit \in Bits
        /\ rpAlarm \subseteq Bits /\ rpPrevious \subseteq Bits /\ rpBehind \subseteq Bits
        /\ rpLog \in [Bits -> BOOLEAN]
    BY <1>1, <2>1 DEF RpTypeOK, Changed, RpToldSoFar
  <2>4. \/ /\ rpAt' = "sleep" /\ rpBit' = 0 /\ rpPrevious' = rpAlarm
           /\ \A b \in Changed : b <= rpBit
        \/ /\ rpAt' = "event" /\ rpBit' \in Changed /\ rpBit' > rpBit
           /\ rpPrevious' = rpPrevious
           /\ \A b \in Changed : b > rpBit => rpBit' <= b
    BY <1>1, <2>1, <2>3, RpNextEvent
  <2>5. ~rpRepeated'
    <3>1. rpBit \notin rpBehind => rpLog[rpBit] = (rpBit \in rpPrevious)
      BY <1>1, <2>1, <2>3 DEF RpToldSoFar, Bits, OverVoltage, EmergencyLocal
    <3>2. (rpBit \in rpPrevious) # set
      BY <2>3 DEF Changed
    <3>3. QED
      BY <1>1, <2>2, <3>1, <3>2
  <2>6. /\ rpLog' \in [Bits -> BOOLEAN] /\ rpBehind' \subseteq Bits
        /\ \A b \in Bits : b # rpBit => /\ rpLog'[b] = rpLog[b]
                                        /\ b \in rpBehind' <=> b \in rpBehind
        /\ rpBit \notin rpBehind' => rpLog'[rpBit] = set
    <3>1. set \in BOOLEAN
      OBVIOUS
    <3> HIDE DEF set
    <3>2. /\ [rpLog EXCEPT ![rpBit] = set] \in [Bits -> BOOLEAN]
          /\ [rpLog EXCEPT ![rpBit] = set][rpBit] = set
          /\ \A b \in Bits : b # rpBit => [rpLog EXCEPT ![rpBit] = set][b] = rpLog[b]
      BY <2>3, <3>1
    <3>3. rpLog' \in [Bits -> BOOLEAN] /\ \A b \in Bits : b # rpBit => rpLog'[b] = rpLog[b]
      BY <2>2, <2>3, <3>2
    <3>4. /\ rpBehind' \subseteq Bits
          /\ \A b \in Bits : b # rpBit => (b \in rpBehind' <=> b \in rpBehind)
      BY <2>2, <2>3
    <3>5. rpBit \notin rpBehind' => rpLog'[rpBit] = set
      BY <2>2, <3>2
    <3>6. QED
      BY <3>3, <3>4, <3>5
  <2>7. RpTypeOK'
    <3>1. /\ rpAt' \in {"sleep", "status", "availability", "event"}
          /\ rpBit' \in {0} \cup Bits /\ rpPrevious' \subseteq Bits
      BY <2>3, <2>4
    <3>2. rpRepeated' \in BOOLEAN
      BY <2>2, <1>1 DEF RpTypeOK
    <3>3. QED
      BY <1>1, <2>1, <2>6, <3>1, <3>2 DEF RpTypeOK
  <2>8. \A b \in Bits : b < rpBit \/ b = rpBit \/ b > rpBit
    BY <2>3 DEF Bits, OverVoltage, EmergencyLocal
  <2>9. \A b \in Bits : b \notin Changed => (b \in rpAlarm <=> b \in rpPrevious)
    BY DEF Changed
  \* The bits up to the one that was posted, and those after it.
  <2>10. ASSUME NEW b \in Bits \ rpBehind'
         PROVE  /\ b < rpBit \/ b = rpBit => rpLog'[b] = (b \in rpAlarm)
                /\ b > rpBit => rpLog'[b] = (b \in rpPrevious)
    <3>1. CASE b = rpBit
      BY <2>3, <2>6, <3>1 DEF Bits, OverVoltage, EmergencyLocal
    <3>2. CASE b # rpBit
      <4>1. rpLog'[b] = IF b < rpBit THEN b \in rpAlarm ELSE b \in rpPrevious
        BY <1>1, <2>1, <2>6, <3>2 DEF RpToldSoFar
      <4>2. QED
        BY <2>3, <3>2, <4>1 DEF Bits, OverVoltage, EmergencyLocal
    <3>3. QED
      BY <3>1, <3>2
  <2> HIDE DEF set
  <2>11. RpToldSoFar'
    <3>1. CASE /\ rpAt' = "sleep" /\ rpPrevious' = rpAlarm
               /\ \A b \in Changed : b <= rpBit
      <4>1. ASSUME NEW b \in Bits \ rpBehind' PROVE rpLog'[b] = (b \in rpAlarm)
        <5>1. b > rpBit => b \notin Changed
          BY <2>3, <3>1 DEF Bits, OverVoltage, EmergencyLocal
        <5>2. b > rpBit => rpLog'[b] = (b \in rpAlarm)
          BY <2>9, <2>10, <5>1
        <5>3. QED
          BY <2>8, <2>10, <5>2
      <4>2. QED
        BY <3>1, <4>1 DEF RpToldSoFar
    <3>2. CASE /\ rpAt' = "event" /\ rpBit' \in Changed /\ rpBit' > rpBit
               /\ rpPrevious' = rpPrevious
               /\ \A b \in Changed : b > rpBit => rpBit' <= b
      <4>1. rpBit' \in Changed'
        BY <2>1, <3>2 DEF Changed
      <4>2. ASSUME NEW b \in Bits \ rpBehind'
            PROVE  rpLog'[b] = IF b < rpBit' THEN b \in rpAlarm ELSE b \in rpPrevious
        <5>1. CASE b > rpBit
          <6>1. b < rpBit' => b \notin Changed
            BY <2>3, <3>2, <5>1 DEF Bits, OverVoltage, EmergencyLocal
          <6>2. QED
            BY <2>9, <2>10, <5>1, <6>1
        <5>2. CASE b < rpBit \/ b = rpBit
          <6>1. b < rpBit'
            BY <2>3, <3>2, <5>2 DEF Bits, OverVoltage, EmergencyLocal
          <6>2. QED
            BY <2>10, <5>2, <6>1
        <5>3. QED
          BY <2>8, <5>1, <5>2
      <4>3. QED
        BY <2>1, <3>2, <4>1, <4>2 DEF RpToldSoFar
    <3>3. QED
      BY <2>4, <3>1, <3>2
  <2>12. RpPutIsFound'
    BY <1>1, <2>1, <2>4 DEF RpPutIsFound
  <2>13. QED
    BY <2>5, <2>7, <2>11, <2>12 DEF RpInv
<1>9. CASE RpRestarted
  <2>1. /\ rpRestarts < RpRestarts /\ rpRestarts' = rpRestarts + 1
        /\ rpAt' = "sleep" /\ rpBit' = 0 /\ rpPrevious' = {}
        /\ rpPut' = (rpPut /\ rpAt # "status")
        /\ rpStatus' \in {rpStatus, found} /\ (rpAt # "status" => rpStatus' = rpStatus)
        /\ UNCHANGED <<rpAlarm, rpFaulty, rpRounds, rpRepeated>>
    BY <1>3, <1>9 DEF RpRestarted
  <2>2. rpLog' \in [Bits -> BOOLEAN]
    <3>1. rpLog' \in {rpLog, [rpLog EXCEPT ![rpBit] = rpBit \in rpAlarm]}
      BY <1>9 DEF RpRestarted
    <3>2. rpLog \in [Bits -> BOOLEAN] /\ (rpBit \in rpAlarm) \in BOOLEAN
      BY <1>1 DEF RpTypeOK
    <3>3. \A set \in BOOLEAN : [rpLog EXCEPT ![rpBit] = set] \in [Bits -> BOOLEAN]
      BY <3>2
    <3>4. QED
      BY <3>1, <3>2, <3>3, Zenon
  <2>3. rpBehind' = rpBehind \cup {b \in Bits : rpLog[b] \/ rpLog'[b] \/ b = rpBit}
    BY <1>9 DEF RpRestarted
  <2>4. rpStatus' \in StatusSet /\ rpPut' \in BOOLEAN
    BY <1>1, <1>2, <2>1 DEF RpTypeOK
  <2>5. RpTypeOK'
    BY <1>1, <2>1, <2>2, <2>3, <2>4 DEF RpTypeOK, StatusSet
  <2>6. RpToldSoFar'
    BY <2>1, <2>2, <2>3 DEF RpToldSoFar
  <2>7. RpPutIsFound'
    BY <1>1, <1>2, <2>1 DEF RpPutIsFound
  <2>8. QED
    BY <1>1, <2>1, <2>5, <2>6, <2>7 DEF RpInv
<1>10. CASE UNCHANGED rpVars
  <2>1. UNCHANGED <<rpAt, rpAlarm, rpFaulty, rpPrevious, rpBit, rpRounds, rpRestarts, rpStatus, rpLog,
                    rpBehind, rpPut, rpRepeated>>
    BY <1>10 DEF rpVars, rpCounts, rpServer, rpHistory
  <2>2. QED
    BY <1>1, <2>1 DEF RpInv, RpTypeOK, RpToldSoFar, RpPutIsFound, Changed
<1>11. QED
  BY <1>4, <1>5, <1>6, <1>7, <1>8, <1>9, <1>10 DEF RpNext

\* What is kept is what the report promises.
LEMMA RpIsSafe == RpInv => RpTypeOK /\ ReportingSafe
<1> SUFFICES ASSUME RpInv PROVE RpTypeOK /\ ReportingSafe
  OBVIOUS
<1>1. RpTypeOK /\ RpToldSoFar /\ RpPutIsFound /\ ~rpRepeated
  BY DEF RpInv
<1>2. LogInStep
  BY <1>1 DEF RpToldSoFar, LogInStep
<1>3. StatusAndLogAgree
  BY <1>1, <1>2 DEF RpPutIsFound, LogInStep, StatusAndLogAgree
<1>4. QED
  BY <1>1, <1>2, <1>3 DEF ReportingSafe, EventsAlternate

\* BMSClient._report_status(): between rounds the log of the server tells of every bit what the
\* client last saw of it, no event is told twice, and the status on the server has the alarms
\* that the log tells of, but for what was lost or set before a restart; for any set of racks and
\* whatever rounds fail half-way.
THEOREM ReportingIsSafe == RpBehaviour => [](RpTypeOK /\ ReportingSafe)
BY RpInitially, RpPreserved, RpIsSafe, PTL DEF RpBehaviour
=============================================================================
