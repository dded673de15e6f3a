------------------------ MODULE PowerControl_proofs -------------------------
(***************************************************************************)
(* What PowerControl guarantees for every set of callers, every set of     *)
(* requested powers, every limit and every number of retries, and that it  *)
(* implements PowerService.                                                *)
(***************************************************************************)
EXTENDS PowerControlRefines, TLAPS

-----------------------------------------------------------------------------
\* Limits that 16 signed bits of 0.1 kW can express: -3276.8 to 3276.7 kW, and
\* what truncation drops of the last unit.
LimitsFitRegister == MaxCharge <= 3276899 /\ MaxDischarge <= 3276799

-----------------------------------------------------------------------------
(***************************************************************************)
(* The register encoding.                                                  *)
(***************************************************************************)
\* Truncation towards zero loses less than one unit, and never past zero.
LEMMA ToUnitsBounds ==
    ASSUME NEW p \in Int
    PROVE  /\ ToUnits(p) \in Int
           /\ p >= 0 => 0 <= 100 * ToUnits(p) /\ 100 * ToUnits(p) <= p
           /\ p < 0 => p <= 100 * ToUnits(p) /\ 100 * ToUnits(p) <= 0
BY DEF ToUnits

\* A remainder is a code of a register that holds that many values.
LEMMA RemainderRange ==
    ASSUME NEW n \in Nat, n > 0, NEW u \in Int
    PROVE  u % n \in 0..(n - 1)
OBVIOUS

\* The codes are the remainders of the register's range; the set of 65536 codes
\* is not written out.
LEMMA CodesFacts ==
    /\ \A u \in Int : u % RegisterRange \in Codes
    /\ \A c \in Nat : c < RegisterRange => c \in Codes
    /\ \A c \in Codes : c \in Nat
<1>1. RegisterRange \in Nat /\ RegisterRange > 0
  BY DEF RegisterRange
<1>2. \A u \in Int : u % RegisterRange \in Codes
  BY <1>1, RemainderRange DEF Codes
<1>3. \A c \in Nat : c < RegisterRange => c \in Codes
  BY <1>1 DEF Codes
<1>4. \A c \in Codes : c \in Nat
  BY <1>1 DEF Codes
<1> QED BY <1>2, <1>3, <1>4

\* A number of units that fits 16 signed bits survives the register.
LEMMA DecodeOfCode ==
    ASSUME NEW u \in Int, -32768 <= u, u <= 32767
    PROVE  /\ u % RegisterRange \in Codes
           /\ Decode(u % RegisterRange) = 100 * u
<1>1. u % RegisterRange \in Codes
  BY CodesFacts
<1>2. CASE u >= 0
  <2>1. u % 65536 = u
    BY <1>2
  <2>2. Decode(u % RegisterRange) = 100 * u
    BY <1>2, <2>1 DEF Decode, RegisterRange
  <2> QED BY <1>1, <2>2
<1>3. CASE u < 0
  <2>1. u % 65536 = u + 65536
    BY <1>3
  <2>2. Decode(u % RegisterRange) = 100 * u
    BY <1>3, <2>1 DEF Decode, RegisterRange
  <2> QED BY <1>1, <2>2
<1> QED BY <1>2, <1>3

\* Every code fits the register.
LEMMA CodesType ==
    ASSUME NEW p \in Int
    PROVE  RegisterOf(p) \in Codes
<1>1. ToUnits(p) \in Int
  BY ToUnitsBounds
<1> QED BY <1>1, CodesFacts, Zenon DEF RegisterOf

\* Every request, that of an idle requester included, carries a number.
LEMMA RequestPower ==
    ASSUME NEW q \in Requests \cup {IdleRequest}
    PROVE  q.power \in Int
<1>1. CASE q \in [op : {"set"}, power : Powers]
  BY <1>1, PowersAssumption
<1>2. CASE q \in [op : {"disconnect", "reconnect"}, power : {0}]
  BY <1>2
<1>3. CASE q = IdleRequest
  BY <1>3 DEF IdleRequest
<1> QED BY <1>1, <1>2, <1>3 DEF Requests

\* So does every code a call may write, the code of a call not yet made included.
LEMMA RequestCodes ==
    ASSUME NEW q \in Requests \cup {IdleRequest}
    PROVE  CodeOf(q) \in Codes
<1>1. q.power \in Int
  BY RequestPower
<1>2. RegisterOf(q.power) \in Codes
  BY <1>1, CodesType
<1>3. PcsOnPulse \in Codes
  BY CodesFacts DEF PcsOnPulse, RegisterRange
<1> QED BY <1>2, <1>3 DEF CodeOf

\* Within 16-bit limits, writing a power that respects them makes the device
\* hold a power that respects them.
LEMMA RegisterWithinLimits ==
    ASSUME LimitsFitRegister,
           NEW p \in Int, WithinLimits(p)
    PROVE  WithinLimits(Decode(RegisterOf(p)))
<1> DEFINE u == ToUnits(p)
<1>1. /\ u \in Int
      /\ p >= 0 => 0 <= 100 * u /\ 100 * u <= p
      /\ p < 0 => p <= 100 * u /\ 100 * u <= 0
  BY ToUnitsBounds
<1> HIDE DEF u
<1>2. -32768 <= u /\ u <= 32767
  BY <1>1, LimitsAssumption DEF WithinLimits, LimitsFitRegister
<1>3. Decode(u % RegisterRange) = 100 * u
  BY <1>1, <1>2, DecodeOfCode
<1>4. WithinLimits(100 * u)
  BY <1>1, LimitsAssumption DEF WithinLimits
<1> QED BY <1>3, <1>4 DEF u, RegisterOf

-----------------------------------------------------------------------------
(***************************************************************************)
(* Type correctness.                                                       *)
(***************************************************************************)
\* A failed attempt leaves the call's own bookkeeping well typed.
LEMMA AttemptFailedType ==
    ASSUME TypeOK, NEW r \in Requesters, AttemptFailed(r)
    PROVE  /\ pc' \in [Requesters -> {"idle", "entry", "route", "precheck",
                         "attempt", "submit", "wait", "bus", "verify", "done"}]
           /\ attempt' \in [Requesters -> 0..(MaxRetries - 1)]
           /\ busTry' \in [Requesters -> 0..(BusRetries - 1)]
           /\ result' \in [Requesters -> Results]
BY RetriesAssumption DEF TypeOK, AttemptFailed, GoTo, Finish, Results

\* Every variable keeps its type, whatever the constants.
THEOREM TypeCorrect == Spec => []TypeOK
<1>1. Init => TypeOK
  <2> SUFFICES ASSUME Init PROVE TypeOK
    OBVIOUS
  <2>1. pset \in Codes
    <3>1. ASSUME NEW p \in Powers PROVE RegisterOf(p) \in Codes
      <4>1. p \in Int
        BY PowersAssumption
      <4> QED BY <4>1, CodesType
    <3>2. 0 \in Codes
      BY CodesFacts DEF RegisterRange
    <3>3. pset \in {0} \cup {RegisterOf(p) : p \in {q \in Powers : WithinLimits(q)}}
      BY DEF Init
    <3>4. pset = 0 \/ \E p \in Powers : pset = RegisterOf(p)
      BY <3>3, Zenon
    <3> QED BY <3>1, <3>2, <3>4, Zenon
  <2>2. 0 \in 0..(MaxRetries - 1) /\ 0 \in 0..(BusRetries - 1)
    BY RetriesAssumption
  <2>3. attempt \in [Requesters -> 0..(MaxRetries - 1)] /\ busTry \in [Requesters -> 0..(BusRetries - 1)]
    BY <2>2 DEF Init
  <2>4. /\ stopped \in BOOLEAN /\ connected \in BOOLEAN
        /\ soc \in SocReadings \cup {NoSoc}
        /\ lock \in Requesters \cup {Nobody}
    BY DEF Init
  <2>5. /\ pc \in [Requesters -> {"idle"}] /\ req \in [Requesters -> {IdleRequest}]
        /\ result \in [Requesters -> {"none"}] /\ delivered \in [Requesters -> {NoDelivery}]
    BY DEF Init
  <2> QED BY <2>1, <2>3, <2>4, <2>5 DEF TypeOK, Results
<1>2. TypeOK /\ [Next]_vars => TypeOK'
  <2> SUFFICES ASSUME TypeOK, [Next]_vars PROVE TypeOK'
    OBVIOUS
  <2> USE DEF GoTo, Finish, Results, call, device
  <2>1. ASSUME NEW r \in Requesters, Call(r) PROVE TypeOK'
    BY <2>1 DEF Call, TypeOK
  <2>2. ASSUME NEW r \in Requesters, Enter(r) PROVE TypeOK'
    BY <2>2 DEF Enter, TypeOK
  <2>3. ASSUME NEW r \in Requesters, Route(r) PROVE TypeOK'
    BY <2>3 DEF Route, TypeOK
  <2>4. ASSUME NEW r \in Requesters, PreWriteCheck(r) PROVE TypeOK'
    BY <2>4 DEF PreWriteCheck, TypeOK
  <2>5. ASSUME NEW r \in Requesters, BeginAttempt(r) PROVE TypeOK'
    BY <2>5 DEF BeginAttempt, TypeOK
  <2>6. ASSUME NEW r \in Requesters, Submit(r) PROVE TypeOK'
    <3>1. CASE connected
      BY <2>6, <3>1 DEF Submit, TypeOK
    <3>2. CASE ~connected
      BY <2>6, <3>2, AttemptFailedType DEF Submit, TypeOK
    <3> QED BY <3>1, <3>2
  <2>7. ASSUME NEW r \in Requesters, Acquire(r) PROVE TypeOK'
    BY <2>7 DEF Acquire, TypeOK
  <2>8. ASSUME NEW r \in Requesters, TransactionOk(r) PROVE TypeOK'
    <3>1. CodeOf(req[r]) \in Codes
      BY RequestCodes DEF TypeOK
    <3> QED BY <2>8, <3>1, RetriesAssumption DEF TransactionOk, Deliver, TypeOK
  <2>9. ASSUME NEW r \in Requesters, TransactionError(r) PROVE TypeOK'
    <3>1. pset' \in Codes /\ delivered' \in [Requesters -> Codes \cup {NoDelivery}]
      <4>1. CodeOf(req[r]) \in Codes
        BY RequestCodes DEF TypeOK
      <4> QED BY <2>9, <4>1 DEF TransactionError, Deliver, NotDelivered, TypeOK
    <3>2. CASE busTry[r] + 1 < BusRetries
      <4>1. /\ busTry' = [busTry EXCEPT ![r] = @ + 1]
            /\ UNCHANGED <<lock, pc, attempt, result, stopped, soc, connected, req>>
        BY <2>9, <3>2 DEF TransactionError
      <4> QED BY <3>1, <3>2, <4>1, RetriesAssumption DEF TypeOK
    <3>3. CASE ~(busTry[r] + 1 < BusRetries)
      <4>1. AttemptFailed(r) /\ lock' = Nobody
        BY <2>9, <3>3 DEF TransactionError
      <4>2. /\ pc' \in [Requesters -> {"idle", "entry", "route", "precheck",
                         "attempt", "submit", "wait", "bus", "verify", "done"}]
            /\ attempt' \in [Requesters -> 0..(MaxRetries - 1)]
            /\ busTry' \in [Requesters -> 0..(BusRetries - 1)]
            /\ result' \in [Requesters -> Results]
        BY <4>1, AttemptFailedType
      <4>3. UNCHANGED <<stopped, soc, connected, req>>
        BY <2>9 DEF TransactionError
      <4> QED BY <3>1, <4>1, <4>2, <4>3 DEF TypeOK
    <3> QED BY <3>2, <3>3
  <2>10. ASSUME NEW r \in Requesters, TransactionLost(r) PROVE TypeOK'
    BY <2>10, AttemptFailedType DEF TransactionLost, NotDelivered, TypeOK
  <2>11. ASSUME NEW r \in Requesters, Commit(r) PROVE TypeOK'
    BY <2>11 DEF Commit, TypeOK
  <2>12. ASSUME NEW r \in Requesters, Return(r) PROVE TypeOK'
    BY <2>12, RetriesAssumption DEF Return, TypeOK
  <2>13. ASSUME NEW r \in Requesters, CancelTask(r) PROVE TypeOK'
    <3>1. CodeOf(req[r]) \in Codes
      BY RequestCodes DEF TypeOK
    <3> QED BY <2>13, <3>1, RetriesAssumption DEF CancelTask, TypeOK
  <2>14. CASE Environment
    BY <2>14 DEF Environment, Trigger, WriterEmergencyStop, ResetByServer,
                 UpdateCurrentState, Disconnect, TypeOK
  <2>15. CASE UNCHANGED vars
    BY <2>15 DEF vars, TypeOK
  <2> QED BY <2>1, <2>2, <2>3, <2>4, <2>5, <2>6, <2>7, <2>8, <2>9, <2>10, <2>11,
             <2>12, <2>13, <2>14, <2>15 DEF Next, Step
<1> QED BY <1>1, <1>2, PTL DEF Spec

-----------------------------------------------------------------------------
(***************************************************************************)
(* The safety invariant.                                                   *)
(***************************************************************************)
\* A valid set-point is within the limits, and so is zero.
LEMMA ValidWithinLimits ==
    ASSUME NEW q \in Requests, NEW s, q.op = "set" => Valid(q.power, s)
    PROVE  WithinLimits(q.power)
<1>1. CASE q \in [op : {"set"}, power : Powers]
  <2>1. q.power \in Int /\ Valid(q.power, s)
    BY <1>1, PowersAssumption
  <2> QED BY <2>1, LimitsAssumption DEF Valid, WithinLimits
<1>2. CASE q \in [op : {"disconnect", "reconnect"}, power : {0}]
  BY <1>2, LimitsAssumption DEF WithinLimits
<1> QED BY <1>1, <1>2 DEF Requests

\* What a failed attempt changes, and what it leaves alone.
LEMMA AttemptFailedStage ==
    ASSUME TypeOK, NEW r \in Requesters, AttemptFailed(r)
    PROVE  /\ pc' = [pc EXCEPT ![r] = pc'[r]] /\ result' = [result EXCEPT ![r] = result'[r]]
           /\ \/ pc'[r] = "attempt" /\ result' = result
              \/ pc'[r] = "done" /\ result'[r] = "failed"
BY DEF TypeOK, AttemptFailed, GoTo, Finish

\* One step of a call that delivers nothing and leaves the lock alone keeps the
\* invariant when the call's new stage fits what it has delivered.
LEMMA StageStep ==
    ASSUME TypeOK, Safety, NEW r \in Requesters,
           NEW label, NEW outcome,
           pc' = [pc EXCEPT ![r] = label],
           result' = [result EXCEPT ![r] = outcome],
           UNCHANGED <<pset, lock, req, delivered>>,
           pc[r] # "bus", label # "bus",
           label \in {"precheck", "attempt", "submit", "wait", "verify"}
               => req[r].op = "reconnect" \/ WithinLimits(req[r].power),
           label \in {"idle", "entry", "route", "precheck"} => delivered[r] = NoDelivery,
           label = "verify" => delivered[r] = CodeOf(req[r]),
           label = "done" /\ outcome = "executed" => delivered[r] = CodeOf(req[r]),
           label = "done" /\ outcome \in {"blocked", "rejected", "simulated", "no_writer"}
               => delivered[r] = NoDelivery
    PROVE  Safety'
<1> USE DEF TypeOK, Safety
<1>1. SetpointWithinLimits'
  BY DEF SetpointWithinLimits, WithinLimits, Decode
<1>2. ReportMatchesDevice'
  BY DEF ReportMatchesDevice, CodeOf
<1>3. BusExclusive'
  BY NobodyAssumption DEF BusExclusive
<1>4. ValidatedPastRoute'
  BY DEF ValidatedPastRoute
<1>5. DeliveryMatchesStage'
  BY DEF DeliveryMatchesStage, CodeOf
<1> QED BY <1>1, <1>2, <1>3, <1>4, <1>5

\* What r's request puts in P_SET is within the limits.
LEMMA DeliveredWithinLimits ==
    ASSUME LimitsFitRegister,
           TypeOK, Safety, NEW r \in Requesters, pc[r] = "bus",
           \/ pset' = pset
           \/ req[r].op # "reconnect" /\ pset' = CodeOf(req[r])
    PROVE  SetpointWithinLimits'
<1>1. CASE pset' = pset
  <2>1. SetpointWithinLimits
    BY DEF Safety
  <2> QED BY <1>1, <2>1 DEF SetpointWithinLimits, WithinLimits, Decode
<1>2. CASE req[r].op # "reconnect" /\ pset' = CodeOf(req[r])
  <2>1. req[r].power \in Int
    BY RequestPower DEF TypeOK
  <2>2. WithinLimits(req[r].power)
    BY <1>2 DEF Safety, ValidatedPastRoute
  <2>3. pset' = RegisterOf(req[r].power)
    BY <1>2 DEF CodeOf
  <2>4. WithinLimits(Decode(RegisterOf(req[r].power)))
    BY <2>1, <2>2, RegisterWithinLimits
  <2> QED BY <2>3, <2>4 DEF SetpointWithinLimits, WithinLimits, Decode
<1> QED BY <1>1, <1>2

\* A step of r that ends its transaction or its task keeps the invariant.
LEMMA BusStep ==
    ASSUME LimitsFitRegister,
           TypeOK, Safety, NEW r \in Requesters, pc[r] = "bus",
           NEW label \in {"attempt", "verify", "done"}, NEW outcome, NEW code,
           \/ pset' = pset
           \/ req[r].op # "reconnect" /\ pset' = CodeOf(req[r]),
           pc' = [pc EXCEPT ![r] = label],
           result' = [result EXCEPT ![r] = outcome],
           delivered' = [delivered EXCEPT ![r] = code],
           lock' = Nobody, req' = req,
           label = "verify" => code = CodeOf(req[r]),
           label = "done" => outcome = "failed" \/ (outcome = "executed" /\ code = CodeOf(req[r]))
    PROVE  Safety'
<1>1. SetpointWithinLimits'
  BY DeliveredWithinLimits
<1>2. ReportMatchesDevice'
  BY DEF TypeOK, Safety, ReportMatchesDevice, CodeOf
<1>3. BusExclusive'
  BY NobodyAssumption DEF TypeOK, Safety, BusExclusive
<1>4. ValidatedPastRoute'
  BY DEF TypeOK, Safety, ValidatedPastRoute
<1>5. DeliveryMatchesStage'
  BY DEF TypeOK, Safety, DeliveryMatchesStage, CodeOf
<1> QED BY <1>1, <1>2, <1>3, <1>4, <1>5 DEF Safety

\* Initially the register is within the limits and nothing has been delivered.
LEMMA SafetyInit ==
    ASSUME LimitsFitRegister, Init
    PROVE  Safety
<1>1. SetpointWithinLimits
  <2>1. CASE pset = 0
    BY <2>1, LimitsAssumption DEF SetpointWithinLimits, WithinLimits, Decode, RegisterRange
  <2>2. ASSUME NEW p \in Powers, WithinLimits(p), pset = RegisterOf(p)
        PROVE  SetpointWithinLimits
    <3>1. p \in Int
      BY PowersAssumption
    <3>2. WithinLimits(Decode(RegisterOf(p)))
      BY <2>2, <3>1, RegisterWithinLimits
    <3> QED BY <2>2, <3>2 DEF SetpointWithinLimits
  <2>3. pset \in {0} \cup {RegisterOf(p) : p \in {q \in Powers : WithinLimits(q)}}
    BY DEF Init
  <2>4. pset = 0 \/ \E p \in Powers : WithinLimits(p) /\ pset = RegisterOf(p)
    BY <2>3, Zenon
  <2> QED BY <2>1, <2>2, <2>4, Zenon
<1>2. ReportMatchesDevice /\ ValidatedPastRoute /\ DeliveryMatchesStage
  BY DEF Init, ReportMatchesDevice, ValidatedPastRoute, DeliveryMatchesStage
<1>3. BusExclusive
  BY NobodyAssumption DEF Init, BusExclusive
<1> QED BY <1>1, <1>2, <1>3 DEF Safety

\* A step that moves no call and no register keeps the invariant.
LEMMA QuietStep ==
    ASSUME Safety, UNCHANGED <<lock, pset, pc, req, result, delivered>>
    PROVE  Safety'
BY DEF Safety, SetpointWithinLimits, WithinLimits, Decode, ReportMatchesDevice, CodeOf,
       BusExclusive, ValidatedPastRoute, DeliveryMatchesStage

\* A transaction that fails for good keeps the invariant, applied or not.
LEMMA FailedTransaction ==
    ASSUME LimitsFitRegister, TypeOK, Safety,
           NEW r \in Requesters, pc[r] = "bus", AttemptFailed(r),
           \/ pset' = pset
           \/ req[r].op # "reconnect" /\ pset' = CodeOf(req[r]),
           \/ delivered' = delivered
           \/ delivered' = [delivered EXCEPT ![r] = CodeOf(req[r])],
           lock' = Nobody, req' = req
    PROVE  Safety'
<1>1. delivered' = [delivered EXCEPT ![r] = delivered'[r]]
  BY DEF TypeOK
<1>2. /\ pc' = [pc EXCEPT ![r] = pc'[r]] /\ result' = [result EXCEPT ![r] = result'[r]]
      /\ \/ pc'[r] = "attempt" /\ result' = result
         \/ pc'[r] = "done" /\ result'[r] = "failed"
  BY AttemptFailedStage
<1>3. pc'[r] \in {"attempt", "verify", "done"}
  BY <1>2
<1> QED BY <1>1, <1>2, <1>3, BusStep

\* Whatever ends it, a transaction of r keeps the invariant.
LEMMA TransactionSafe ==
    ASSUME LimitsFitRegister, TypeOK, Safety,
           NEW r \in Requesters,
           TransactionOk(r) \/ TransactionError(r) \/ TransactionLost(r)
    PROVE  Safety'
<1>1. CASE TransactionOk(r)
  <2>1. CASE req[r].op = "reconnect"
    <3>1. /\ pc[r] = "bus" /\ pset' = pset /\ lock' = Nobody /\ req' = req
          /\ pc' = [pc EXCEPT ![r] = "done"] /\ result' = [result EXCEPT ![r] = "executed"]
          /\ delivered' = [delivered EXCEPT ![r] = CodeOf(req[r])]
      BY <1>1, <2>1 DEF TransactionOk, Deliver, Finish, GoTo
    <3> QED BY <3>1, BusStep
  <2>2. CASE req[r].op # "reconnect"
    <3>1. /\ pc[r] = "bus" /\ pset' = CodeOf(req[r]) /\ lock' = Nobody /\ req' = req
          /\ pc' = [pc EXCEPT ![r] = "verify"] /\ result' = [result EXCEPT ![r] = result[r]]
          /\ delivered' = [delivered EXCEPT ![r] = CodeOf(req[r])]
      BY <1>1, <2>2 DEF TransactionOk, Deliver, GoTo, TypeOK
    <3> QED BY <2>2, <3>1, BusStep
  <2> QED BY <2>1, <2>2
<1>2. CASE TransactionLost(r)
  <2>1. AttemptFailed(r) /\ pc[r] = "bus" /\ lock' = Nobody
        /\ UNCHANGED <<pset, delivered, req>>
    BY <1>2 DEF TransactionLost, NotDelivered
  <2> QED BY <2>1, FailedTransaction
<1>3. CASE TransactionError(r)
  <2>1. pc[r] = "bus" /\ req' = req
    BY <1>3 DEF TransactionError
  <2>2. /\ \/ pset' = pset
           \/ req[r].op # "reconnect" /\ pset' = CodeOf(req[r])
        /\ \/ delivered' = delivered
           \/ delivered' = [delivered EXCEPT ![r] = CodeOf(req[r])]
    BY <1>3 DEF TransactionError, Deliver, NotDelivered
  <2>3. CASE busTry[r] + 1 < BusRetries
    <3>1. UNCHANGED <<lock, pc, result>>
      BY <1>3, <2>3 DEF TransactionError
    <3>2. SetpointWithinLimits'
      BY <2>1, <2>2, DeliveredWithinLimits
    <3>3. (ReportMatchesDevice /\ DeliveryMatchesStage)'
      BY <2>1, <2>2, <3>1
         DEF TypeOK, Safety, ReportMatchesDevice, DeliveryMatchesStage, CodeOf
    <3>4. (BusExclusive /\ ValidatedPastRoute)'
      BY <2>1, <3>1 DEF Safety, BusExclusive, ValidatedPastRoute, WithinLimits
    <3> QED BY <3>2, <3>3, <3>4 DEF Safety
  <2>4. CASE ~(busTry[r] + 1 < BusRetries)
    <3>1. AttemptFailed(r) /\ lock' = Nobody
      BY <1>3, <2>4 DEF TransactionError
    <3> QED BY <2>1, <2>2, <3>1, FailedTransaction
  <2> QED BY <2>3, <2>4
<1> QED BY <1>1, <1>2, <1>3

\* Every step of a call off the bus keeps the invariant.
LEMMA StepSafe ==
    ASSUME TypeOK, Safety, NEW r \in Requesters,
           \/ Enter(r) \/ Route(r) \/ PreWriteCheck(r)
           \/ BeginAttempt(r) \/ Submit(r) \/ Commit(r)
    PROVE  Safety'
<1>1. result = [result EXCEPT ![r] = result[r]]
  BY DEF TypeOK
<1>2. CASE Enter(r)
  <2>1. /\ UNCHANGED <<pset, lock, req, delivered>> /\ pc[r] = "entry"
        /\ delivered[r] = NoDelivery
    BY <1>2 DEF Enter, device, Safety, DeliveryMatchesStage
  <2>2. CASE Finish(r, "blocked")
    BY <2>1, <2>2, StageStep DEF Finish, GoTo
  <2>3. CASE GoTo(r, "route") /\ result' = result
    BY <1>1, <2>1, <2>3, StageStep DEF GoTo
  <2> QED BY <1>2, <2>2, <2>3 DEF Enter
<1>3. CASE Route(r)
  <2>1. /\ UNCHANGED <<pset, lock, req, delivered>> /\ pc[r] = "route"
        /\ delivered[r] = NoDelivery
    BY <1>3 DEF Route, device, Safety, DeliveryMatchesStage
  <2>2. ASSUME NEW outcome \in {"rejected", "simulated", "no_writer"}, Finish(r, outcome)
        PROVE  Safety'
    BY <2>1, <2>2, StageStep DEF Finish, GoTo
  <2>3. CASE GoTo(r, "submit") /\ result' = result /\ req[r].op = "reconnect"
    BY <1>1, <2>1, <2>3, StageStep DEF GoTo
  <2>4. CASE GoTo(r, "precheck") /\ result' = result /\ WithinLimits(req[r].power)
    BY <1>1, <2>1, <2>4, StageStep DEF GoTo
  <2>5. \/ \E outcome \in {"rejected", "simulated", "no_writer"} : Finish(r, outcome)
        \/ GoTo(r, "submit") /\ result' = result /\ req[r].op = "reconnect"
        \/ GoTo(r, "precheck") /\ result' = result /\ req[r].op # "reconnect"
              /\ (req[r].op = "set" => Valid(req[r].power, soc))
    BY <1>3 DEF Route
  <2>6. (req[r].op = "set" => Valid(req[r].power, soc)) => WithinLimits(req[r].power)
    <3>1. CASE req[r] \in Requests
      BY <3>1, ValidWithinLimits
    <3>2. CASE req[r] = IdleRequest
      BY <3>2, LimitsAssumption DEF IdleRequest, WithinLimits
    <3> QED BY <3>1, <3>2 DEF TypeOK
  <2> QED BY <2>2, <2>3, <2>4, <2>5, <2>6
<1>4. CASE PreWriteCheck(r)
  <2>1. /\ UNCHANGED <<pset, lock, req, delivered>> /\ pc[r] = "precheck"
        /\ delivered[r] = NoDelivery
        /\ req[r].op = "reconnect" \/ WithinLimits(req[r].power)
    BY <1>4 DEF PreWriteCheck, device, Safety, DeliveryMatchesStage, ValidatedPastRoute
  <2>2. CASE Finish(r, "blocked")
    BY <2>1, <2>2, StageStep DEF Finish, GoTo
  <2>3. CASE GoTo(r, "attempt") /\ result' = result
    BY <1>1, <2>1, <2>3, StageStep DEF GoTo
  <2> QED BY <1>4, <2>2, <2>3 DEF PreWriteCheck
<1>5. CASE BeginAttempt(r)
  <2>1. /\ UNCHANGED <<pset, lock, req, delivered>> /\ pc[r] = "attempt"
        /\ req[r].op = "reconnect" \/ WithinLimits(req[r].power)
    BY <1>5 DEF BeginAttempt, device, Safety, ValidatedPastRoute
  <2>2. CASE Finish(r, "aborted")
    BY <2>1, <2>2, StageStep DEF Finish, GoTo
  <2>3. CASE GoTo(r, "submit") /\ result' = result
    BY <1>1, <2>1, <2>3, StageStep DEF GoTo
  <2> QED BY <1>5, <2>2, <2>3 DEF BeginAttempt
<1>6. CASE Submit(r)
  <2>1. /\ UNCHANGED <<pset, lock, req, delivered>> /\ pc[r] = "submit"
        /\ req[r].op = "reconnect" \/ WithinLimits(req[r].power)
    BY <1>6 DEF Submit, device, Safety, ValidatedPastRoute
  <2>2. CASE GoTo(r, "wait") /\ result' = result
    BY <1>1, <2>1, <2>2, StageStep DEF GoTo
  <2>3. CASE AttemptFailed(r)
    <3>1. /\ pc' = [pc EXCEPT ![r] = pc'[r]] /\ result' = [result EXCEPT ![r] = result'[r]]
          /\ \/ pc'[r] = "attempt" /\ result' = result
             \/ pc'[r] = "done" /\ result'[r] = "failed"
      BY <2>3, AttemptFailedStage
    <3> QED BY <2>1, <3>1, StageStep
  <2> QED BY <1>6, <2>2, <2>3 DEF Submit
<1>7. CASE Commit(r)
  <2>1. /\ UNCHANGED <<pset, lock, req, delivered>> /\ pc[r] = "verify"
        /\ delivered[r] = CodeOf(req[r]) /\ Finish(r, "executed")
    BY <1>7 DEF Commit, device, Safety, DeliveryMatchesStage
  <2> QED BY <2>1, StageStep DEF Finish, GoTo
<1> QED BY <1>2, <1>3, <1>4, <1>5, <1>6, <1>7

\* Beginning, leaving and cancelling a call keep the invariant, and so does
\* taking the bus lock.
LEMMA BoundarySafe ==
    ASSUME LimitsFitRegister, TypeOK, Safety, NEW r \in Requesters,
           Call(r) \/ Return(r) \/ Acquire(r) \/ CancelTask(r)
    PROVE  Safety'
<1> USE DEF GoTo, device, call
<1>1. CASE Call(r)
  BY <1>1, NobodyAssumption
     DEF Call, TypeOK, Safety, SetpointWithinLimits, WithinLimits, Decode,
         ReportMatchesDevice, CodeOf, BusExclusive, ValidatedPastRoute, DeliveryMatchesStage
<1>2. CASE Return(r)
  BY <1>2, NobodyAssumption
     DEF Return, TypeOK, Safety, SetpointWithinLimits, WithinLimits, Decode,
         ReportMatchesDevice, CodeOf, BusExclusive, ValidatedPastRoute, DeliveryMatchesStage
<1>3. CASE Acquire(r)
  BY <1>3, NobodyAssumption
     DEF Acquire, TypeOK, Safety, SetpointWithinLimits, WithinLimits, Decode,
         ReportMatchesDevice, CodeOf, BusExclusive, ValidatedPastRoute, DeliveryMatchesStage
<1>4. CASE CancelTask(r)
  <2>1. SetpointWithinLimits'
    <3>1. CASE pset' = pset
      BY <3>1 DEF Safety, SetpointWithinLimits, WithinLimits, Decode
    <3>2. CASE pset' # pset
      BY <1>4, <3>2, DeliveredWithinLimits DEF CancelTask
    <3> QED BY <3>1, <3>2
  <2>2. BusExclusive'
    BY <1>4, NobodyAssumption DEF CancelTask, TypeOK, Safety, BusExclusive
  <2>3. (ReportMatchesDevice /\ ValidatedPastRoute /\ DeliveryMatchesStage)'
    BY <1>4 DEF CancelTask, TypeOK, Safety, ReportMatchesDevice, CodeOf,
                ValidatedPastRoute, WithinLimits, DeliveryMatchesStage
  <2> QED BY <2>1, <2>2, <2>3 DEF Safety
<1> QED BY <1>1, <1>2, <1>3, <1>4

\* With limits the register can express, the power the device holds is always
\* within them, reports match the wire, and the bus lock has one owner.
THEOREM SafetyInvariant ==
    ASSUME LimitsFitRegister
    PROVE  Spec => []Safety
<1>1. Init => Safety
  BY SafetyInit
<1>2. TypeOK /\ Safety /\ [Next]_vars => Safety'
  <2> SUFFICES ASSUME TypeOK, Safety, [Next]_vars PROVE Safety'
    OBVIOUS
  <2>1. ASSUME NEW r \in Requesters, Call(r) \/ Step(r) \/ Return(r) \/ CancelTask(r)
        PROVE  Safety'
    <3>1. CASE Call(r) \/ Return(r) \/ Acquire(r) \/ CancelTask(r)
      BY <3>1, BoundarySafe
    <3>2. CASE TransactionOk(r) \/ TransactionError(r) \/ TransactionLost(r)
      BY <3>2, TransactionSafe
    <3>3. CASE \/ Enter(r) \/ Route(r) \/ PreWriteCheck(r)
               \/ BeginAttempt(r) \/ Submit(r) \/ Commit(r)
      BY <3>3, StepSafe
    <3> QED BY <2>1, <3>1, <3>2, <3>3 DEF Step
  <2>2. CASE Environment
    BY <2>2, QuietStep DEF Environment, Trigger, WriterEmergencyStop, ResetByServer,
                           UpdateCurrentState, Disconnect, call, device
  <2>3. CASE UNCHANGED vars
    BY <2>3, QuietStep DEF vars
  <2> QED BY <2>1, <2>2, <2>3 DEF Next
<1>3. Spec => []TypeOK
  BY TypeCorrect
<1> QED BY <1>1, <1>2, <1>3, PTL DEF Spec

\* Whatever the interleaving, no caller can make the device hold a power
\* outside the configured limits.
THEOREM SetpointAlwaysWithinLimits ==
    ASSUME LimitsFitRegister
    PROVE  Spec => []SetpointWithinLimits
<1>1. Safety => SetpointWithinLimits
  BY DEF Safety
<1> QED BY <1>1, SafetyInvariant, PTL

\* The report of a finished call says what reached the device.
THEOREM ReportsAreTruthful ==
    ASSUME LimitsFitRegister
    PROVE  Spec => []ReportMatchesDevice
<1>1. Safety => ReportMatchesDevice
  BY DEF Safety
<1> QED BY <1>1, SafetyInvariant, PTL

\* Two transactions never overlap and the lock is never left behind.
THEOREM BusIsExclusive ==
    ASSUME LimitsFitRegister
    PROVE  Spec => []BusExclusive
<1>1. Safety => BusExclusive
  BY DEF Safety
<1> QED BY <1>1, SafetyInvariant, PTL

\* An executed set-point was validated.
ExecutedWasValid ==
    \A r \in Requesters :
        pc[r] = "done" /\ result[r] = "executed" =>
            req[r].op = "reconnect" \/ WithinLimits(req[r].power)

\* A call that is executed comes from its read-back, or is a reconnection.
LEMMA ExecutedStep ==
    ASSUME TypeOK, ExecutedWasValid, ValidatedPastRoute,
           NEW r \in Requesters, Call(r) \/ Step(r) \/ Return(r) \/ CancelTask(r)
    PROVE  ExecutedWasValid'
<1> DEFINE Kept == pc'[r] = "done" /\ result'[r] = "executed" =>
                       req[r].op = "reconnect" \/ WithinLimits(req[r].power)
<1> USE DEF GoTo, Finish, device, call, TypeOK
<1>1. CASE Call(r) \/ Return(r) \/ CancelTask(r)
  <2>1. pc'[r] # "done"
    BY <1>1 DEF Call, Return, CancelTask
  <2>2. \A s \in Requesters \ {r} :
            pc'[s] = pc[s] /\ result'[s] = result[s] /\ req'[s] = req[s]
    BY <1>1 DEF Call, Return, CancelTask
  <2> QED BY <2>1, <2>2 DEF ExecutedWasValid, WithinLimits
<1>2. CASE Step(r)
  <2>1. CASE Enter(r) \/ Route(r) \/ PreWriteCheck(r) \/ BeginAttempt(r) \/ Acquire(r)
    <3>1. req' = req /\ (pc'[r] # "done" \/ result'[r] # "executed")
      BY <2>1 DEF Enter, Route, PreWriteCheck, BeginAttempt, Acquire
    <3>2. \A s \in Requesters \ {r} : pc'[s] = pc[s] /\ result'[s] = result[s]
      BY <2>1 DEF Enter, Route, PreWriteCheck, BeginAttempt, Acquire
    <3> QED BY <3>1, <3>2 DEF ExecutedWasValid, WithinLimits
  <2>2. CASE Submit(r) \/ TransactionError(r) \/ TransactionLost(r)
    <3>1. req' = req /\ pc[r] # "done" /\ (pc'[r] # "done" \/ result'[r] # "executed")
      BY <2>2 DEF Submit, TransactionError, TransactionLost, AttemptFailed
    <3>2. \A s \in Requesters \ {r} : pc'[s] = pc[s] /\ result'[s] = result[s]
      BY <2>2 DEF Submit, TransactionError, TransactionLost, AttemptFailed
    <3> QED BY <3>1, <3>2 DEF ExecutedWasValid, WithinLimits
  <2>3. CASE TransactionOk(r) \/ Commit(r)
    <3>1. req' = req /\ pc[r] \in {"bus", "verify"}
      BY <2>3 DEF TransactionOk, Commit
    <3>2. req[r].op = "reconnect" \/ WithinLimits(req[r].power)
      BY <3>1 DEF ValidatedPastRoute
    <3>3. \A s \in Requesters \ {r} : pc'[s] = pc[s] /\ result'[s] = result[s]
      BY <2>3 DEF TransactionOk, Commit
    <3> QED BY <3>1, <3>2, <3>3 DEF ExecutedWasValid, WithinLimits
  <2> QED BY <1>2, <2>1, <2>2, <2>3 DEF Step
<1> QED BY <1>1, <1>2

\* An executed set-point reaches the device as the power that was asked for, cut to the
\* unit of the register, whatever its sign.
THEOREM SetpointsAreDelivered ==
    ASSUME LimitsFitRegister
    PROVE  Spec => []SetpointDelivered
<1>1. Init => ExecutedWasValid
  BY DEF Init, ExecutedWasValid
<1>2. TypeOK /\ Safety /\ ExecutedWasValid /\ [Next]_vars => ExecutedWasValid'
  <2> SUFFICES ASSUME TypeOK, Safety, ExecutedWasValid, [Next]_vars PROVE ExecutedWasValid'
    OBVIOUS
  <2>1. ASSUME NEW r \in Requesters, Call(r) \/ Step(r) \/ Return(r) \/ CancelTask(r)
        PROVE  ExecutedWasValid'
    BY <2>1, ExecutedStep DEF Safety
  <2>2. CASE UNCHANGED <<pc, req, result>>
    BY <2>2 DEF ExecutedWasValid, WithinLimits
  <2>3. Environment \/ UNCHANGED vars => UNCHANGED <<pc, req, result>>
    BY DEF Environment, Trigger, WriterEmergencyStop, ResetByServer, UpdateCurrentState,
           Disconnect, call, device, vars
  <2> QED BY <2>1, <2>2, <2>3 DEF Next
<1>3. TypeOK /\ Safety /\ ExecutedWasValid => SetpointDelivered
  <2> SUFFICES ASSUME TypeOK, Safety, ExecutedWasValid, NEW r \in Requesters,
                      pc[r] = "done", result[r] = "executed", req[r].op # "reconnect"
               PROVE  Decode(delivered[r]) = 100 * ToUnits(req[r].power)
    BY DEF SetpointDelivered
  <2> DEFINE p == req[r].power
             u == ToUnits(p)
  <2>1. p \in Int /\ WithinLimits(p)
    BY RequestPower DEF TypeOK, ExecutedWasValid
  <2>2. delivered[r] = RegisterOf(p)
    BY DEF Safety, ReportMatchesDevice, CodeOf
  <2> HIDE DEF p
  <2>3. /\ u \in Int
        /\ p >= 0 => 0 <= 100 * u /\ 100 * u <= p
        /\ p < 0 => p <= 100 * u /\ 100 * u <= 0
    BY <2>1, ToUnitsBounds
  <2> HIDE DEF u
  <2>4. -32768 <= u /\ u <= 32767
    BY <2>1, <2>3, LimitsAssumption DEF WithinLimits, LimitsFitRegister
  <2>5. Decode(u % RegisterRange) = 100 * u
    BY <2>3, <2>4, DecodeOfCode
  <2> QED BY <2>2, <2>5 DEF u, p, RegisterOf
<1>4. Spec => []TypeOK
  BY TypeCorrect
<1> QED BY <1>1, <1>2, <1>3, <1>4, SafetyInvariant, PTL DEF Spec

-----------------------------------------------------------------------------
(***************************************************************************)
(* The emergency stop and the dry-run mode, which need no assumption on    *)
(* the limits.                                                             *)
(***************************************************************************)
\* What one step of r does while the stop is on: r does not pass the guard, no
\* other call moves, and P_SET moves only if r had passed it.
LEMMA StoppedStep ==
    ASSUME TypeOK, stopped, NEW r \in Requesters,
           Call(r) \/ Step(r) \/ Return(r) \/ CancelTask(r)
    PROVE  /\ PastGate(r)' => PastGate(r)
           /\ \A s \in Requesters \ {r} : PastGate(s)' <=> PastGate(s)
           /\ ~PastGate(r) => pset' = pset
<1> USE DEF TypeOK, PastGate, GoTo, Finish, call, device
<1>1. CASE Call(r) \/ Return(r) \/ CancelTask(r)
  BY <1>1 DEF Call, Return, CancelTask
<1>2. CASE Enter(r) \/ PreWriteCheck(r) \/ BeginAttempt(r) \/ Commit(r)
  BY <1>2 DEF Enter, PreWriteCheck, BeginAttempt, Commit
<1>3. CASE Route(r)
  BY <1>3 DEF Route
<1>4. CASE Submit(r)
  BY <1>4 DEF Submit, AttemptFailed
<1>5. CASE Acquire(r)
  BY <1>5 DEF Acquire
<1>6. CASE TransactionOk(r)
  BY <1>6 DEF TransactionOk, Deliver
<1>7. CASE TransactionLost(r)
  BY <1>7 DEF TransactionLost, NotDelivered, AttemptFailed
<1>8. CASE TransactionError(r)
  <2>1. pc[r] = "bus" /\ req' = req
    BY <1>8 DEF TransactionError
  <2>2. req[r].op = "reconnect" => pset' = pset
    BY <1>8 DEF TransactionError, Deliver, NotDelivered
  <2>3. pc' = pc \/ AttemptFailed(r)
    BY <1>8 DEF TransactionError
  <2>4. \A s \in Requesters \ {r} : pc'[s] = pc[s]
    BY <2>3 DEF AttemptFailed
  <2> QED BY <2>1, <2>2, <2>3, <2>4 DEF AttemptFailed
<1> QED BY <1>1, <1>2, <1>3, <1>4, <1>5, <1>6, <1>7, <1>8 DEF Step

\* While the emergency stop is on no command passes the guard of the writer,
\* and P_SET moves only for commands that had passed it before.
THEOREM EmergencyStopAlwaysHolds == Spec => EmergencyStopHolds
<1> DEFINE Held == stopped =>
             /\ \A r \in Requesters : PastGate(r)' => PastGate(r)
             /\ (\A r \in Requesters : ~PastGate(r)) => pset' = pset
<1>1. TypeOK /\ [Next]_vars => [Held]_vars
  <2> SUFFICES ASSUME TypeOK, Next, stopped PROVE Held
    BY Zenon
  <2>1. ASSUME NEW r \in Requesters, Call(r) \/ Step(r) \/ Return(r) \/ CancelTask(r)
        PROVE  Held
    BY <2>1, StoppedStep
  <2>2. CASE Environment
    BY <2>2 DEF Environment, Trigger, WriterEmergencyStop, ResetByServer,
                UpdateCurrentState, Disconnect, PastGate, call, device
  <2> QED BY <2>1, <2>2 DEF Next
<1>2. Spec => []TypeOK
  BY TypeCorrect
<1> QED BY <1>1, <1>2, PTL DEF Spec, EmergencyStopHolds

\* In DRY_RUN no call gets past the routing, so none has delivered anything.
DryRunStages ==
    ~Production => \A r \in Requesters :
        pc[r] \in {"idle", "entry", "route", "done"} /\ delivered[r] = NoDelivery

\* DryRunStages is inductive, and while it holds nothing is written.
LEMMA DryRunStep ==
    ASSUME TypeOK, DryRunStages, [Next]_vars
    PROVE  /\ DryRunStages'
           /\ ~Production => pset' = pset /\ delivered' = delivered
<1> USE DEF TypeOK, DryRunStages, GoTo, Finish, call, device
<1> SUFFICES ASSUME ~Production
             PROVE  DryRunStages' /\ pset' = pset /\ delivered' = delivered
  BY DEF Production
<1>1. ASSUME NEW r \in Requesters, Call(r) \/ Step(r) \/ Return(r) \/ CancelTask(r)
      PROVE  DryRunStages' /\ pset' = pset /\ delivered' = delivered
  <2>1. CASE Call(r) \/ Return(r)
    BY <2>1 DEF Call, Return
  <2>2. CASE Enter(r) \/ Route(r)
    BY <2>2 DEF Enter, Route
  <2>3. ~(\/ PreWriteCheck(r) \/ BeginAttempt(r) \/ Submit(r) \/ Acquire(r)
          \/ TransactionOk(r) \/ TransactionError(r) \/ TransactionLost(r)
          \/ Commit(r) \/ CancelTask(r))
    BY DEF PreWriteCheck, BeginAttempt, Submit, Acquire, TransactionOk,
           TransactionError, TransactionLost, Commit, CancelTask
  <2> QED BY <1>1, <2>1, <2>2, <2>3 DEF Step
<1>2. CASE Environment
  BY <1>2 DEF Environment, Trigger, WriterEmergencyStop, ResetByServer,
              UpdateCurrentState, Disconnect
<1>3. CASE UNCHANGED vars
  BY <1>3 DEF vars
<1> QED BY <1>1, <1>2, <1>3 DEF Next

\* In DRY_RUN nothing ever reaches the PCS.
THEOREM DryRunIsDry == Spec => DryRunNeverWrites
<1>1. Init => DryRunStages
  BY DEF Init, DryRunStages
<1>2. TypeOK /\ DryRunStages /\ [Next]_vars
        => DryRunStages' /\ [~Production => pset' = pset /\ delivered' = delivered]_vars
  BY DryRunStep
<1>3. Spec => []TypeOK
  BY TypeCorrect
<1> QED BY <1>1, <1>2, <1>3, PTL DEF Spec, DryRunNeverWrites

-----------------------------------------------------------------------------
(***************************************************************************)
(* PowerControl implements PowerService.                                   *)
(***************************************************************************)
-----------------------------------------------------------------------------
(***************************************************************************)
(* The mapping.                                                            *)
(***************************************************************************)
\* A step that touches one call touches one abstract call.
LEMMA OneCall ==
    ASSUME NEW r \in Requesters,
           \A s \in Requesters \ {r} :
               /\ pc'[s] = pc[s] /\ req'[s] = req[s]
               /\ result'[s] = result[s] /\ delivered'[s] = delivered[s]
    PROVE  /\ stageBar' = [stageBar EXCEPT ![r] = StageOf(r)']
           /\ commandBar' = [commandBar EXCEPT ![r] = CommandOf(r)']
           /\ wroteBar' = [wroteBar EXCEPT ![r] = (delivered'[r] # NoDelivery)]
<1>1. \A s \in Requesters \ {r} : StageOf(s)' = StageOf(s)
  BY DEF StageOf
<1>2. \A s \in Requesters \ {r} : CommandOf(s)' = CommandOf(s)
  BY DEF CommandOf, RegisterOf, ToUnits, RegisterRange
<1> QED BY <1>1, <1>2 DEF stageBar, commandBar, wroteBar

\* A step that touches no call touches no abstract call.
LEMMA NoCall ==
    ASSUME UNCHANGED <<pc, req, result, delivered>>
    PROVE  UNCHANGED <<stageBar, commandBar, wroteBar>>
BY DEF stageBar, commandBar, wroteBar, StageOf, CommandOf, RegisterOf, ToUnits, RegisterRange

\* Every request is one of the abstract commands.
LEMMA CommandType ==
    ASSUME NEW q \in Requests
    PROVE  [op |-> q.op, value |-> RegisterOf(q.power)] \in Service!Commands
<1>1. CASE q \in [op : {"set"}, power : Powers]
  <2>1. q.op = "set" /\ q.power \in Powers
    BY <1>1
  <2>2. RegisterOf(q.power) \in CommandCodes
    BY <2>1, Zenon DEF CommandCodes
  <2> QED BY <2>1, <2>2 DEF Service!Commands
<1>2. CASE q \in [op : {"disconnect", "reconnect"}, power : {0}]
  BY <1>2 DEF Service!Commands
<1> QED BY <1>1, <1>2 DEF Requests

\* A call whose answer has come has delivered something.
Answered == \A r \in Requesters : pc[r] = "verify" => delivered[r] # NoDelivery

\* Codes are never the mark of a call that has delivered nothing.
LEMMA CodeIsDelivery ==
    ASSUME TypeOK, NEW r \in Requesters
    PROVE  CodeOf(req[r]) \in Codes /\ CodeOf(req[r]) # NoDelivery
<1>1. CodeOf(req[r]) \in Codes
  BY RequestCodes DEF TypeOK
<1>2. \A c \in Codes : c # NoDelivery
  BY CodesFacts DEF NoDelivery
<1> QED BY <1>1, <1>2, Zenon

\* Answered is inductive.
LEMMA AnsweredStep ==
    ASSUME TypeOK, Answered, [Next]_vars
    PROVE  Answered'
<1> USE DEF TypeOK, Answered, GoTo, Finish, call, device
<1>1. ASSUME NEW r \in Requesters, Call(r) \/ Return(r) \/ CancelTask(r)
      PROVE  Answered'
  BY <1>1 DEF Call, Return, CancelTask
<1>2. ASSUME NEW r \in Requesters,
             \/ Enter(r) \/ Route(r) \/ PreWriteCheck(r) \/ BeginAttempt(r)
             \/ Acquire(r) \/ Commit(r)
      PROVE  Answered'
  BY <1>2 DEF Enter, Route, PreWriteCheck, BeginAttempt, Acquire, Commit
<1>3. ASSUME NEW r \in Requesters, Submit(r) \/ TransactionLost(r)
      PROVE  Answered'
  BY <1>3 DEF Submit, TransactionLost, NotDelivered, AttemptFailed
<1>4. ASSUME NEW r \in Requesters, TransactionOk(r)
      PROVE  Answered'
  BY <1>4, CodeIsDelivery DEF TransactionOk, Deliver
<1>5. ASSUME NEW r \in Requesters, TransactionError(r)
      PROVE  Answered'
  <2>1. /\ pc[r] = "bus"
        /\ \A s \in Requesters \ {r} : pc'[s] = pc[s] /\ delivered'[s] = delivered[s]
        /\ pc'[r] # "verify"
    BY <1>5 DEF TransactionError, Deliver, NotDelivered, AttemptFailed
  <2> QED BY <2>1
<1>6. CASE Environment
  BY <1>6 DEF Environment, Trigger, WriterEmergencyStop, ResetByServer,
              UpdateCurrentState, Disconnect
<1>7. CASE UNCHANGED vars
  BY <1>7 DEF vars
<1> QED BY <1>1, <1>2, <1>3, <1>4, <1>5, <1>6, <1>7 DEF Next, Step

-----------------------------------------------------------------------------
(***************************************************************************)
(* The steps.                                                              *)
(***************************************************************************)
\* Initially every call is idle and P_SET holds zero or a requested power.
LEMMA InitRefines == Init => Service!PowerInit
<1> SUFFICES ASSUME Init PROVE Service!PowerInit
  OBVIOUS
<1>1. RegisterOf(0) = 0
  BY DEF RegisterOf, ToUnits, RegisterRange
<1>2. pset \in CommandCodes
  <2>1. pset \in {0} \cup {RegisterOf(p) : p \in {q \in Powers : WithinLimits(q)}}
    BY DEF Init
  <2>2. pset = 0 \/ \E p \in Powers : pset = RegisterOf(p)
    BY <2>1, Zenon
  <2> QED BY <1>1, <2>2, Zenon DEF CommandCodes
<1>3. stageBar = [r \in Requesters |-> "idle"]
  BY DEF Init, stageBar, StageOf
<1>4. commandBar = [r \in Requesters |-> Service!NoCommand]
  <2>1. \A r \in Requesters : CommandOf(r) = Service!NoCommand
    BY DEF Init, CommandOf, IdleRequest, Service!NoCommand
  <2> QED BY <2>1 DEF commandBar
<1>5. wroteBar = [r \in Requesters |-> FALSE]
  BY DEF Init, wroteBar
<1>6. stopped = FALSE
  BY DEF Init
<1> QED BY <1>2, <1>3, <1>4, <1>5, <1>6 DEF Service!PowerInit

\* A step that changes neither the flag, nor P_SET, nor a call.
LEMMA StutterRefines ==
    ASSUME UNCHANGED <<stopped, pset, req, delivered>>,
           \A r \in Requesters : StageOf(r)' = StageOf(r)
    PROVE  UNCHANGED Service!powerVars
<1>1. UNCHANGED <<commandBar, wroteBar>>
  BY DEF commandBar, wroteBar, CommandOf, RegisterOf, ToUnits, RegisterRange
<1>2. UNCHANGED stageBar
  BY DEF stageBar
<1> QED BY <1>1, <1>2 DEF Service!powerVars, Service!powerCall

\* The four ways a call moves on in the abstract service, each with what the
\* concrete step must show.
LEMMA RefuseRefines ==
    ASSUME NEW r \in Requesters, UNCHANGED <<stopped, pset, req, delivered>>,
           \A s \in Requesters \ {r} : pc'[s] = pc[s] /\ result'[s] = result[s],
           StageOf(r) = "called", StageOf(r)' = "error"
    PROVE  Service!Refuse(r)
<1>1. stageBar' = [stageBar EXCEPT ![r] = "error"]
  BY OneCall
<1>2. UNCHANGED <<commandBar, wroteBar>>
  BY DEF commandBar, wroteBar, CommandOf, RegisterOf, ToUnits, RegisterRange
<1>3. stageBar[r] = "called"
  BY DEF stageBar
<1> QED BY <1>1, <1>2, <1>3 DEF Service!Refuse, Service!To

\* A call that is let through passes the gate of the abstract service.
LEMMA PassRefines ==
    ASSUME NEW r \in Requesters, UNCHANGED <<stopped, pset, req, delivered>>,
           \A s \in Requesters \ {r} : pc'[s] = pc[s] /\ result'[s] = result[s],
           StageOf(r) = "called", StageOf(r)' = "passed",
           Production, ~stopped \/ req[r].op = "reconnect"
    PROVE  Service!Pass(r)
<1>1. stageBar' = [stageBar EXCEPT ![r] = "passed"]
  BY OneCall
<1>2. UNCHANGED <<commandBar, wroteBar>>
  BY DEF commandBar, wroteBar, CommandOf, RegisterOf, ToUnits, RegisterRange
<1>3. stageBar[r] = "called" /\ commandBar[r].op = req[r].op
  BY DEF stageBar, commandBar, CommandOf
<1> QED BY <1>1, <1>2, <1>3 DEF Service!Pass, Service!To

\* Delivering a code is delivering the command.
LEMMA DeliverRefines ==
    ASSUME TypeOK, NEW r \in Requesters, Deliver(r), req' = req,
           \A s \in Requesters \ {r} : pc'[s] = pc[s] /\ result'[s] = result[s]
    PROVE  Service!Deliver(r)
<1>1. wroteBar' = [wroteBar EXCEPT ![r] = TRUE]
  <2>1. delivered'[r] # NoDelivery
    BY CodeIsDelivery DEF Deliver, TypeOK
  <2>2. wroteBar' = [wroteBar EXCEPT ![r] = (delivered'[r] # NoDelivery)]
    BY OneCall DEF Deliver, TypeOK
  <2> QED BY <2>1, <2>2
<1>2. pset' = IF req[r].op = "reconnect" THEN pset ELSE CodeOf(req[r])
  BY DEF Deliver
<1>3. CodeOf(req[r]) = IF req[r].op = "reconnect" THEN PcsOnPulse ELSE RegisterOf(req[r].power)
  BY DEF CodeOf
<1>4. commandBar[r] = [op |-> req[r].op, value |-> RegisterOf(req[r].power)]
  BY DEF commandBar, CommandOf
<1> QED BY <1>1, <1>2, <1>3, <1>4 DEF Service!Deliver, Service!MovesPset

\* A call that fails is answered in the abstract service.
LEMMA FailRefines ==
    ASSUME TypeOK, NEW r \in Requesters, AttemptFailed(r), UNCHANGED <<stopped, req>>,
           pc[r] \in {"submit", "bus"}, Deliver(r) \/ UNCHANGED <<pset, delivered>>
    PROVE  Service!Fail(r)
<1>1. \A s \in Requesters \ {r} :
         pc'[s] = pc[s] /\ result'[s] = result[s] /\ delivered'[s] = delivered[s]
  BY DEF AttemptFailed, GoTo, Finish, Deliver, TypeOK
<1>2. StageOf(r) = "passed"
  BY DEF StageOf
<1>3. StageOf(r)' \in {"called", "error"}
  BY DEF StageOf, AttemptFailed, GoTo, Finish, TypeOK
<1>4. stageBar' = [stageBar EXCEPT ![r] = StageOf(r)']
  BY <1>1, OneCall
<1>5. stageBar[r] = "passed"
  BY <1>2 DEF stageBar
<1>6. UNCHANGED commandBar
  BY DEF commandBar, CommandOf, RegisterOf, ToUnits, RegisterRange
<1>7. Service!Deliver(r) \/ UNCHANGED <<pset, wroteBar>>
  <2>1. CASE Deliver(r)
    BY <1>1, <2>1, DeliverRefines
  <2>2. CASE UNCHANGED <<pset, delivered>>
    BY <2>2 DEF wroteBar
  <2> QED BY <2>1, <2>2
<1> QED BY <1>3, <1>4, <1>5, <1>6, <1>7 DEF Service!Fail, Service!To

\* A call's own steps are steps of the service, or invisible in it.
LEMMA StepRefines ==
    ASSUME TypeOK, Answered, DryRunStages, NEW r \in Requesters, Step(r)
    PROVE  Service!PowerStep(r) \/ UNCHANGED Service!powerVars
<1> USE DEF TypeOK, GoTo, Finish, device, call
<1>1. CASE Enter(r)
  <2>1. CASE stopped /\ req[r].op # "reconnect"
    <3>1. StageOf(r) = "called" /\ StageOf(r)' = "error"
      BY <1>1, <2>1 DEF Enter, StageOf
    <3> QED BY <1>1, <2>1, <3>1, RefuseRefines DEF Enter, Service!PowerStep
  <2>2. CASE ~(stopped /\ req[r].op # "reconnect")
    <3>1. \A s \in Requesters : StageOf(s)' = StageOf(s)
      BY <1>1, <2>2 DEF Enter, StageOf
    <3> QED BY <1>1, <3>1, StutterRefines DEF Enter
  <2> QED BY <2>1, <2>2
<1>2. CASE Route(r)
  <2>1. UNCHANGED <<stopped, pset, req, delivered>> /\ pc[r] = "route"
    BY <1>2 DEF Route
  <2>2. CASE \E outcome \in {"rejected", "no_writer"} : Finish(r, outcome)
    <3>1. StageOf(r) = "called" /\ StageOf(r)' = "error"
      BY <2>1, <2>2 DEF StageOf
    <3> QED BY <2>1, <2>2, <3>1, RefuseRefines DEF Service!PowerStep
  <2>3. CASE ~Production /\ Finish(r, "simulated")
    <3>1. StageOf(r) = "called" /\ StageOf(r)' = "ok"
      BY <2>1, <2>3 DEF StageOf
    <3>2. stageBar' = [stageBar EXCEPT ![r] = "ok"] /\ stageBar[r] = "called"
      BY <2>1, <2>3, <3>1, OneCall DEF stageBar
    <3>3. UNCHANGED <<commandBar, wroteBar>>
      BY <2>1 DEF commandBar, wroteBar, CommandOf, RegisterOf, ToUnits, RegisterRange
    <3> QED BY <2>1, <2>3, <3>2, <3>3 DEF Service!PowerStep, Service!Succeed, Service!To
  <2>4. CASE GoTo(r, "submit") /\ result' = result /\ req[r].op = "reconnect" /\ Production
    <3>1. StageOf(r) = "called" /\ StageOf(r)' = "passed"
      BY <2>1, <2>4 DEF StageOf
    <3> QED BY <2>1, <2>4, <3>1, PassRefines DEF Service!PowerStep
  <2>5. CASE GoTo(r, "precheck") /\ result' = result
    <3>1. \A s \in Requesters : StageOf(s)' = StageOf(s)
      BY <2>1, <2>5 DEF StageOf
    <3> QED BY <2>1, <3>1, StutterRefines
  <2> QED BY <1>2, <2>2, <2>3, <2>4, <2>5 DEF Route
<1>3. CASE PreWriteCheck(r)
  <2>1. CASE stopped
    <3>1. StageOf(r) = "called" /\ StageOf(r)' = "error"
      BY <1>3, <2>1 DEF PreWriteCheck, StageOf
    <3> QED BY <1>3, <2>1, <3>1, RefuseRefines DEF PreWriteCheck, Service!PowerStep
  <2>2. CASE ~stopped
    <3>1. \A s \in Requesters : StageOf(s)' = StageOf(s)
      BY <1>3, <2>2 DEF PreWriteCheck, StageOf
    <3> QED BY <1>3, <3>1, StutterRefines DEF PreWriteCheck
  <2> QED BY <2>1, <2>2
<1>4. CASE BeginAttempt(r)
  <2>1. CASE stopped
    <3>1. StageOf(r) = "called" /\ StageOf(r)' = "error"
      BY <1>4, <2>1 DEF BeginAttempt, StageOf
    <3> QED BY <1>4, <2>1, <3>1, RefuseRefines DEF BeginAttempt, Service!PowerStep
  <2>2. CASE ~stopped
    <3>1. StageOf(r) = "called" /\ StageOf(r)' = "passed"
      BY <1>4, <2>2 DEF BeginAttempt, StageOf
    <3>2. Production
      BY <1>4 DEF BeginAttempt, DryRunStages
    <3> QED BY <1>4, <2>2, <3>1, <3>2, PassRefines DEF BeginAttempt, Service!PowerStep
  <2> QED BY <2>1, <2>2
<1>5. CASE Submit(r)
  <2>1. CASE connected
    <3>1. \A s \in Requesters : StageOf(s)' = StageOf(s)
      BY <1>5, <2>1 DEF Submit, StageOf
    <3> QED BY <1>5, <3>1, StutterRefines DEF Submit
  <2>2. CASE ~connected
    BY <1>5, <2>2, FailRefines DEF Submit, Service!PowerStep
  <2> QED BY <2>1, <2>2
<1>6. CASE Acquire(r)
  <2>1. \A s \in Requesters : StageOf(s)' = StageOf(s)
    BY <1>6 DEF Acquire, StageOf
  <2> QED BY <1>6, <2>1, StutterRefines DEF Acquire
<1>7. CASE TransactionOk(r)
  <2>1. Service!Deliver(r)
    BY <1>7, DeliverRefines DEF TransactionOk
  <2>2. UNCHANGED commandBar
    BY <1>7 DEF TransactionOk, commandBar, CommandOf, RegisterOf, ToUnits, RegisterRange
  <2>3. StageOf(r) = "passed" /\ StageOf(r)' \in {"passed", "ok"} /\ stopped' = stopped
    BY <1>7 DEF TransactionOk, StageOf
  <2>4. stageBar' = [stageBar EXCEPT ![r] = StageOf(r)'] /\ stageBar[r] = "passed"
    BY <1>7, <2>3, OneCall DEF TransactionOk, Deliver, stageBar
  <2>5. CASE StageOf(r)' = "passed"
    <3>1. stageBar' = stageBar
      BY <2>4, <2>5 DEF stageBar
    <3> QED BY <2>1, <2>2, <2>3, <2>4, <3>1 DEF Service!PowerStep, Service!Write
  <2>6. CASE StageOf(r)' = "ok"
    BY <2>1, <2>2, <2>3, <2>4, <2>6 DEF Service!PowerStep, Service!Succeed, Service!To
  <2> QED BY <2>3, <2>5, <2>6
<1>8. CASE TransactionError(r)
  <2>1. CASE busTry[r] + 1 < BusRetries
    <3>1. UNCHANGED <<pc, result, stopped, req>> /\ pc[r] = "bus"
      BY <1>8, <2>1 DEF TransactionError
    <3>2. UNCHANGED <<stageBar, commandBar>> /\ stageBar[r] = "passed"
      BY <3>1 DEF stageBar, StageOf, commandBar, CommandOf, RegisterOf, ToUnits, RegisterRange
    <3>3. CASE Deliver(r)
      BY <3>1, <3>2, <3>3, DeliverRefines DEF Service!PowerStep, Service!Write
    <3>4. CASE NotDelivered
      BY <3>1, <3>2, <3>4 DEF NotDelivered, wroteBar, Service!powerVars, Service!powerCall
    <3> QED BY <1>8, <3>3, <3>4 DEF TransactionError
  <2>2. CASE ~(busTry[r] + 1 < BusRetries)
    BY <1>8, <2>2, FailRefines DEF TransactionError, NotDelivered, Service!PowerStep
  <2> QED BY <2>1, <2>2
<1>9. CASE TransactionLost(r)
  BY <1>9, FailRefines DEF TransactionLost, NotDelivered, Service!PowerStep
<1>10. CASE Commit(r)
  <2>1. StageOf(r) = "passed" /\ StageOf(r)' = "ok" /\ stopped' = stopped /\ pset' = pset
    BY <1>10 DEF Commit, StageOf
  <2>2. stageBar' = [stageBar EXCEPT ![r] = "ok"] /\ stageBar[r] = "passed"
    BY <1>10, <2>1, OneCall DEF Commit, stageBar
  <2>3. UNCHANGED <<commandBar, wroteBar>>
    BY <1>10 DEF Commit, commandBar, wroteBar, CommandOf, RegisterOf, ToUnits, RegisterRange
  <2>4. wroteBar[r]
    BY <1>10 DEF Commit, Answered, wroteBar
  <2> QED BY <2>1, <2>2, <2>3, <2>4 DEF Service!PowerStep, Service!Succeed, Service!To
<1> QED BY <1>1, <1>2, <1>3, <1>4, <1>5, <1>6, <1>7, <1>8, <1>9, <1>10 DEF Step

\* So are the steps at the two ends of a call.
LEMMA BoundaryRefines ==
    ASSUME TypeOK, NEW r \in Requesters, Call(r) \/ Return(r) \/ CancelTask(r)
    PROVE  \/ \E c \in Service!Commands : Service!Begin(r, c) /\ UNCHANGED <<stopped, pset>>
           \/ Service!Take(r) /\ UNCHANGED <<stopped, pset>>
           \/ Service!Abandon(r)
<1> USE DEF TypeOK, GoTo, device, call
<1>1. CASE Call(r)
  <2>1. PICK q \in Requests : req' = [req EXCEPT ![r] = q]
    BY <1>1 DEF Call
  <2>2. StageOf(r) = "idle" /\ StageOf(r)' = "called" /\ UNCHANGED <<stopped, pset>>
    BY <1>1 DEF Call, StageOf
  <2>3. stageBar' = [stageBar EXCEPT ![r] = "called"] /\ stageBar[r] = "idle"
    BY <1>1, <2>2, OneCall DEF Call, stageBar
  <2>4. CommandOf(r)' = [op |-> q.op, value |-> RegisterOf(q.power)]
    <3>1. req'[r] = q
      BY <2>1
    <3> QED BY <3>1 DEF CommandOf, RegisterOf, ToUnits, RegisterRange
  <2>5. commandBar' = [commandBar EXCEPT ![r] = CommandOf(r)']
    BY <1>1, OneCall DEF Call
  <2>6. CommandOf(r)' \in Service!Commands
    BY <2>4, CommandType
  <2>7. wroteBar' = wroteBar
    BY <1>1 DEF Call, wroteBar
  <2>8. Service!Begin(r, CommandOf(r)')
    BY <2>3, <2>5, <2>7 DEF Service!Begin, Service!To
  <2> QED BY <2>2, <2>6, <2>8
<1>2. ASSUME Return(r) \/ CancelTask(r)
      PROVE  /\ stageBar' = [stageBar EXCEPT ![r] = "idle"]
             /\ commandBar' = [commandBar EXCEPT ![r] = Service!NoCommand]
             /\ wroteBar' = [wroteBar EXCEPT ![r] = FALSE]
  <2>1. pc'[r] = "idle" /\ req'[r] = IdleRequest /\ delivered'[r] = NoDelivery
    BY <1>2 DEF Return, CancelTask
  <2>2. StageOf(r)' = "idle"
    BY <2>1 DEF StageOf
  <2>3. CommandOf(r)' = Service!NoCommand
    BY <2>1 DEF CommandOf, IdleRequest, Service!NoCommand, RegisterOf, ToUnits, RegisterRange
  <2>4. /\ stageBar' = [stageBar EXCEPT ![r] = StageOf(r)']
        /\ commandBar' = [commandBar EXCEPT ![r] = CommandOf(r)']
        /\ wroteBar' = [wroteBar EXCEPT ![r] = (delivered'[r] # NoDelivery)]
    BY <1>2, OneCall DEF Return, CancelTask
  <2> QED BY <2>1, <2>2, <2>3, <2>4
<1>3. CASE Return(r)
  <2>1. stageBar[r] \in {"ok", "error"} /\ UNCHANGED <<stopped, pset>>
    BY <1>3 DEF Return, stageBar, StageOf
  <2> QED BY <1>2, <1>3, <2>1 DEF Service!Take, Service!To
<1>4. CASE CancelTask(r)
  <2>1. stageBar[r] \in {"called", "passed"} /\ stopped' = stopped
    BY <1>4 DEF CancelTask, stageBar, StageOf
  <2>2. \/ pset' = pset
        \/ /\ stageBar[r] = "passed" /\ Service!MovesPset(commandBar[r])
           /\ pset' = commandBar[r].value
    <3>1. CASE pset' # pset
      <4>1. pc[r] = "bus" /\ req[r].op # "reconnect" /\ pset' = CodeOf(req[r])
        BY <1>4, <3>1 DEF CancelTask
      <4>2. pset' = RegisterOf(req[r].power)
        BY <4>1 DEF CodeOf
      <4>3. stageBar[r] = "passed"
        BY <4>1 DEF stageBar, StageOf
      <4>4. commandBar[r] = [op |-> req[r].op, value |-> RegisterOf(req[r].power)]
        BY DEF commandBar, CommandOf
      <4> QED BY <4>1, <4>2, <4>3, <4>4 DEF Service!MovesPset
    <3> QED BY <3>1
  <2> QED BY <1>2, <1>4, <2>1, <2>2 DEF Service!Abandon, Service!To
<1> QED BY <1>1, <1>3, <1>4

\* Nothing else touches a call; only the emergency stop is visible.
LEMMA EnvironmentRefines ==
    ASSUME Environment
    PROVE  Service!Trigger \/ Service!Reset \/ UNCHANGED Service!powerVars
<1>1. UNCHANGED <<stageBar, commandBar, wroteBar>> /\ UNCHANGED pset
  BY NoCall DEF Environment, Trigger, WriterEmergencyStop, ResetByServer,
                UpdateCurrentState, Disconnect, call, device
<1>2. stopped' \in {TRUE, FALSE, stopped}
  BY DEF Environment, Trigger, WriterEmergencyStop, ResetByServer,
         UpdateCurrentState, Disconnect
<1> QED BY <1>1, <1>2 DEF Service!Trigger, Service!Reset, Service!powerVars, Service!powerCall

\* The controller, the writer and the Modbus client implement the service.
THEOREM PowerControlImplementsService == Spec => ImplementsService
<1>1. Init => Service!PowerInit /\ Answered /\ DryRunStages
  <2>1. Init => Answered /\ DryRunStages
    BY DEF Init, Answered, DryRunStages
  <2> QED BY <2>1, InitRefines
<1>2. TypeOK /\ Answered /\ DryRunStages /\ [Next]_vars
        => Answered' /\ DryRunStages' /\ [Service!PowerNext]_(Service!powerVars)
  <2> SUFFICES ASSUME TypeOK, Answered, DryRunStages, [Next]_vars
               PROVE  [Service!PowerNext]_(Service!powerVars)
    BY AnsweredStep, DryRunStep
  <2>1. ASSUME NEW r \in Requesters, Step(r)
        PROVE  [Service!PowerNext]_(Service!powerVars)
    BY <2>1, StepRefines DEF Service!PowerNext
  <2>2. ASSUME NEW r \in Requesters, Call(r) \/ Return(r) \/ CancelTask(r)
        PROVE  [Service!PowerNext]_(Service!powerVars)
    <3>1. UNCHANGED <<stopped, pset>> => stopped' \in {stopped, FALSE} /\ UNCHANGED pset
      OBVIOUS
    <3> QED BY <2>2, <3>1, BoundaryRefines DEF Service!PowerNext
  <2>3. CASE Environment
    BY <2>3, EnvironmentRefines DEF Service!PowerNext
  <2>4. CASE UNCHANGED vars
    BY <2>4, NoCall DEF vars, call, device, Service!powerVars, Service!powerCall
  <2> QED BY <2>1, <2>2, <2>3, <2>4 DEF Next
<1>3. Spec => []TypeOK
  BY TypeCorrect
<1> QED BY <1>1, <1>2, <1>3, PTL DEF Spec, ImplementsService, Service!PowerSpec
=============================================================================
