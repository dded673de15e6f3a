----------------------------- MODULE MCDERClient -----------------------------
(***************************************************************************)
(* Instances of DERClient for TLC: one to three controls, the mRID of the  *)
(* handler's default (which DERClient never sets), and one or two          *)
(* programs, each of priority 2 or 1.                                      *)
(***************************************************************************)
EXTENDS DERClientRefines, TLC

CONSTANTS poller, scheduler, fsaTask, ctrl1, ctrl2, ctrl3, fallback, prog1, prog2, fsa1, fsa2

MCRequesters == {poller, scheduler}
MCOneId == {ctrl1, fallback}
MCIds == {ctrl1, ctrl2, fallback}
MCThreeIds == {ctrl1, ctrl2, ctrl3, fallback}
MCValues == {0, 1}
MCThreeValues == {0, 1, 2}

Plain == [connect |-> "none", energize |-> "none", power |-> NoPower, primacy |-> 0]
SetPower(v) == [Plain EXCEPT !.power = v]
Connect(x) == [Plain EXCEPT !.connect = x]

MCNone == {}
MCSetPoints == {SetPower(1), SetPower(2)}
MCSwitches == {SetPower(1), Connect("false"), Connect("true")}

\* The controls: what they ask for, whose they are, when they were made.
MCSetPoint == ctrl1 :> SetPower(1)
MCTwoSetPoints == ctrl1 :> SetPower(1) @@ ctrl2 :> SetPower(2)
MCSetAndDisconnect == ctrl1 :> SetPower(1) @@ ctrl2 :> Connect("false")
MCSetAndReconnect == ctrl1 :> SetPower(1) @@ ctrl2 :> Connect("true")
MCTwoSetsAndDisconnect == MCSetAndDisconnect @@ ctrl3 :> SetPower(1)
MCProgramOfOne == ctrl1 :> prog1
MCProgramOfEach == ctrl1 :> prog1 @@ ctrl2 :> prog2
MCProgramOfBoth == ctrl1 :> prog1 @@ ctrl2 :> prog1
MCProgramOfThree == MCProgramOfBoth @@ ctrl3 :> prog1
MCCreationOfOne == ctrl1 :> 1
MCCreation == ctrl1 :> 1 @@ ctrl2 :> 2
MCCreationOfThree == MCCreation @@ ctrl3 :> 1

\* The intervals; the third control has duration 0.
MCTimed == [Mrids -> {"future", "open"}]
MCFuture == [Mrids -> {"future"}]
MCOpen == [Mrids -> {"open"}]
MCThirdOpen == {[c \in Mrids |-> IF c = ctrl3 THEN "open" ELSE "future"]}
MCThird == {ctrl3}

\* What may happen around the client.
MCCalm == {}
MCStops == {"stop"}
MCStopsAndNetwork == {"stop", "network"}
MCChurn == {"fsa", "cancel", "remove"}

\* The programs and their assignments.
MCOneProgram == {prog1}
MCTwoPrograms == {prog1, prog2}
MCPrimacy == prog1 :> 1
MCPrimacies == prog1 :> 2 @@ prog2 :> 1
MCNoDefault == prog1 :> NoPower
MCNoDefaults == MCNoDefault @@ prog2 :> NoPower
MCDefault == prog1 :> 0
MCOneFsa == {fsa1}
MCFsaOfOne == fsa1 :> {prog1}
MCFsaOfBoth == fsa1 :> {prog1, prog2}
=============================================================================
