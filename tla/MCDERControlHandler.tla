------------------------- MODULE MCDERControlHandler -------------------------
(***************************************************************************)
(* Instances of DERControlHandler for TLC: one caller and the scheduler,   *)
(* two mRIDs and that of the default.                                      *)
(***************************************************************************)
EXTENDS DERControlHandler, TLC

CONSTANTS caller, scheduler, ctrl1, ctrl2, fallback

MCRequesters == {caller, scheduler}
MCIds == {ctrl1, ctrl2, fallback}
MCSymmetry == Permutations({ctrl1, ctrl2})
MCValues == {0, 1}
MCThreeValues == {0, 1, 2}

Plain == [connect |-> "none", energize |-> "none", power |-> NoPower, primacy |-> 1]
SetPower(v, p) == [Plain EXCEPT !.power = v, !.primacy = p]
Connect(x) == [Plain EXCEPT !.connect = x]
Energize(x) == [Plain EXCEPT !.energize = x]

MCAllControls == {SetPower(1, 1), Plain} \cup {Connect(x) : x \in {"true", "false"}}
                 \cup {Energize(x) : x \in {"true", "false"}}
                 \cup {[Connect("false") EXCEPT !.energize = "true"]}
MCSetControls == {SetPower(1, 1), SetPower(2, 2)}
MCDefaults == {SetPower(1, 1)}
MCNoDefaults == {}
MCNoLists == {}
MCLists == {{<<ctrl1, SetPower(1, 1)>>, <<ctrl2, SetPower(2, 2)>>}}
=============================================================================
