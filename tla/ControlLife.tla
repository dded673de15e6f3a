----------------------------- MODULE ControlLife -----------------------------
(***************************************************************************)
(* The life of DERControls as the IEEE 2030.5 server may understand it     *)
(* from the responses of a client: what has been said of a control, how    *)
(* often the device has been given it, and whether that succeeded.         *)
(* DERClient implements this, whatever its tasks, retries, conflicts and   *)
(* sweeps do in between.                                                   *)
(***************************************************************************)
EXTENDS Naturals

CONSTANTS
    Controls,       \* the controls of the server
    Responses       \* what may be said of one

VARIABLES
    said,           \* the responses made of each, whether or not they got through
    given,          \* how often each was given to the device
    carriedOut      \* the controls that were executed with success

life == <<said, given, carriedOut>>

LifeInit ==
    /\ said = [c \in Controls |-> {}]
    /\ given = [c \in Controls |-> 0]
    /\ carriedOut = {}

\* When a response may be made for the first time: RECEIVED and STARTED, in this
\* order, before the control is given to the device, and COMPLETED only after it
\* was carried out.  A control that has expired is past all of that; the others,
\* which take a control back, may come at any time.
Sayable(c, r) ==
    /\ r \in {"received", "started"} => given[c] = 0 /\ "expired" \notin said[c]
    /\ r = "started" => "received" \in said[c]
    /\ r = "expired" => given[c] = 0 /\ "started" \notin said[c]
    /\ r = "completed" => c \in carriedOut

Say(c, r) ==
    /\ Sayable(c, r)
    /\ said' = [said EXCEPT ![c] = @ \cup {r}]
    /\ UNCHANGED <<given, carriedOut>>

\* The device is given a control once, after the server was told that it starts;
\* what needs no power command is carried out at once.
Give(c) ==
    /\ "started" \in said[c] /\ given[c] = 0
    /\ given' = [given EXCEPT ![c] = 1]
    /\ carriedOut' \in {carriedOut, carriedOut \cup {c}}
    /\ UNCHANGED said

CarryOut(c) ==
    /\ given[c] = 1
    /\ carriedOut' = carriedOut \cup {c}
    /\ UNCHANGED <<said, given>>

LifeNext == \E c \in Controls : (\E r \in Responses : Say(c, r)) \/ Give(c) \/ CarryOut(c)

LifeSpec == LifeInit /\ [][LifeNext]_life
=============================================================================
