-------------------------- MODULE DERClientRefines --------------------------
(***************************************************************************)
(* DERClient keeps the promise of ControlLife.  A response counts as said  *)
(* when _send_response has been called for it, whether or not it got       *)
(* through; a control is carried out when an event of it was executed and  *)
(* did not fail.                                                           *)
(***************************************************************************)
EXTENDS DERClient

\* What has been said of a control, whether or not it got through.
Said(c) == sent[c] \cup owed[c]

\* What an event may be once its execution has succeeded.
Good == {"completed", "superseded", "cancelled"}

\* Event k came of control c and was executed with success.
Succeeded(c, k) == events[k].id = c /\ events[k].executed /\ events[k].status \in Good

saidBar == [c \in Mrids |-> Said(c)]
carriedOutBar == {c \in Mrids : \E k \in DOMAIN events : Succeeded(c, k)}

Life == INSTANCE ControlLife WITH
    Controls <- Mrids,
    said <- saidBar,
    given <- handed,
    carriedOut <- carriedOutBar

\* What the three tasks and the handler do to a control together is a life that
\* the server can understand: whatever is interleaved, every step is a step of
\* ControlLife for one control or changes nothing the server could tell.
ImplementsLife == Life!LifeSpec
=============================================================================
