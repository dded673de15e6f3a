---------------------------- MODULE ControlPoller ---------------------------
(***************************************************************************)
(* DERControlIntegration: DERControlPoller gets the list of controls from  *)
(* one of three paths, and hands those it has not yet processed to the     *)
(* DERControlHandler, whose scheduler is started before the poller and     *)
(* stopped after it.  stop() cancels the polling at whatever it awaits.    *)
(* What the handler does with a control is in DERControlHandler.           *)
(***************************************************************************)
EXTENDS Naturals, Sequences, FiniteSets, Functions

CONSTANTS
    CpControls,     \* the mRIDs the server may list
    Retention,      \* processed_control_retention
    CpStops         \* bound: how often the integration is stopped

ASSUME PollerAssumption ==
    Retention \in Nat \ {0} /\ CpStops \in Nat /\ IsFiniteSet(CpControls)

VARIABLES
    cpTask,         \* what _poll_task awaits; "none" when there is none
    cpPath,         \* the path that is asked
    cpBatch,        \* new_controls that are left
    cpProcessed,    \* _processed_mRIDs
    cpScheduler,    \* whether the scheduler of the handler runs
    cpStops,
    \* History.
    cpLast,         \* the last controls whose handling ended, as many as are to be remembered
    cpRepeated      \* those that were handed over again while among them

cpHistory == <<cpLast, cpRepeated>>
cpVars == <<cpTask, cpPath, cpBatch, cpProcessed, cpScheduler, cpStops, cpHistory>>

CpPaths == 1..3

\* A list of the server has a control once, in any place.
Lists == UNION {Injection(1..n, CpControls) : n \in 0..Cardinality(CpControls)}

CpTypeOK ==
    /\ cpTask \in {"none", "get", "handle", "callback", "sleep", "stopping"}
    /\ cpPath \in CpPaths /\ cpBatch \in Lists
    /\ cpProcessed \in Seq(CpControls) /\ Len(cpProcessed) <= Retention
    /\ cpScheduler \in BOOLEAN /\ cpStops \in 0..CpStops
    /\ cpLast \in Seq(CpControls) /\ cpRepeated \subseteq CpControls

CpInit ==
    /\ cpTask = "none" /\ cpPath = 1 /\ cpBatch = << >> /\ cpProcessed = << >>
    /\ cpScheduler = FALSE /\ cpStops = 0
    /\ cpLast = << >> /\ cpRepeated = {}

\* DERControlIntegration.start(); poll_on_start.
CpStart ==
    /\ cpTask = "none" /\ ~cpScheduler
    /\ cpScheduler' = TRUE /\ cpTask' = "get" /\ cpPath' = 1
    /\ UNCHANGED <<cpBatch, cpProcessed, cpStops, cpHistory>>

\* The first path that answers is used, even if nothing in its list is new; no answer, or an
\* error, goes on to the next one.
CpGot ==
    /\ cpTask = "get"
    /\ \/ \E new \in Lists :
              /\ Range(new) \cap Range(cpProcessed) = {}
              /\ cpBatch' = new
              /\ cpTask' = IF new = << >> THEN "sleep" ELSE "handle"
              /\ UNCHANGED cpPath
       \/ /\ IF cpPath + 1 \in CpPaths
             THEN cpPath' = cpPath + 1 /\ UNCHANGED cpTask
             ELSE cpTask' = "sleep" /\ UNCHANGED cpPath
          /\ UNCHANGED cpBatch
    /\ UNCHANGED <<cpProcessed, cpScheduler, cpStops, cpHistory>>

\* The marks that are left when one is added.
Marked(c) == LET all == Append(cpProcessed, c)
             IN  IF Len(all) > Retention THEN Tail(all) ELSE all

AfterOne == /\ cpBatch' = Tail(cpBatch)
            /\ cpTask' = IF Len(cpBatch) = 1 THEN "sleep" ELSE "handle"

LastOf(handled) == SubSeq(handled, IF Len(handled) > Retention THEN 2 ELSE 1, Len(handled))
Again(c) == cpRepeated' = cpRepeated \cup (Range(cpLast) \cap {c})

\* handle_control() returns: the control is marked before the callback is awaited.
CpHandled ==
    LET c == Head(cpBatch) IN
    /\ cpTask = "handle"
    /\ cpProcessed' = Marked(c)
    /\ Again(c) /\ cpLast' = LastOf(Append(cpLast, c))
    /\ cpTask' = "callback"
    /\ UNCHANGED <<cpPath, cpBatch, cpScheduler, cpStops>>

\* handle_control() raises: the control is not marked and comes again with the next list.
CpHandlingRaises ==
    /\ cpTask = "handle"
    /\ Again(Head(cpBatch))
    /\ AfterOne
    /\ UNCHANGED <<cpPath, cpProcessed, cpScheduler, cpStops, cpLast>>

\* Mutant: the mark is taken back when the callback raises.
CpCalledBackUnmarked ==
    /\ cpTask = "callback"
    /\ AfterOne
    /\ cpProcessed' = SelectSeq(cpProcessed, LAMBDA c : c # Head(cpBatch))
    /\ UNCHANGED <<cpPath, cpScheduler, cpStops, cpHistory>>

\* The callback returns or raises.
CpCalledBack ==
    /\ cpTask = "callback"
    /\ AfterOne
    /\ UNCHANGED <<cpPath, cpProcessed, cpScheduler, cpStops, cpHistory>>

CpWakes ==
    /\ cpTask = "sleep"
    /\ cpTask' = "get" /\ cpPath' = 1
    /\ UNCHANGED <<cpBatch, cpProcessed, cpScheduler, cpStops, cpHistory>>

\* stop(): the poller is cancelled at its await, then the scheduler is stopped.  A handling
\* that is cancelled may have reached the power controller, yet leaves no mark.
CpStop ==
    /\ cpTask \notin {"none", "stopping"} /\ cpStops < CpStops
    /\ cpStops' = cpStops + 1
    /\ cpTask' = "stopping" /\ cpBatch' = << >>
    /\ UNCHANGED <<cpPath, cpProcessed, cpScheduler, cpHistory>>

CpSchedulerStopped ==
    /\ cpTask = "stopping"
    /\ cpTask' = "none" /\ cpScheduler' = FALSE
    /\ UNCHANGED <<cpPath, cpBatch, cpProcessed, cpStops, cpHistory>>

CpNext ==
    \/ CpStart \/ CpGot \/ CpHandled \/ CpHandlingRaises \/ CpCalledBack \/ CpWakes
    \/ CpStop \/ CpSchedulerStopped

-----------------------------------------------------------------------------

\* A control that was handled to the end is not handed to the handler again while it is among
\* the last that are remembered, through failing callbacks, lists in any order, and restarts;
\* and nothing is polled or handled when the scheduler is stopped.
PollerSafe ==
    /\ cpRepeated = {}
    /\ cpTask # "none" => cpScheduler
=============================================================================
