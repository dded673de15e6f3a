------------------------------ MODULE Recorders -----------------------------
(***************************************************************************)
(* What the web interface shows of the past: the control records, resource *)
(* records and request log of DERControlHistoryRecorder, whose lock does   *)
(* not cover the request counter, and the buffers of DataRecorder, which   *)
(* has no lock.  The threads of the client write, that of the web          *)
(* interface clears.  The parts share nothing: a behaviour exercises one.  *)
(***************************************************************************)
EXTENDS Naturals, Sequences, FiniteSets, Functions

CONSTANTS
    HiIds,      \* identifiers of controls, of assignments and of programs
    HiMax,      \* _max_records
    HiRecords,  \* bound: the records that are ever made
    HiThreads   \* threads of the client

ASSUME RecordersAssumption ==
    HiMax \in Nat \ {0} /\ HiRecords \in Nat /\ "web" \notin HiThreads

VARIABLES
    hiPart,
    hiMade,     \* records made so far, which are numbered
    hiShown,    \* the deque of the numbers of the records
    hiId,       \* the identifier of each record
    hiStatus,   \* the status of each record
    hiById,     \* _records_by_id: none or one number for each identifier
    hiResource, \* _fsa_records and _program_records: the status of each that is recorded
    hiTracked,  \* History: the assignments recorded and not removed since
    hiCounter,  \* _request_counter, or the count of records
    hiLatest,   \* _latest_*, 0 for None
    hiKnown,    \* the racks for which there is a deque
    hiAt,       \* what each thread does next, and the number it holds
    hiErrors,   \* KeyErrors raised into the callers
    hiOrderly   \* one call at a time

hiControls == <<hiId, hiStatus, hiById>>
hiResources == <<hiResource, hiTracked>>
hiBuffers == <<hiCounter, hiLatest, hiKnown, hiErrors>>
hiVars == <<hiPart, hiMade, hiShown, hiControls, hiResources, hiBuffers, hiAt, hiOrderly>>

\* get_active_controls() and get_recent_completed() tell these apart; the first stands for
\* pending, scheduled and active.
Statuses == {"open", "completed", "ended"}
Numbered == 1..HiRecords
HiWorkers == HiThreads \cup {"web"}
HiAt(step, n) == [step |-> step, n |-> n]

HiTypeOK ==
    /\ hiPart \in {"controls", "resources", "requests", "uploads"} /\ hiMade \in 0..HiRecords
    /\ hiShown \in Seq(0..HiRecords) /\ Len(hiShown) <= HiMax
    /\ hiId \in Seq(HiIds) /\ hiStatus \in Seq(Statuses)
    /\ hiById \in [HiIds -> {{}} \cup {{n} : n \in Numbered}]
    /\ hiResource \in [HiIds -> {"none", "active", "removed"}] /\ hiTracked \subseteq HiIds
    /\ hiCounter \in 0..HiRecords /\ hiLatest \in 0..HiRecords /\ hiKnown \in BOOLEAN
    /\ DOMAIN hiAt = HiWorkers /\ hiErrors \in BOOLEAN /\ hiOrderly \in BOOLEAN

HiInit ==
    /\ hiPart \in {"controls", "resources", "requests", "uploads"}
    /\ hiMade = 0 /\ hiShown = << >> /\ hiId = << >> /\ hiStatus = << >>
    /\ hiById = [i \in HiIds |-> {}]
    /\ hiResource = [i \in HiIds |-> "none"] /\ hiTracked = {}
    /\ hiCounter = 0 /\ hiLatest = 0 /\ hiKnown = FALSE
    /\ hiAt = [t \in HiWorkers |-> HiAt("idle", 0)] /\ hiErrors = FALSE
    /\ hiOrderly \in IF hiPart \in {"controls", "resources"} THEN {TRUE} ELSE BOOLEAN

\* deque(maxlen=max_records).
Pushed(shown, n) == LET all == Append(shown, n) IN IF Len(all) > HiMax THEN Tail(all) ELSE all

-----------------------------------------------------------------------------
(***************************************************************************)
(* Controls, under _record_lock.                                           *)
(***************************************************************************)
\* _cleanup_old_records(): only when there are many more identifiers than records.
Cleaned(byId) ==
    LET kept == {hiId'[hiShown'[i]] : i \in DOMAIN hiShown'}
    IN  IF Cardinality({i \in HiIds : byId[i] # {}}) > 2 * HiMax
        THEN [i \in HiIds |-> IF i \in kept THEN byId[i] ELSE {}]
        ELSE byId

\* record_control_received(): a control that is received again gets another record.
ControlReceived ==
    /\ hiPart = "controls" /\ hiMade < HiRecords
    /\ hiMade' = hiMade + 1
    /\ hiShown' = Pushed(hiShown, hiMade + 1)
    /\ hiStatus' = Append(hiStatus, "open")
    /\ \E id \in HiIds :
           /\ hiId' = Append(hiId, id)
           /\ hiById' = Cleaned([hiById EXCEPT ![id] = {hiMade + 1}])
    /\ UNCHANGED <<hiPart, hiResources, hiBuffers, hiAt, hiOrderly>>

\* update_control_status() and update_control_executed(): of the newest record of the control.
StatusUpdated ==
    /\ hiPart = "controls"
    /\ \E id \in HiIds, status \in Statuses : \E n \in hiById[id] :
           hiStatus' = [hiStatus EXCEPT ![n] = status]
    /\ UNCHANGED <<hiPart, hiMade, hiShown, hiId, hiById, hiResources, hiBuffers, hiAt, hiOrderly>>

-----------------------------------------------------------------------------
(***************************************************************************)
(* Assignments and programs, under _record_lock.                           *)
(***************************************************************************)
\* record_fsa() and record_program(): what is recorded again keeps its status.
ResourceRecorded ==
    /\ hiPart = "resources"
    /\ \E id \in HiIds :
           /\ hiResource' = [hiResource EXCEPT ![id] = IF @ = "none" THEN "active" ELSE @]
           /\ hiTracked' = hiTracked \cup {id}
    /\ UNCHANGED <<hiPart, hiMade, hiShown, hiControls, hiBuffers, hiAt, hiOrderly>>

\* remove_fsa() and remove_program().
ResourceRemoved ==
    /\ hiPart = "resources"
    /\ \E id \in HiIds :
           /\ hiResource' = [hiResource EXCEPT ![id] = IF @ = "none" THEN "none" ELSE "removed"]
           /\ hiTracked' = hiTracked \ {id}
    /\ UNCHANGED <<hiPart, hiMade, hiShown, hiControls, hiBuffers, hiAt, hiOrderly>>

-----------------------------------------------------------------------------
(***************************************************************************)
(* Requests and uploads: a step is what one thread does without being      *)
(* interrupted.                                                            *)
(***************************************************************************)
HiMayRun(t) == hiOrderly => \A u \in HiWorkers \ {t} : hiAt[u].step = "idle"
HiAtStep(t, part, step) == hiPart = part /\ hiAt[t].step = step /\ HiMayRun(t)
HiGo(t, step, n) == hiAt' = [hiAt EXCEPT ![t] = HiAt(step, n)]

\* log_request(): += reads and writes, and the identifier is read again.
RequestCounted(t) ==
    /\ \/ /\ HiAtStep(t, "requests", "idle") /\ hiMade < HiRecords
          /\ hiMade' = hiMade + 1
          /\ HiGo(t, "write", hiCounter) /\ UNCHANGED hiCounter
       \/ /\ HiAtStep(t, "requests", "write")
          /\ hiCounter' = hiAt[t].n + 1
          /\ HiGo(t, "read", 0) /\ UNCHANGED hiMade
       \/ /\ HiAtStep(t, "requests", "read")
          /\ HiGo(t, "append", hiCounter) /\ UNCHANGED <<hiMade, hiCounter>>
    /\ UNCHANGED <<hiPart, hiShown, hiControls, hiResources, hiLatest, hiKnown, hiErrors, hiOrderly>>

RequestLogged(t) ==
    /\ HiAtStep(t, "requests", "append")
    /\ hiShown' = Pushed(hiShown, hiAt[t].n)
    /\ HiGo(t, "idle", 0)
    /\ UNCHANGED <<hiPart, hiMade, hiControls, hiResources, hiBuffers, hiOrderly>>

\* record_rack_data(): its deque is made when there is none, then looked up again.
RackKnown(t) ==
    /\ HiAtStep(t, "uploads", "idle") /\ hiMade < HiRecords
    /\ hiMade' = hiMade + 1
    /\ hiKnown' = TRUE
    /\ HiGo(t, "append", hiMade + 1)
    /\ UNCHANGED <<hiPart, hiShown, hiControls, hiResources, hiCounter, hiLatest, hiErrors, hiOrderly>>

RackAppended(t) ==
    /\ HiAtStep(t, "uploads", "append")
    /\ IF hiKnown
       THEN /\ hiShown' = Pushed(hiShown, hiAt[t].n)
            /\ HiGo(t, "latest", hiAt[t].n)
            /\ UNCHANGED hiErrors
       ELSE hiErrors' = TRUE /\ HiGo(t, "idle", 0) /\ UNCHANGED hiShown
    /\ UNCHANGED <<hiPart, hiMade, hiControls, hiResources, hiCounter, hiLatest, hiKnown, hiOrderly>>

RackNoted(t) ==
    /\ \/ /\ HiAtStep(t, "uploads", "latest")
          /\ hiLatest' = hiAt[t].n
          /\ HiGo(t, "count", 0) /\ UNCHANGED hiCounter
       \/ /\ HiAtStep(t, "uploads", "count") /\ hiCounter < HiRecords
          /\ hiCounter' = hiCounter + 1
          /\ HiGo(t, "idle", 0) /\ UNCHANGED hiLatest
    /\ UNCHANGED <<hiPart, hiMade, hiShown, hiControls, hiResources, hiKnown, hiErrors, hiOrderly>>

\* clear_history() takes the lock.
HistoryCleared ==
    /\ hiPart # "uploads" /\ HiMayRun("web")
    /\ hiShown' = << >> /\ hiCounter' = 0
    /\ hiById' = [i \in HiIds |-> {}]
    /\ hiResource' = [i \in HiIds |-> "none"] /\ hiTracked' = {}
    /\ UNCHANGED <<hiPart, hiMade, hiId, hiStatus, hiLatest, hiKnown, hiErrors, hiAt, hiOrderly>>

\* DataRecorder.clear(): the buffers, the latest records, then the counts.
BuffersCleared ==
    /\ \/ /\ HiAtStep("web", "uploads", "idle")
          /\ hiShown' = << >> /\ hiKnown' = FALSE
          /\ HiGo("web", "latest", 0) /\ UNCHANGED <<hiLatest, hiCounter>>
       \/ /\ HiAtStep("web", "uploads", "latest")
          /\ hiLatest' = 0
          /\ HiGo("web", "count", 0) /\ UNCHANGED <<hiShown, hiKnown, hiCounter>>
       \/ /\ HiAtStep("web", "uploads", "count")
          /\ hiCounter' = 0
          /\ HiGo("web", "idle", 0) /\ UNCHANGED <<hiShown, hiKnown, hiLatest>>
    /\ UNCHANGED <<hiPart, hiMade, hiControls, hiResources, hiErrors, hiOrderly>>

HiNext ==
    \/ ControlReceived \/ StatusUpdated \/ ResourceRecorded \/ ResourceRemoved
    \/ \E t \in HiThreads : \/ RequestCounted(t) \/ RequestLogged(t)
                            \/ RackKnown(t) \/ RackAppended(t) \/ RackNoted(t)
    \/ HistoryCleared \/ BuffersCleared

-----------------------------------------------------------------------------

\* Of the records of a control that are shown, updates reach the newest, through evictions and
\* cleanups; and the index does not grow beyond twice the records.
UpdatesReachNewest ==
    hiPart = "controls" =>
        /\ \A i \in DOMAIN hiShown :
               (\A j \in DOMAIN hiShown : j > i => hiId[hiShown[j]] # hiId[hiShown[i]])
                   => hiById[hiId[hiShown[i]]] = {hiShown[i]}
        /\ Cardinality({i \in HiIds : hiById[i] # {}}) <= 2 * HiMax

\* What is shown as active is tracked.
ShownIsTracked == \A i \in HiIds : hiResource[i] = "active" => i \in hiTracked

HiIdle == \A t \in HiWorkers : hiAt[t].step = "idle"

\* When calls do not overlap, requests have identifiers of their own, the latest record of a
\* buffer is its last, and no caller meets a KeyError.
BuffersAgree ==
    hiOrderly =>
        /\ hiPart = "requests" => IsInjective(hiShown)
        /\ ~hiErrors
        /\ hiPart = "uploads" /\ HiIdle =>
               hiLatest = IF hiShown = << >> THEN 0 ELSE hiShown[Len(hiShown)]

\* What the web interface shows of the past is consistent.
HistorySafe == UpdatesReachNewest /\ ShownIsTracked /\ BuffersAgree
=============================================================================
