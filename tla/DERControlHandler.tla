-------------------------- MODULE DERControlHandler --------------------------
(***************************************************************************)
(* DERControlHandler (dera/handler.py): it executes DERControl events      *)
(* through the power controller, remembers them by mRID, and knows which   *)
(* one is in force.  Every operation holds _event_lock from its first to   *)
(* its last step, across the awaits on the power controller.               *)
(*                                                                         *)
(* Event objects are numbered in the order they are received, so that      *)
(* _events (by mRID) and _active_event may refer to different objects of   *)
(* the same mRID.  Time is what an interval has come to: its start is in   *)
(* the future, it is open, or it is past.  The on_control_executed         *)
(* callback, which only observes, is left out.                             *)
(***************************************************************************)
EXTENDS PowerService, Naturals, Sequences, FiniteSets, Functions

CONSTANTS
    Scheduler,      \* the requester that runs _scheduler_loop
    Ids,            \* mRIDs
    Controls,       \* what a DERControl asks for
    Defaults,       \* the controls set_default_der_control may set
    DefaultId,      \* the mRID of the default control
    NoControl,      \* no default control is set
    Lists,          \* what handle_control_list may be given
    NoPower,        \* opModFixedW is absent
    Free,           \* _event_lock is free
    MaxTracked,     \* DERControlHandlerConfig.max_tracked_events
    MaxEvents       \* bound: events the model creates

Fields == [connect : {"none", "true", "false"}, energize : {"none", "true", "false"},
           power : Values \cup {NoPower}, primacy : Nat]

ASSUME ControlsAssumption == Controls \subseteq Fields /\ Defaults \subseteq Fields
ASSUME HandlerNamesAssumption ==
    /\ Free \notin Requesters /\ NoControl \notin Fields /\ NoPower \notin Values
    /\ DefaultId \in Ids /\ Scheduler \in Requesters
ASSUME HandlerBoundsAssumption == MaxTracked \in Nat \ {0} /\ MaxEvents \in Nat
ASSUME ListsAssumption ==
    Lists \subseteq SUBSET (Ids \X Fields) /\ \A list \in Lists : IsFiniteSet(list)

VARIABLES
    lock,           \* _event_lock: its holder or Free
    events,         \* every event object, in the order of received_time
    tracked,        \* _events: mRID -> event
    active,         \* _active_event, 0 for None
    default,        \* _default_der_control
    pc,             \* where each requester stands
    job,            \* the operation it runs and the event it is about
    due,            \* _process_scheduled_events: events of this tick still to run
    todo            \* handle_control_list: controls still to handle, in order

book == <<events, tracked, active, default>>
handlerVars == <<lock, book, pc, job, due, todo>>
allVars == <<powerVars, handlerVars>>

Statuses == {"pending", "scheduled", "active", "completed",
             "cancelled", "superseded", "failed"}
Finished == {"completed", "cancelled", "superseded", "failed"}
Windows == {"future", "open", "past"}
NoJob == [op |-> "none", event |-> 0]

HandlerInit ==
    /\ PowerInit
    /\ lock = Free
    /\ events = <<>>
    /\ tracked = << >>
    /\ active = 0
    /\ default = NoControl
    /\ pc = [t \in Requesters |-> "idle"]
    /\ job = [t \in Requesters |-> NoJob]
    /\ due = [t \in Requesters |-> {}]
    /\ todo = [t \in Requesters |-> <<>>]

-----------------------------------------------------------------------------
(***************************************************************************)
(* _execute_control.                                                       *)
(***************************************************************************)
\* The branch a control takes: recovery commands before the emergency stop
\* gate, everything else behind it.
Branch(c) ==
    CASE c.connect = "true"   -> "reconnect"
      [] c.connect # "true" /\ c.energize = "true" -> "energize"
      [] c.connect # "true" /\ c.energize # "true" /\ stopped -> "blocked"
      [] OTHER -> IF c.connect = "false" THEN "disconnect"
                  ELSE IF c.energize = "false" THEN "deenergize"
                  ELSE IF c.power = NoPower THEN "nothing" ELSE "set"

\* The branches that await the power controller, and what they ask of it.
CommandFor(c) ==
    CASE Branch(c) = "reconnect"  -> [op |-> "reconnect", value |-> Zero]
      [] Branch(c) = "disconnect" -> [op |-> "disconnect", value |-> Zero]
      [] Branch(c) = "deenergize" -> [op |-> "set", value |-> Zero]
      [] Branch(c) = "set"        -> [op |-> "set", value |-> c.power]
      [] OTHER                    -> NoCommand

Mark(evs, k, status) == [evs EXCEPT ![k].status = status]
Begun(evs, k) == [evs EXCEPT ![k].status = "active", ![k].executed = TRUE]

\* Mutant: an event that has completed is not superseded.
SupersedeActiveOnly(evs, a, k) ==
    IF a # 0 /\ evs[a].id # evs[k].id /\ evs[a].status = "active"
    THEN Mark(evs, a, "superseded")
    ELSE evs

\* _supersede_and_set_active: what becomes of the event in force, a.
Supersede(evs, a, k) ==
    IF a # 0 /\ evs[a].id # evs[k].id /\ evs[a].status \in {"active", "completed"}
    THEN Mark(evs, a, "superseded")
    ELSE evs

Track(k, evs) == [i \in DOMAIN tracked \cup {evs[k].id} |->
                     IF i = evs[k].id THEN k ELSE tracked[i]]

\* _cleanup_old_events: first any of the events that ended longer ago than the
\* retention time, then the oldest ones beyond MaxTracked, whatever their status.
CleanedUp(trk, evs, k) ==
    LET ended == {i \in DOMAIN trk : /\ evs[trk[i]].status \in Finished
                                     /\ evs[trk[i]].executed /\ trk[i] # k}
        Oldest(S, n) == {i \in S : Cardinality({j \in S : trk[j] < trk[i]}) < n}
        Kept(S) == IF Cardinality(S) > MaxTracked
                   THEN S \ Oldest(S, Cardinality(S) - MaxTracked)
                   ELSE S
    IN  {Restrict(trk, Kept(DOMAIN trk \ old)) : old \in SUBSET ended}

\* Mutant: the operation ends without releasing the lock.
ConcludeKeepingLock(t, op, k, evs) ==
    /\ tracked' = Track(k, evs)
    /\ pc' = [pc EXCEPT ![t] = IF op = "tick" THEN "tick" ELSE "idle"]
    /\ lock' = t
    /\ job' = [job EXCEPT ![t] = NoJob]

\* The operation that executed event k is over: the event is remembered, the
\* lock is released unless a tick has more to run.
Conclude(t, op, k, evs) ==
    /\ CASE op = "handle"  -> tracked' \in CleanedUp(Track(k, evs), evs, k)
         [] op = "default" -> tracked' = Track(k, evs)
         [] OTHER          -> UNCHANGED tracked
    /\ IF op = "tick"
       THEN pc' = [pc EXCEPT ![t] = "tick"] /\ lock' = t
       ELSE pc' = [pc EXCEPT ![t] = "idle"] /\ lock' = Free
    /\ job' = [job EXCEPT ![t] = NoJob]

\* _execute_control on object k of evs while a is in force, up to the await on
\* the power controller or, where there is none, to the end of the operation.
Execute(t, op, k, objects, a) ==
    LET c   == objects[k].control
        b   == Branch(c)
        evs == Begun(objects, k)
    IN  /\ stopped' = IF b \in {"reconnect", "energize"} THEN FALSE ELSE stopped
        /\ IF b \in {"reconnect", "disconnect", "deenergize", "set"}
           THEN /\ Begin(t, CommandFor(c))
                /\ events' = IF b = "set" THEN Supersede(evs, a, k) ELSE evs
                /\ active' = IF b = "set" THEN k ELSE a
                /\ pc' = [pc EXCEPT ![t] = "power"]
                /\ job' = [job EXCEPT ![t] = [op |-> op, event |-> k]]
                /\ lock' = t
                /\ UNCHANGED tracked
           ELSE /\ events' = CASE b = "energize" -> Supersede(Mark(evs, k, "completed"), a, k)
                               [] b = "blocked"  -> Mark(evs, k, "failed")
                               [] b = "nothing"  -> Mark(evs, k, "completed")
                /\ active' = IF b = "energize" THEN k ELSE a
                /\ Conclude(t, op, k, events')
                /\ UNCHANGED powerCall
        /\ UNCHANGED pset

NewEvent(i, c, w) ==
    [id |-> i, control |-> c, window |-> w, status |-> "pending", executed |-> FALSE]

-----------------------------------------------------------------------------
(***************************************************************************)
(* handle_control and handle_control_list.                                 *)
(***************************************************************************)
\* handle_control(c): a control whose interval has not begun is only remembered;
\* one whose interval is over is executed like one whose interval is open.
HandleControl(t, i, c, w) ==
    /\ pc[t] = "idle" /\ lock = Free /\ Len(events) < MaxEvents
    /\ LET k == Len(events) + 1
       IN  IF w = "future"
           THEN /\ events' = Append(events, [NewEvent(i, c, w) EXCEPT !.status = "scheduled"])
                /\ tracked' = Track(k, events')
                /\ UNCHANGED <<powerVars, lock, active, pc, job>>
           ELSE Execute(t, "handle", k, Append(events, NewEvent(i, c, w)), active)
    /\ UNCHANGED <<default, due>>

Receive(t) ==
    /\ todo[t] = <<>>
    /\ \E i \in Ids \ {DefaultId}, c \in Controls, w \in {"future", "open"} :
           HandleControl(t, i, c, w)
    /\ UNCHANGED todo

\* The list in ascending primacy.
InOrder(list) ==
    {s \in [1..Cardinality(list) -> list] :
        /\ \A m, n \in DOMAIN s : m # n => s[m] # s[n]
        /\ \A m, n \in DOMAIN s : m < n => s[m][2].primacy <= s[n][2].primacy}

HandleControlList(t) ==
    /\ pc[t] = "idle" /\ todo[t] = <<>> /\ Len(events) < MaxEvents
    /\ \E list \in Lists : todo' \in {[todo EXCEPT ![t] = s] : s \in InOrder(list)}
    /\ UNCHANGED <<powerVars, lock, book, pc, job, due>>

HandleNext(t) ==
    /\ todo[t] # <<>>
    /\ HandleControl(t, Head(todo[t])[1], Head(todo[t])[2], "open")
    /\ todo' = [todo EXCEPT ![t] = Tail(@)]

\* Mutant: an event whose call failed does not replace the one in force.
FailureReplacesNothing(t) ==
    LET op  == job[t].op
        k   == job[t].event
        ok  == stage[t] = "ok"
        evs == Mark(events, k, IF ok THEN "completed" ELSE "failed")
    IN  /\ pc[t] = "power" /\ op # "cancel"
        /\ Take(t)
        /\ events' = IF ok THEN Supersede(evs, active, k) ELSE evs
        /\ active' = IF ok THEN k ELSE active
        /\ Conclude(t, op, k, events')
        /\ UNCHANGED <<stopped, pset, default, due, todo>>

\* The answer of the power controller: the event ends, and only now replaces
\* the one in force, unless it was a set-point, which did so before the write.
PowerReturned(t) ==
    LET op  == job[t].op
        k   == job[t].event
        evs == Mark(events, k, IF stage[t] = "ok" THEN "completed" ELSE "failed")
    IN  /\ pc[t] = "power" /\ op # "cancel"
        /\ Take(t)
        /\ events' = Supersede(evs, active, k)
        /\ active' = k
        /\ Conclude(t, op, k, events')
        /\ UNCHANGED <<stopped, pset, default, due, todo>>

-----------------------------------------------------------------------------
(***************************************************************************)
(* cancel_control, with the fall-back to the default control.              *)
(***************************************************************************)
CutsPower(c) == c.connect = "false" \/ c.energize = "false"

\* Only the event in force has anything to undo on the PCS: an event that had
\* cut the power is undone by lifting the emergency stop and reconnecting.
CancelControl(t, i) ==
    /\ pc[t] = "idle" /\ lock = Free
    /\ i \in DOMAIN tracked
    /\ events[tracked[i]].status \in {"pending", "scheduled", "active", "completed"}
    /\ LET k    == tracked[i]
           cuts == CutsPower(events[k].control)
       IN  /\ events' = Mark(events, k, "cancelled")
           /\ IF k = active
              THEN /\ Begin(t, [op |-> IF cuts THEN "reconnect" ELSE "set", value |-> Zero])
                   /\ stopped' = IF cuts THEN FALSE ELSE stopped
                   /\ lock' = t
                   /\ pc' = [pc EXCEPT ![t] = "power"]
                   /\ job' = [job EXCEPT ![t] = [op |-> "cancel", event |-> k]]
                   /\ UNCHANGED pset
              ELSE UNCHANGED <<powerVars, lock, pc, job>>
    /\ UNCHANGED <<tracked, active, default, due, todo>>

Cancel(t) == \E i \in Ids : CancelControl(t, i)

\* Whatever the power controller answered, nothing is in force any more, and
\* the default control is executed if there is one.
CancelReturned(t) ==
    /\ pc[t] = "power" /\ job[t].op = "cancel"
    /\ stage[t] \in {"ok", "error"}
    /\ default = NoControl
    /\ Take(t)
    /\ active' = 0
    /\ lock' = Free
    /\ pc' = [pc EXCEPT ![t] = "idle"]
    /\ job' = [job EXCEPT ![t] = NoJob]
    /\ UNCHANGED <<stopped, pset, events, tracked, default, due, todo>>

CancelFallsBack(t) ==
    /\ pc[t] = "power" /\ job[t].op = "cancel"
    /\ default # NoControl
    /\ Take(t)
    /\ active' = 0
    /\ pc' = [pc EXCEPT ![t] = "default"]
    /\ job' = [job EXCEPT ![t] = NoJob]
    /\ UNCHANGED <<stopped, pset, lock, events, tracked, default, due, todo>>

\* _apply_default_control.
ApplyDefaultControl(t) ==
    /\ pc[t] = "default" /\ Len(events) < MaxEvents
    /\ Execute(t, "default", Len(events) + 1,
               Append(events, NewEvent(DefaultId, default, "open")), active)
    /\ UNCHANGED <<default, due, todo>>

SetDefaultControl ==
    /\ \A t \in Requesters : pc[t] # "default"   \* no await before it is applied
    /\ default' \in Defaults \cup {NoControl}
    /\ UNCHANGED <<powerVars, lock, events, tracked, active, pc, job, due, todo>>

-----------------------------------------------------------------------------
(***************************************************************************)
(* _process_scheduled_events, run every second by the scheduler.           *)
(***************************************************************************)
Due == {k \in DOMAIN events :
            /\ k \in Range(tracked)
            /\ events[k].status = "scheduled" /\ events[k].window = "open"}

StartTick ==
    /\ pc[Scheduler] = "idle" /\ lock = Free
    /\ Due # {}
    /\ lock' = Scheduler
    /\ due' = [due EXCEPT ![Scheduler] = Due]
    /\ pc' = [pc EXCEPT ![Scheduler] = "tick"]
    /\ UNCHANGED <<powerVars, book, job, todo>>

RunDue ==
    /\ pc[Scheduler] = "tick"
    /\ \E k \in due[Scheduler] :
           /\ due' = [due EXCEPT ![Scheduler] = @ \ {k}]
           /\ Execute(Scheduler, "tick", k, events, active)
    /\ UNCHANGED <<default, todo>>

\* Mutant: the scheduler keeps the lock after its tick.
EndTickKeepingLock ==
    /\ pc[Scheduler] = "tick" /\ due[Scheduler] = {}
    /\ pc' = [pc EXCEPT ![Scheduler] = "idle"]
    /\ UNCHANGED <<powerVars, lock, book, job, due, todo>>

EndTick ==
    /\ pc[Scheduler] = "tick" /\ due[Scheduler] = {}
    /\ lock' = Free
    /\ pc' = [pc EXCEPT ![Scheduler] = "idle"]
    /\ UNCHANGED <<powerVars, book, job, due, todo>>

-----------------------------------------------------------------------------
\* Time opens and closes the intervals of the events that wait for it.
PassTime ==
    /\ \E k \in DOMAIN events :
           /\ events[k].status = "scheduled" /\ events[k].window # "past"
           /\ events' = [events EXCEPT ![k].window = IF @ = "future" THEN "open" ELSE "past"]
    /\ UNCHANGED <<powerVars, lock, tracked, active, default, pc, job, due, todo>>

InController(t) == PowerStep(t) /\ UNCHANGED handlerVars

EmergencyStopTriggered == Trigger /\ UNCHANGED handlerVars

HandlerNext ==
    \/ \E t \in Requesters \ {Scheduler} :
           Receive(t) \/ HandleControlList(t) \/ HandleNext(t) \/ Cancel(t)
    \/ \E t \in Requesters :
           \/ PowerReturned(t) \/ CancelReturned(t) \/ CancelFallsBack(t)
           \/ ApplyDefaultControl(t) \/ InController(t)
    \/ StartTick \/ RunDue \/ EndTick
    \/ SetDefaultControl \/ PassTime \/ EmergencyStopTriggered

HandlerSpec == HandlerInit /\ [][HandlerNext]_allVars

-----------------------------------------------------------------------------
(***************************************************************************)
(* Fairness: the scheduler ticks, its lock is granted in the order it is   *)
(* asked for, and the power controller answers every call (PowerControl's  *)
(* EveryCallEnds).                                                         *)
(***************************************************************************)
Answer(t) == InController(t) /\ stage'[t] \in {"ok", "error"}

HandlerFairSpec ==
    /\ HandlerSpec
    /\ SF_allVars(StartTick) /\ WF_allVars(RunDue) /\ WF_allVars(EndTick)
    /\ \A t \in Requesters :
           /\ SF_allVars(Answer(t))
           /\ WF_allVars(PowerReturned(t) \/ CancelReturned(t) \/ CancelFallsBack(t))
           /\ WF_allVars(ApplyDefaultControl(t))

-----------------------------------------------------------------------------
(***************************************************************************)
(* Properties.                                                             *)
(***************************************************************************)
\* The values the handler's variables range over; the lock is held exactly by
\* the requester that is inside an operation.
HandlerTypeOK ==
    /\ PowerTypeOK
    /\ lock \in Requesters \cup {Free}
    /\ events \in Seq([id : Ids, control : Fields, window : Windows,
                       status : Statuses, executed : BOOLEAN])
    /\ DOMAIN tracked \subseteq Ids
    /\ \A i \in DOMAIN tracked : tracked[i] \in DOMAIN events /\ events[tracked[i]].id = i
    /\ active \in 0..Len(events)
    /\ default \in Defaults \cup {NoControl}
    /\ \A t \in Requesters : pc[t] # "idle" <=> lock = t

\* What an event in force holds P_SET at, NoPower if it does not say.
Holds(c) ==
    IF c.connect = "true" \/ c.energize = "true" THEN NoPower
    ELSE IF CutsPower(c) THEN Zero ELSE c.power

\* Between operations, the event in force that has completed is the one the PCS
\* obeys: whatever failed, was superseded, cancelled, scheduled or blocked in
\* the meantime, P_SET is what that event asked for (active_control).
ActiveMatchesDevice ==
    lock = Free /\ ~DryRun /\ active # 0 =>
        LET e == events[active]
        IN  e.status = "completed" /\ Holds(e.control) # NoPower
                => pset = Holds(e.control)

\* At most one remembered event that commands the PCS counts as completed: the
\* one in force.  Every other one has been superseded, cancelled or has failed.
OneInForce ==
    lock = Free =>
        \A i \in DOMAIN tracked :
            LET e == events[tracked[i]]
            IN  /\ e.status # "active"
                /\ e.status = "completed" /\ (e.control.power # NoPower \/ CutsPower(e.control)
                        \/ e.control.connect = "true" \/ e.control.energize = "true")
                      => tracked[i] = active

\* A remembered event whose interval is open does not wait for ever
\* (start_scheduler: events with a future start).
ScheduledEventsRun ==
    \A k \in 1..MaxEvents :
        k \in Due ~> k \notin Due
=============================================================================
